---------------------------- MODULE Sessions_proof ----------------------------
(***************************************************************************)
(* Proofs about Sessions, for any number of clients, server sessions, files  *)
(* and faults.                                                             *)
(***************************************************************************)
EXTENDS Sessions, SequenceTheorems, NaturalsInduction, WellFoundedInduction, TLAPS

LogLines ==
    [kind : Kinds, cs : Clients, sm : SmIds, audited : BOOLEAN, ok : BOOLEAN, time : Nat]

Records(s) == [new : BOOLEAN, file : 0..MaxFiles[s], offset : 0..Len(log[s]), ip : BOOLEAN]

Parsers(s) == [bornMap : SUBSET Clients, failMap : SUBSET [cs : SmIds, time : Time(s)]]

Daemons(s) ==
    [at : {"idle", "next", "read"}, todo : SUBSET Names(s), file : 0..MaxFiles[s],
     offset : 0..Len(log[s]), ip : BOOLEAN, parser : Parsers(s)]

Rows == [source : Sources, ip : BOOLEAN, sess : Clients, login : Nat, ok : BOOLEAN, closed : BOOLEAN]

-----------------------------------------------------------------------------
(* The files.                                                              *)

\* A file ends where it began or later, and within the log.
FilesOrdered(s) ==
    \A k \in 1..Current(s) : begins[s][k] <= EndOf(s, k) /\ EndOf(s, k) <= Len(log[s])

\* A record speaks of a place in its file; that of a rotated file of its end.
RecordsInFiles(s) ==
    \A n \in Names(s) :
        LET r == logfiles[s][n] IN
        /\ r.new => r.file = 0
        /\ r.file # 0 => r.file \in 1..Current(s) /\ r.offset \in begins[s][r.file]..EndOf(s, r.file)
        /\ n # Active /\ ~r.new => n < Current(s) /\ r.file = n /\ r.offset = EndOf(s, n)

\* A rotated file is listed until it has a record, and read under its name.
TodoListed(s) ==
    /\ \A n \in daemon[s].todo : n = Active \/ (n < Current(s) /\ logfiles[s][n].new)
    /\ daemon[s].at = "read" =>
        daemon[s].todo # {} /\ (Listed(s) # Active => daemon[s].file = Listed(s))

FilesTrue == \A s \in Sources : FilesOrdered(s) /\ RecordsInFiles(s) /\ TodoListed(s)

-----------------------------------------------------------------------------
(* What the lines say.                                                     *)

\* What a line says of its client is so, and stays so.
LineTrue(s, i) ==
    LET line == log[s][i]
        c == line.cs
    IN  /\ line.sm = SmId[c] /\ line.audited = audited[c]
        /\ line.kind = "update_cmd_stats" => answer[c] = IF line.ok THEN "ok" ELSE "fail"
        /\ line.kind = "error_transfer" => answer[c] = "fail"
        /\ line.kind = "COM_QUIT" => Ended(c)
        /\ line.kind = "client session do_io_close" => phase[c] = "gone"
        /\ line.kind = "MySQL LOGIN" =>
            \E n \in DOMAIN servers[c] : servers[c][n].login /\ servers[c][n].ok = line.ok
        /\ line.kind = "connection close" => SomeServerClosed(c)

\* i is a line of c of one of these kinds.
IsLine(i, c, kinds) == log["PROXY"][i].cs = c /\ log["PROXY"][i].kind \in kinds

Answers == {"update_cmd_stats"}
Births == {"server session born"}
Closes == {"client session do_io_close"}
Quits == {"COM_QUIT"}

\* The order of the lines of a client in obproxy.log.
ClientLines(c) ==
    /\ \A i \in Time("PROXY") : log["PROXY"][i].cs = c =>
        /\ phase[c] # "new"
        /\ \E j \in 1..i : IsLine(j, c, Births)
        /\ IsLine(i, c, Quits) => \E j \in 1..i : IsLine(j, c, Answers)
        /\ \A j \in Time("PROXY") : IsLine(j, c, Closes) => i <= j
    /\ phase[c] # "new" => \E j \in Time("PROXY") : IsLine(j, c, Births)
    /\ answer[c] = "ok" => \E j \in Time("PROXY") : IsLine(j, c, Answers)
    /\ phase[c] = "gone" => \E j \in Time("PROXY") : IsLine(j, c, Closes)

\* How a client came to its state.
ClientTrue(c) ==
    /\ phase[c] \in {"new", "born"} => answer[c] = "none"
    /\ phase[c] \in {"in", "quit"} => answer[c] = "ok"
    /\ phase[c] # "new" => Len(servers[c]) > 0
    /\ \A n \in DOMAIN servers[c] : servers[c][n].login \/ servers[c][n].ok

LogTrue ==
    /\ \A c \in Clients : ClientTrue(c) /\ ClientLines(c)
    /\ \A s \in Sources : \A i \in Time(s) : LineTrue(s, i)

-----------------------------------------------------------------------------
(* What the parser remembers.                                              *)

\* A client in bornMap: up to line m its birth was written and no answer since.
BornTrue(c, m) ==
    /\ audited[c]
    /\ \E i \in 1..m : IsLine(i, c, Births) /\ \A j \in i..m : ~IsLine(j, c, Answers)

\* An entry of failMap: an error was written.
FailTrue(f, m) ==
    \E i \in 1..m : log["PROXY"][i].sm = f.cs /\ log["PROXY"][i].kind = "error_transfer"

ParserTrue ==
    LET d == daemon["PROXY"] IN
    /\ d.at # "read" => d.parser = NewParser
    /\ \A c \in d.parser.bornMap : BornTrue(c, d.offset)
    /\ \A f \in d.parser.failMap : FailTrue(f, d.offset)

\* Only an error_transfer brings a row of a user that is not audited.
OnlyAudited(r) ==
    audited[r.sess] \/ (r.source = "PROXY" /\ ~r.ok /\ NamedInError(r.sess))

\* What OutcomeTrue says, and why it stays so.
RowTrue(r) ==
    /\ OnlyAudited(r)
    /\ r.source = "PROXY" /\ r.ok => answer[r.sess] = "ok"
    /\ r.source = "PROXY" /\ ~r.ok =>
        \/ answer[r.sess] # "ok" /\ phase[r.sess] \notin {"new", "born"}
        \/ Refused(r.sess)
        \/ BornAgain(r.sess) \/ NamedInError(r.sess)
    /\ r.source = "SERVER" =>
        \E n \in DOMAIN servers[r.sess] :
            servers[r.sess][n].login /\ servers[r.sess][n].ok = r.ok

RowsTrue == \A r \in sessions : RowTrue(r)

-----------------------------------------------------------------------------
(* What a rotated file brings back.                                        *)

Decisive == {"update_cmd_stats", "client session do_io_close"}

\* The lines from the begin of file k to line m.
Read(k, m) == begins["PROXY"][k] + 1 .. m

\* The first line of c lies in file k or a later one.
FreshIn(c, k) == \A i \in Time("PROXY") : log["PROXY"][i].cs = c => i > begins["PROXY"][k]

\* Once the line that decides on the login of c was read and no statement of
\* its lines failed, there is a PROXY row of c, closed if its quit was read.
Recovered(k, m) ==
    \A c \in Clients :
        (/\ audited[c] /\ FreshIn(c, k)
         /\ \A i \in Read(k, m) : log["PROXY"][i].cs = c => <<"PROXY", i>> \notin failed
         /\ \E i \in Read(k, m) : IsLine(i, c, Decisive))
        => \E r \in sessions :
            /\ r.source = "PROXY" /\ r.sess = c
            /\ (\E i \in Read(k, m) : IsLine(i, c, Quits)) => r.closed

\* Until then its birth is remembered.
BirthKept(k, m) ==
    \A c \in Clients :
        (/\ audited[c] /\ FreshIn(c, k)
         /\ \E i \in Read(k, m) : IsLine(i, c, Births)
         /\ ~\E i \in Read(k, m) : IsLine(i, c, Decisive))
        => c \in daemon["PROXY"].parser.bornMap

RotatedRecovered ==
    LET d == daemon["PROXY"] IN
    /\ \A n \in Names("PROXY") \ {Active} : ~logfiles["PROXY"][n].new => Recovered(n, EndOf("PROXY", n))
    /\ d.at = "read" /\ Listed("PROXY") # Active =>
        Recovered(d.file, d.offset) /\ BirthKept(d.file, d.offset)
-----------------------------------------------------------------------------
(* Types and files.                                                        *)

Shape == TypeOK /\ FilesTrue

\* A nonempty set of numbers has a least one.
LEMMA LeastExists ==
    ASSUME NEW S \in SUBSET Nat, S # {}
    PROVE  \E n \in S : \A m \in S : n <= m
<1> DEFINE Less == {ss \in Nat \X Nat : ss[1] < ss[2]}
<1>1. IsWellFoundedOn(Less, Nat)
  BY NatLessThanWellFounded DEF OpToRel
<1>2. \E n \in S : \A m \in S : ~(<<m, n>> \in Less)
  <2> HIDE DEF Less
  <2> QED
    BY <1>1, WFMin
<1>3. PICK n \in S : \A m \in S : ~(<<m, n>> \in Less)
  BY <1>2
<1>4. \A m \in S : ~(m < n)
  BY <1>3
<1>5. QED
  BY <1>4

\* The name that is next to read, and its file.
LEMMA ListedIn ==
    ASSUME Shape, NEW s \in Sources, daemon[s].todo # {}
    PROVE  /\ Listed(s) \in daemon[s].todo /\ Listed(s) \in Names(s)
           /\ FileNamed(s, Listed(s)) \in 1..Current(s)
           /\ Listed(s) # Active =>
                /\ Listed(s) < Current(s) /\ FileNamed(s, Listed(s)) = Listed(s)
                /\ logfiles[s][Listed(s)].new
<1> USE SessionsAssumption
<1>1. daemon[s].todo \subseteq Names(s) /\ Names(s) \subseteq Nat /\ Current(s) \in 1..MaxFiles[s]
      /\ MaxFiles[s] \in Nat
  BY DEF Shape, TypeOK, Names
<1>2. Listed(s) \in daemon[s].todo
  <2> DEFINE rotated == daemon[s].todo \ {Active}
  <2>1. CASE rotated = {}
    BY <2>1 DEF Listed
  <2>2. CASE rotated # {}
    <3>1. \E n \in rotated : \A m \in rotated : n <= m
      BY <1>1, <2>2, LeastExists
    <3>2. (CHOOSE n \in rotated : \A m \in rotated : n <= m) \in rotated
      BY <3>1
    <3>3. QED
      BY <2>2, <3>2 DEF Listed
  <2>3. QED
    BY <2>1, <2>2
<1>3. Listed(s) = Active \/ (Listed(s) < Current(s) /\ logfiles[s][Listed(s)].new)
  BY <1>2 DEF Shape, FilesTrue, TodoListed
<1>4. FileNamed(s, Listed(s)) \in 1..Current(s)
  BY <1>1, <1>2, <1>3 DEF FileNamed, Names, Active
<1>5. QED
  BY <1>1, <1>2, <1>3, <1>4 DEF FileNamed

-----------------------------------------------------------------------------
(* Clients and servers.                                                    *)

ServerSessions == [login : BOOLEAN, ok : BOOLEAN, closed : BOOLEAN]

\* What the clients are, of TypeOK.
ClientsTyped ==
    /\ audited \in [Clients -> BOOLEAN]
    /\ phase \in [Clients -> {"new", "born", "in", "refused", "quit", "gone"}]
    /\ answer \in [Clients -> {"none", "ok", "fail"}]
    /\ servers \in [Clients -> Seq(ServerSessions)]

LEMMA ClientTyped ==
    ASSUME ClientsTyped, NEW c \in Clients
    PROVE  /\ servers[c] \in Seq(ServerSessions) /\ Len(servers[c]) \in Nat
           /\ DOMAIN servers[c] = 1..Len(servers[c])
           /\ \A n \in DOMAIN servers[c] : servers[c][n] \in ServerSessions
<1>1. servers[c] \in Seq(ServerSessions)
  BY DEF ClientsTyped
<1>2. QED
  BY <1>1, LenProperties, ElementOfSeq

\* The server sessions of c after a birth, a login and a close.
LEMMA BornServers ==
    ASSUME ClientsTyped, NEW c \in Clients, Born(c)
    PROVE  /\ servers' \in [Clients -> Seq(ServerSessions)]
           /\ \A d \in Clients \ {c} : servers'[d] = servers[d]
           /\ DOMAIN servers'[c] = 1..Len(servers[c]) + 1
           /\ Len(servers'[c]) = Len(servers[c]) + 1
           /\ \A n \in DOMAIN servers[c] : servers'[c][n] = servers[c][n]
           /\ servers'[c][Len(servers[c]) + 1].login = FALSE
           /\ servers'[c][Len(servers[c]) + 1].ok = TRUE
<1> DEFINE x == [login |-> FALSE, ok |-> TRUE, closed |-> FALSE]
<1>1. servers[c] \in Seq(ServerSessions) /\ DOMAIN servers[c] = 1..Len(servers[c])
  BY ClientTyped
<1>2. x \in ServerSessions
  BY DEF ServerSessions
<1>3. servers' = [servers EXCEPT ![c] = Append(@, x)]
  BY DEF Born
<1>4. x.login = FALSE /\ x.ok = TRUE
  OBVIOUS
<1> HIDE DEF x
<1>5. servers'[c] = Append(servers[c], x) /\ \A d \in Clients \ {c} : servers'[d] = servers[d]
      /\ DOMAIN servers' = Clients
  BY <1>3 DEF ClientsTyped
<1>6. /\ servers'[c] \in Seq(ServerSessions) /\ Len(servers'[c]) = Len(servers[c]) + 1
      /\ servers'[c][Len(servers[c]) + 1] = x
      /\ \A n \in 1..Len(servers[c]) : servers'[c][n] = servers[c][n]
  BY <1>1, <1>2, <1>5, AppendProperties
<1>7. DOMAIN servers'[c] = 1..Len(servers'[c])
  BY <1>6, LenProperties
<1>8. servers' \in [Clients -> Seq(ServerSessions)]
  BY <1>2, <1>3 DEF ClientsTyped
<1>9. QED
  BY <1>1, <1>4, <1>5, <1>6, <1>7, <1>8

LEMMA LoginServers ==
    ASSUME ClientsTyped, NEW c \in Clients, NEW n \in DOMAIN servers[c], NEW ok \in BOOLEAN,
           ServerLogin(c, n, ok)
    PROVE  /\ servers' \in [Clients -> Seq(ServerSessions)]
           /\ \A d \in Clients \ {c} : servers'[d] = servers[d]
           /\ DOMAIN servers'[c] = DOMAIN servers[c] /\ Len(servers'[c]) = Len(servers[c])
           /\ \A m \in DOMAIN servers[c] : m # n => servers'[c][m] = servers[c][m]
           /\ servers'[c][n].login /\ servers'[c][n].ok = ok /\ ~servers[c][n].login
           /\ servers'[c][n].closed = servers[c][n].closed
<1>1. servers[c] \in Seq(ServerSessions) /\ DOMAIN servers[c] = 1..Len(servers[c])
      /\ servers[c][n] \in ServerSessions
  BY ClientTyped
<1> DEFINE x == [[servers[c][n] EXCEPT !.login = TRUE] EXCEPT !.ok = ok]
<1>2. x \in ServerSessions /\ x.login = TRUE /\ x.ok = ok /\ x.closed = servers[c][n].closed
  BY <1>1 DEF ServerSessions
<1>3. servers' = [servers EXCEPT ![c][n].login = TRUE, ![c][n].ok = ok] /\ ~servers[c][n].login
  BY DEF ServerLogin
<1>4. servers'[c] = [servers[c] EXCEPT ![n] = x] /\ \A d \in Clients \ {c} : servers'[d] = servers[d]
      /\ DOMAIN servers' = Clients
  BY <1>1, <1>3 DEF ClientsTyped
<1> HIDE DEF x
<1>5. /\ servers'[c] \in Seq(ServerSessions) /\ Len(servers'[c]) = Len(servers[c])
      /\ \A m \in 1..Len(servers[c]) : servers'[c][m] = IF m = n THEN x ELSE servers[c][m]
  BY <1>1, <1>2, <1>4, ExceptSeq
<1>6. DOMAIN servers'[c] = 1..Len(servers'[c])
  BY <1>5, LenProperties
<1>7. \A d \in Clients : servers'[d] \in Seq(ServerSessions)
  <2> SUFFICES ASSUME NEW d \in Clients PROVE servers'[d] \in Seq(ServerSessions)
    OBVIOUS
  <2>1. d = c \/ servers'[d] = servers[d]
    BY <1>4
  <2>2. servers[d] \in Seq(ServerSessions)
    BY DEF ClientsTyped
  <2>3. QED
    BY <1>5, <2>1, <2>2
<1>8. servers' \in [Clients -> Seq(ServerSessions)]
  <2>1. servers' = [d \in Clients |-> servers'[d]]
    BY <1>3 DEF ClientsTyped
  <2>2. QED
    BY <1>7, <2>1
<1>9. QED
  BY <1>1, <1>2, <1>3, <1>4, <1>5, <1>6, <1>8

LEMMA CloseServers ==
    ASSUME ClientsTyped, NEW c \in Clients, NEW n \in DOMAIN servers[c], ServerClose(c, n)
    PROVE  /\ servers' \in [Clients -> Seq(ServerSessions)]
           /\ \A d \in Clients \ {c} : servers'[d] = servers[d]
           /\ DOMAIN servers'[c] = DOMAIN servers[c] /\ Len(servers'[c]) = Len(servers[c])
           /\ \A m \in DOMAIN servers[c] : /\ servers'[c][m].login = servers[c][m].login
                                           /\ servers'[c][m].ok = servers[c][m].ok
           /\ servers'[c][n].closed
<1>1. servers[c] \in Seq(ServerSessions) /\ DOMAIN servers[c] = 1..Len(servers[c])
      /\ servers[c][n] \in ServerSessions
  BY ClientTyped
<1> DEFINE x == [servers[c][n] EXCEPT !.closed = TRUE]
<1>2. x \in ServerSessions /\ x.login = servers[c][n].login /\ x.ok = servers[c][n].ok
      /\ x.closed = TRUE
  BY <1>1 DEF ServerSessions
<1>3. servers' = [servers EXCEPT ![c][n].closed = TRUE]
  BY DEF ServerClose
<1>4. servers'[c] = [servers[c] EXCEPT ![n] = x] /\ \A d \in Clients \ {c} : servers'[d] = servers[d]
      /\ DOMAIN servers' = Clients
  BY <1>1, <1>3 DEF ClientsTyped
<1> HIDE DEF x
<1>5. /\ servers'[c] \in Seq(ServerSessions) /\ Len(servers'[c]) = Len(servers[c])
      /\ \A m \in 1..Len(servers[c]) : servers'[c][m] = IF m = n THEN x ELSE servers[c][m]
  BY <1>1, <1>2, <1>4, ExceptSeq
<1>6. DOMAIN servers'[c] = 1..Len(servers'[c])
  BY <1>5, LenProperties
<1>7. \A d \in Clients : servers'[d] \in Seq(ServerSessions)
  <2> SUFFICES ASSUME NEW d \in Clients PROVE servers'[d] \in Seq(ServerSessions)
    OBVIOUS
  <2>1. d = c \/ servers'[d] = servers[d]
    BY <1>4
  <2>2. servers[d] \in Seq(ServerSessions)
    BY DEF ClientsTyped
  <2>3. QED
    BY <1>5, <2>1, <2>2
<1>8. servers' \in [Clients -> Seq(ServerSessions)]
  <2>1. servers' = [d \in Clients |-> servers'[d]]
    BY <1>3 DEF ClientsTyped
  <2>2. QED
    BY <1>7, <2>1
<1>9. QED
  BY <1>1, <1>2, <1>4, <1>5, <1>6, <1>8

\* A step of a client.
ClientStep(c) ==
    \/ Born(c)
    \/ \E n \in DOMAIN servers[c], ok \in BOOLEAN : ServerLogin(c, n, ok)
    \/ AnswerOk(c)
    \/ \E kind \in FailureKinds : AnswerFail(c, kind)
    \/ Quit(c)
    \/ Close(c)
    \/ \E n \in DOMAIN servers[c] : ServerClose(c, n)

LEMMA ClientStepTypes ==
    ASSUME ClientsTyped, NEW c \in Clients, ClientStep(c)
    PROVE  ClientsTyped' /\ audited' = audited
           /\ \E s \in Sources, ok \in BOOLEAN : \E kind \in KindsOf(s) : Write(s, kind, c, ok)
<1>0. /\ audited \in [Clients -> BOOLEAN]
      /\ phase \in [Clients -> {"new", "born", "in", "refused", "quit", "gone"}]
      /\ answer \in [Clients -> {"none", "ok", "fail"}]
      /\ servers \in [Clients -> Seq(ServerSessions)]
  BY DEF ClientsTyped
<1>1. KindsOf("SERVER") = {"MySQL LOGIN", "connection close"}
      /\ KindsOf("PROXY") = {"server session born", "update_cmd_stats", "error_transfer",
                             "COM_QUIT", "client session do_io_close"}
      /\ "PROXY" \in Sources /\ "SERVER" \in Sources
  BY DEF KindsOf, Sources
<1>2. CASE Born(c)
  <2>1. servers' \in [Clients -> Seq(ServerSessions)]
    BY <1>2, BornServers
  <2>2. QED
    BY <1>0, <1>1, <1>2, <2>1 DEF Born, ClientsTyped
<1>3. CASE \E n \in DOMAIN servers[c], ok \in BOOLEAN : ServerLogin(c, n, ok)
  <2>1. PICK n \in DOMAIN servers[c], ok \in BOOLEAN : ServerLogin(c, n, ok)
    BY <1>3
  <2>2. servers' \in [Clients -> Seq(ServerSessions)]
    BY <2>1, LoginServers
  <2>3. Write("SERVER", "MySQL LOGIN", c, ok) /\ UNCHANGED <<audited, phase, answer>>
    BY <2>1 DEF ServerLogin
  <2>4. QED
    BY <1>0, <1>1, <2>2, <2>3 DEF ClientsTyped
<1>4. CASE AnswerOk(c)
  BY <1>0, <1>1, <1>4 DEF AnswerOk, ClientsTyped
<1>5. CASE \E kind \in FailureKinds : AnswerFail(c, kind)
  BY <1>0, <1>1, <1>5, SessionsAssumption DEF AnswerFail, ClientsTyped
<1>6. CASE Quit(c)
  BY <1>0, <1>1, <1>6 DEF Quit, ClientsTyped
<1>7. CASE Close(c)
  BY <1>0, <1>1, <1>7 DEF Close, ClientsTyped
<1>8. CASE \E n \in DOMAIN servers[c] : ServerClose(c, n)
  <2>1. servers' \in [Clients -> Seq(ServerSessions)]
    BY <1>8, CloseServers
  <2>2. QED
    BY <1>0, <1>1, <1>8, <2>1 DEF ServerClose, ClientsTyped
<1>9. QED
  BY <1>2, <1>3, <1>4, <1>5, <1>6, <1>7, <1>8 DEF ClientStep
-----------------------------------------------------------------------------
(* Lines and files grow.                                                   *)

\* Every step of the world writes a line or rotates a file.
LEMMA WorldSteps ==
    ASSUME TypeOK, World
    PROVE  /\ ClientsTyped' /\ audited' = audited
           /\ \/ \E s \in Sources, c \in Clients, ok \in BOOLEAN : \E kind \in KindsOf(s) :
                    Write(s, kind, c, ok)
              \/ \E s \in Sources : Rotate(s)
<1>1. ClientsTyped
  BY DEF TypeOK, ClientsTyped, ServerSessions
<1>2. ASSUME NEW s \in Sources, Rotate(s) PROVE ClientsTyped' /\ audited' = audited
  BY <1>1, <1>2 DEF Rotate, clients, ClientsTyped
<1>3. (\E c \in Clients : ClientStep(c)) \/ \E s \in Sources : Rotate(s)
  BY DEF World, ClientStep
<1>4. QED
  BY <1>1, <1>2, <1>3, ClientStepTypes

LEMMA WriteGrows ==
    ASSUME TypeOK, NEW s \in Sources, NEW kind \in KindsOf(s), NEW c \in Clients,
           NEW ok \in BOOLEAN, Write(s, kind, c, ok)
    PROVE  /\ log' \in [Sources -> Seq(LogLines)] /\ begins' = begins
           /\ Line(s, kind, c, ok) \in LogLines
           /\ \A t \in Sources \ {s} : log'[t] = log[t]
           /\ Len(log'[s]) = Len(log[s]) + 1
           /\ log'[s][Len(log[s]) + 1] = Line(s, kind, c, ok)
           /\ \A t \in Sources : \A i \in Time(t) : log'[t][i] = log[t][i]
<1>1. log \in [Sources -> Seq(LogLines)] /\ audited \in [Clients -> BOOLEAN]
  BY DEF TypeOK, LogLines
<1>2. Line(s, kind, c, ok) \in LogLines
  <2>1. kind \in Kinds /\ SmId[c] \in SmIds /\ Len(log[s]) + 1 \in Nat
    BY <1>1 DEF Kinds, SmIds
  <2>2. QED
    BY <1>1, <2>1 DEF Line, LogLines
<1>3. log' = [log EXCEPT ![s] = Append(@, Line(s, kind, c, ok))] /\ begins' = begins
  BY DEF Write
<1>4. log'[s] = Append(log[s], Line(s, kind, c, ok)) /\ \A t \in Sources \ {s} : log'[t] = log[t]
  BY <1>1, <1>3
<1>5. log[s] \in Seq(LogLines)
  BY <1>1
<1>6. /\ log'[s] \in Seq(LogLines) /\ Len(log'[s]) = Len(log[s]) + 1
      /\ log'[s][Len(log[s]) + 1] = Line(s, kind, c, ok)
      /\ \A i \in 1..Len(log[s]) : log'[s][i] = log[s][i]
  BY <1>2, <1>4, <1>5, AppendProperties
<1>7. QED
  BY <1>1, <1>2, <1>3, <1>4, <1>6 DEF Time

LEMMA RotateGrows ==
    ASSUME TypeOK, NEW s \in Sources, Rotate(s)
    PROVE  /\ log' = log /\ begins' \in [Sources -> Seq(Nat)]
           /\ \A t \in Sources \ {s} : begins'[t] = begins[t]
           /\ Current(s)' = Current(s) + 1 /\ Current(s)' <= MaxFiles[s]
           /\ begins'[s][Current(s) + 1] = Len(log[s])
           /\ \A k \in 1..Current(s) : begins'[s][k] = begins[s][k]
<1> USE SessionsAssumption
<1>1. /\ begins \in [Sources -> Seq(Nat)] /\ Len(log[s]) \in Nat /\ Current(s) \in 1..MaxFiles[s]
      /\ MaxFiles[s] \in Nat
  BY DEF TypeOK
<1>2. log' = log /\ begins' = [begins EXCEPT ![s] = Append(@, Len(log[s]))] /\ Current(s) < MaxFiles[s]
  BY DEF Rotate
<1>3. begins'[s] = Append(begins[s], Len(log[s])) /\ \A t \in Sources \ {s} : begins'[t] = begins[t]
  BY <1>1, <1>2
<1>4. begins[s] \in Seq(Nat)
  BY <1>1
<1>5. /\ begins'[s] \in Seq(Nat) /\ Len(begins'[s]) = Len(begins[s]) + 1
      /\ begins'[s][Len(begins[s]) + 1] = Len(log[s])
      /\ \A k \in 1..Len(begins[s]) : begins'[s][k] = begins[s][k]
  BY <1>1, <1>3, <1>4, AppendProperties
<1>6. QED
  BY <1>1, <1>2, <1>3, <1>5 DEF Current

\* What a step of the world does to the lines and files that exist.
LEMMA WorldGrows ==
    ASSUME TypeOK, World
    PROVE  /\ UNCHANGED <<audited, logfiles, sessions, daemon, failed>>
           /\ log' \in [Sources -> Seq(LogLines)] /\ begins' \in [Sources -> Seq(Nat)]
           /\ \A t \in Sources :
                /\ Current(t)' \in {Current(t), Current(t) + 1} /\ Current(t)' <= MaxFiles[t]
                /\ Len(log'[t]) \in {Len(log[t]), Len(log[t]) + 1}
                /\ \A i \in Time(t) : log'[t][i] = log[t][i]
                /\ Len(log'[t]) # Len(log[t]) => Current(t)' = Current(t)
                /\ Current(t)' # Current(t) => begins'[t][Current(t) + 1] = Len(log[t])
                /\ \A k \in 1..Current(t) : begins'[t][k] = begins[t][k]
<1>1. \A t \in Sources : Current(t) \in 1..MaxFiles[t] /\ MaxFiles[t] \in Nat /\ Len(log[t]) \in Nat
  BY SessionsAssumption DEF TypeOK
<1>2. log \in [Sources -> Seq(LogLines)] /\ begins \in [Sources -> Seq(Nat)] /\ audited' = audited
  BY WorldSteps DEF TypeOK, LogLines
<1>3. ASSUME NEW s \in Sources, NEW c \in Clients, NEW ok \in BOOLEAN, NEW kind \in KindsOf(s),
             Write(s, kind, c, ok)
      PROVE  /\ UNCHANGED <<logfiles, sessions, daemon, failed, begins>>
             /\ log' \in [Sources -> Seq(LogLines)]
             /\ \A t \in Sources : /\ Len(log'[t]) \in {Len(log[t]), Len(log[t]) + 1}
                                   /\ \A i \in Time(t) : log'[t][i] = log[t][i]
  BY <1>3, WriteGrows DEF Write
<1>4. ASSUME NEW s \in Sources, Rotate(s)
      PROVE  /\ UNCHANGED <<logfiles, sessions, daemon, failed, log>>
             /\ begins' \in [Sources -> Seq(Nat)]
             /\ \A t \in Sources :
                /\ Current(t)' \in {Current(t), Current(t) + 1} /\ Current(t)' <= MaxFiles[t]
                /\ Current(t)' # Current(t) => begins'[t][Current(t) + 1] = Len(log[t])
                /\ \A k \in 1..Current(t) : begins'[t][k] = begins[t][k]
  <2>1. /\ log' = log /\ begins' \in [Sources -> Seq(Nat)]
        /\ \A t \in Sources \ {s} : begins'[t] = begins[t]
        /\ Current(s)' = Current(s) + 1 /\ Current(s)' <= MaxFiles[s]
        /\ begins'[s][Current(s) + 1] = Len(log[s])
        /\ \A k \in 1..Current(s) : begins'[s][k] = begins[s][k]
    BY <1>4, RotateGrows
  <2>2. UNCHANGED <<logfiles, sessions, daemon, failed, log>>
    BY <1>4 DEF Rotate
  <2>3. ASSUME NEW t \in Sources
        PROVE  /\ Current(t)' \in {Current(t), Current(t) + 1} /\ Current(t)' <= MaxFiles[t]
               /\ Current(t)' # Current(t) => begins'[t][Current(t) + 1] = Len(log[t])
               /\ \A k \in 1..Current(t) : begins'[t][k] = begins[t][k]
    <3>1. CASE t = s
      BY <2>1, <3>1
    <3>2. CASE t # s
      <4>1. begins'[t] = begins[t]
        BY <2>1, <3>2
      <4>2. Current(t)' = Current(t)
        BY <4>1 DEF Current
      <4>3. QED
        BY <1>1, <4>1, <4>2
    <3>3. QED
      BY <3>1, <3>2
  <2>4. QED
    BY <2>1, <2>2, <2>3
<1>5. CASE \E s \in Sources, c \in Clients, ok \in BOOLEAN : \E kind \in KindsOf(s) :
              Write(s, kind, c, ok)
  BY <1>1, <1>2, <1>3, <1>5 DEF Current
<1>6. CASE \E s \in Sources : Rotate(s)
  BY <1>1, <1>2, <1>4, <1>6
<1>7. QED
  BY <1>5, <1>6, WorldSteps

\* The end of a file moves only while it is the active one.
LEMMA EndsGrow ==
    ASSUME TypeOK, World, NEW t \in Sources, NEW k \in 1..Current(t)
    PROVE  /\ EndOf(t, k)' \in {EndOf(t, k), EndOf(t, k) + 1}
           /\ k # Current(t) => EndOf(t, k)' = EndOf(t, k)
<1>1. /\ Current(t)' \in {Current(t), Current(t) + 1} /\ Current(t) \in Nat
      /\ Len(log'[t]) \in {Len(log[t]), Len(log[t]) + 1}
      /\ Len(log'[t]) # Len(log[t]) => Current(t)' = Current(t)
      /\ Current(t)' # Current(t) => begins'[t][Current(t) + 1] = Len(log[t])
      /\ \A m \in 1..Current(t) : begins'[t][m] = begins[t][m]
  <2>1. Current(t) \in 1..MaxFiles[t] /\ MaxFiles[t] \in Nat
    BY SessionsAssumption DEF TypeOK
  <2>2. Current(t) \in Nat
    BY <2>1
  <2>3. QED
    BY <2>2, WorldGrows
<1>2. CASE k = Current(t)
  BY <1>1, <1>2 DEF EndOf
<1>3. CASE k # Current(t)
  <2>1. k + 1 \in 1..Current(t) /\ k # Current(t)'
    BY <1>1, <1>3
  <2>2. QED
    BY <1>1, <1>3, <2>1 DEF EndOf
<1>4. QED
  BY <1>2, <1>3
-----------------------------------------------------------------------------
(* Parser and statements.                                                  *)

Events(s) == [type : {"LOGIN_OK", "LOGIN_FAIL", "LOGOFF"}, cs : Clients, time : Time(s)]

LEMMA LineTyped ==
    ASSUME TypeOK, NEW s \in Sources, NEW i \in Time(s)
    PROVE  /\ log[s][i] \in LogLines /\ log[s][i].time = i /\ log[s][i].kind \in KindsOf(s)
           /\ log[s][i].cs \in Clients
<1>1. log[s] \in Seq(LogLines)
  BY DEF TypeOK, LogLines
<1>2. log[s][i] \in LogLines
  BY <1>1 DEF Time
<1>3. QED
  BY <1>2 DEF TypeOK, LogLines

\* A line of a log leaves a parser of that log, and an event of its client or none.
LEMMA ProxyLineParsed ==
    ASSUME NEW p \in Parsers("PROXY"), NEW line \in LogLines, line.time \in Time("PROXY"),
           line.kind \in KindsOf("PROXY")
    PROVE  /\ Parse(p, line).parser \in Parsers("PROXY")
           /\ Parse(p, line).event = NoEvent
              \/ (Parse(p, line).event \in Events("PROXY") /\ Parse(p, line).event.cs = line.cs)
<1>2. line.cs \in Clients /\ line.sm \in SmIds /\ line.time \in Time("PROXY")
  BY DEF LogLines
<1>3. /\ p.bornMap \in SUBSET Clients /\ p.failMap \in SUBSET [cs : SmIds, time : Time("PROXY")]
      /\ p = [bornMap |-> p.bornMap, failMap |-> p.failMap]
  BY DEF Parsers
<1>4. ForgetFail(p, line.cs) \subseteq p.failMap /\ ForgetFail(p, line.sm) \subseteq p.failMap
      /\ FailOf(p, line.cs) \subseteq p.failMap
  BY DEF ForgetFail, FailOf
<1>5. CASE line.kind = "server session born"
  BY <1>2, <1>3, <1>5 DEF Parse, HandleBorn, Remembered, Parsers
<1>6. CASE line.kind = "update_cmd_stats"
  BY <1>2, <1>3, <1>6 DEF Parse, HandleLoginCmdStats, Remembered, Parsers, Event, Events
<1>7. CASE line.kind = "error_transfer"
  BY <1>2, <1>3, <1>4, <1>7 DEF Parse, HandleErrorTransfer, Remembered, Parsers
<1>8. CASE line.kind = "COM_QUIT"
  BY <1>2, <1>3, <1>8 DEF Parse, HandleLogoff, Remembered, Parsers, Event, Events
<1>9. CASE line.kind = "client session do_io_close"
  <2> DEFINE fail == FailOf(p, line.cs)
             e == Parse(p, line).event
  <2>1. /\ Parse(p, line).parser = [bornMap |-> p.bornMap \ {line.cs},
                                     failMap |-> ForgetFail(p, line.cs)]
        /\ e = CASE fail # {} -> Event("LOGIN_FAIL", line, (CHOOSE f \in fail : TRUE).time)
                 [] fail = {} /\ line.cs \in p.bornMap -> Event("LOGIN_FAIL", line, line.time)
                 [] OTHER -> NoEvent
    BY <1>9 DEF Parse, HandleDoClose, Remembered
  <2>2. fail # {} => (CHOOSE f \in fail : TRUE) \in fail
    BY DEF FailOf
  <2>3. fail # {} => (CHOOSE f \in fail : TRUE).time \in Time("PROXY")
    BY <1>3, <1>4, <2>2
  <2>4. e = NoEvent \/ (e \in Events("PROXY") /\ e.cs = line.cs)
    <3> DEFINE tm == (CHOOSE f \in fail : TRUE).time
    <3>1. fail # {} => tm \in Time("PROXY")
      BY <2>3
    <3> HIDE DEF tm
    <3>2. e \in {NoEvent, Event("LOGIN_FAIL", line, line.time)}
          \/ (fail # {} /\ e = Event("LOGIN_FAIL", line, tm))
      BY <2>1 DEF tm
    <3> HIDE DEF e, fail
    <3>3. QED
      BY <1>2, <3>1, <3>2 DEF Event, Events
  <2>5. Parse(p, line).parser \in Parsers("PROXY")
    BY <1>3, <1>4, <2>1 DEF Parsers
  <2>6. QED
    BY <2>4, <2>5
<1>10. QED
  BY <1>5, <1>6, <1>7, <1>8, <1>9 DEF KindsOf

LEMMA LineParsed ==
    ASSUME TypeOK, NEW s \in Sources, NEW p \in Parsers(s), NEW i \in Time(s)
    PROVE  /\ Parsed(s, p, log[s][i]).parser \in Parsers(s)
           /\ Parsed(s, p, log[s][i]).event = NoEvent
              \/ /\ Parsed(s, p, log[s][i]).event \in Events(s)
                 /\ Parsed(s, p, log[s][i]).event.cs = log[s][i].cs
<1>1. PICK line : line = log[s][i]
  OBVIOUS
<1>2. /\ line \in LogLines /\ line.time \in Time(s) /\ line.kind \in KindsOf(s)
      /\ line.cs \in Clients
  BY <1>1, LineTyped
<1>3. /\ Parsed(s, p, line).parser \in Parsers(s)
      /\ Parsed(s, p, line).event = NoEvent
         \/ (Parsed(s, p, line).event \in Events(s) /\ Parsed(s, p, line).event.cs = line.cs)
  <2>1. CASE s = "PROXY"
    BY <1>2, <2>1, ProxyLineParsed DEF Parsed
  <2>2. CASE s = "SERVER"
    <3>1. Parsed(s, p, line).parser = p /\ Parsed(s, p, line).event = ParseObServerLine(line)
      BY <2>2 DEF Parsed, Remembered
    <3>2. ParseObServerLine(line) = NoEvent
          \/ (ParseObServerLine(line) \in Events(s) /\ ParseObServerLine(line).cs = line.cs)
      BY <1>2 DEF ParseObServerLine, Event, Events
    <3>3. QED
      BY <3>1, <3>2
  <2>3. QED
    BY <2>1, <2>2 DEF Sources
<1>4. QED
  BY <1>1, <1>3
-----------------------------------------------------------------------------
(* Types and files: the steps of a daemon.                                 *)

\* What TypeOK says of the daemon and the records of a log.
SourceTypeOK(s) ==
    /\ logfiles[s] \in [Names(s) -> Records(s)]
    /\ daemon[s] \in Daemons(s)
    /\ daemon[s].at = "read" =>
        /\ daemon[s].file \in 1..Current(s)
        /\ daemon[s].offset \in begins[s][daemon[s].file]..EndOf(s, daemon[s].file)

RowsTyped(rows) == rows \subseteq Rows /\ \A r \in rows : r.login \in Time(r.source)

LEMMA ShapeParts ==
    ASSUME Shape, NEW s \in Sources
    PROVE  /\ SourceTypeOK(s) /\ FilesOrdered(s) /\ RecordsInFiles(s) /\ TodoListed(s)
           /\ RowsTyped(sessions) /\ DOMAIN logfiles = Sources /\ DOMAIN daemon = Sources
           /\ Current(s) \in 1..MaxFiles[s] /\ MaxFiles[s] \in Nat \ {0} /\ Len(log[s]) \in Nat
           /\ begins[s] \in Seq(Nat) /\ log[s] \in Seq(LogLines)
           /\ \A k \in 1..Current(s) : begins[s][k] \in Nat /\ EndOf(s, k) \in Nat
<1>1. /\ FilesOrdered(s) /\ RecordsInFiles(s) /\ TodoListed(s)
      /\ DOMAIN logfiles = Sources /\ DOMAIN daemon = Sources
      /\ Current(s) \in 1..MaxFiles[s] /\ MaxFiles[s] \in Nat \ {0}
      /\ begins[s] \in Seq(Nat) /\ log[s] \in Seq(LogLines)
  BY SessionsAssumption DEF Shape, TypeOK, FilesTrue, LogLines
<1>2. SourceTypeOK(s)
  BY DEF Shape, TypeOK, SourceTypeOK, Records, Daemons, Parsers
<1>3. RowsTyped(sessions)
  BY DEF Shape, TypeOK, RowsTyped, Rows
<1>4. Len(log[s]) \in Nat
  BY <1>1
<1>5. \A k \in 1..Current(s) : begins[s][k] \in Nat /\ EndOf(s, k) \in Nat
  BY <1>1, <1>4 DEF Current, EndOf
<1>6. QED
  BY <1>1, <1>2, <1>3, <1>4, <1>5

LEMMA DaemonStep ==
    ASSUME Shape, UNCHANGED <<clients, files>>, NEW s \in Sources,
           DOMAIN logfiles' = Sources, DOMAIN daemon' = Sources,
           \A t \in Sources \ {s} : logfiles'[t] = logfiles[t] /\ daemon'[t] = daemon[t],
           SourceTypeOK(s)', RecordsInFiles(s)', TodoListed(s)', RowsTyped(sessions)',
           failed' \subseteq UNION {{t} \X Time(t) : t \in Sources}, faults' \in 0..MaxFaults
    PROVE  Shape'
<1>1. log' = log /\ begins' = begins /\ UNCHANGED <<audited, phase, answer, servers>>
  BY DEF files, clients
<1>2. \A t \in Sources : FilesOrdered(t)'
  BY <1>1 DEF Shape, FilesTrue, FilesOrdered, EndOf, Current
<1>3. ASSUME NEW t \in Sources
      PROVE  SourceTypeOK(t)' /\ RecordsInFiles(t)' /\ TodoListed(t)'
  <2>1. CASE t = s
    BY <2>1
  <2>2. CASE t # s
    <3>1. logfiles'[t] = logfiles[t] /\ daemon'[t] = daemon[t]
      BY <2>2
    <3>2. SourceTypeOK(t) /\ RecordsInFiles(t) /\ TodoListed(t)
      BY ShapeParts
    <3>3. Records(t)' = Records(t) /\ Daemons(t)' = Daemons(t) /\ Current(t)' = Current(t)
          /\ \A k : EndOf(t, k)' = EndOf(t, k)
      BY <1>1 DEF Records, Daemons, Parsers, Time, Current, EndOf
    <3>4. SourceTypeOK(t)'
      BY <1>1, <3>1, <3>2, <3>3 DEF SourceTypeOK
    <3>5. RecordsInFiles(t)'
      BY <1>1, <3>1, <3>2, <3>3 DEF RecordsInFiles
    <3>6. Listed(t)' = Listed(t)
      BY <3>1 DEF Listed
    <3>7. TodoListed(t)'
      BY <1>1, <3>1, <3>2, <3>3, <3>6 DEF TodoListed
    <3>8. QED
      BY <3>4, <3>5, <3>7
  <2>3. QED
    BY <2>1, <2>2
<1>4. TypeOK'
  <2>1. ASSUME NEW t \in Sources
        PROVE  /\ Current(t)' \in 1..MaxFiles[t]
               /\ \A i \in Time(t)' : log'[t][i].kind \in KindsOf(t) /\ log'[t][i].time = i
    BY <1>1 DEF Shape, TypeOK, Current, Time
  <2>2. RowsTyped(sessions)'
    OBVIOUS
  <2>3. failed' \subseteq UNION {{t} \X Time(t)' : t \in Sources}
    BY <1>1 DEF Time
  <2>4. /\ audited \in [Clients -> BOOLEAN]
        /\ phase \in [Clients -> {"new", "born", "in", "refused", "quit", "gone"}]
        /\ answer \in [Clients -> {"none", "ok", "fail"}]
        /\ servers \in [Clients -> Seq([login : BOOLEAN, ok : BOOLEAN, closed : BOOLEAN])]
        /\ log \in [Sources -> Seq([kind : Kinds, cs : Clients, sm : SmIds, audited : BOOLEAN,
                                    ok : BOOLEAN, time : Nat])]
        /\ begins \in [Sources -> Seq(Nat)]
    BY DEF Shape, TypeOK
  <2>5. QED
    BY <1>1, <1>3, <2>1, <2>2, <2>3, <2>4
       DEF TypeOK, SourceTypeOK, Records, Daemons, Parsers, RowsTyped, Rows
<1>5. QED
  BY <1>2, <1>3, <1>4 DEF Shape, FilesTrue
LEMMA IdleTyped ==
    ASSUME Shape, NEW s \in Sources
    PROVE  /\ NewParser \in Parsers(s) /\ Idle \in Daemons(s)
           /\ NextFile(s) \in Daemons(s) /\ NextFile(s).at = "next"
           /\ NextFile(s).todo = daemon[s].todo \ {Listed(s)}
<1>1. NewParser \in Parsers(s)
  BY DEF NewParser, Parsers
<1>2. daemon[s].todo \subseteq Names(s) /\ MaxFiles[s] \in Nat /\ Len(log[s]) \in Nat
  BY ShapeParts DEF SourceTypeOK, Daemons
<1>3. Idle = [at |-> "idle", todo |-> {}, file |-> 0, offset |-> 0, ip |-> FALSE,
              parser |-> NewParser]
  BY DEF Idle
<1>4. Idle \in Daemons(s)
  BY <1>1, <1>2, <1>3 DEF Daemons
<1>5. NextFile(s) = [Idle EXCEPT !.at = "next", !.todo = daemon[s].todo \ {Listed(s)}]
  BY DEF NextFile
<1>6. QED
  BY <1>1, <1>2, <1>4, <1>5 DEF Daemons

\* A daemon that goes to the next file or stops, and touches no record.
LEMMA DaemonLeaves ==
    ASSUME Shape, UNCHANGED <<clients, files, logfiles, failed>>, NEW s \in Sources,
           \/ daemon' = [daemon EXCEPT ![s] = Idle]
           \/ daemon' = [daemon EXCEPT ![s] = NextFile(s)],
           RowsTyped(sessions)', faults' \in 0..MaxFaults
    PROVE  Shape'
<1>1. /\ SourceTypeOK(s) /\ RecordsInFiles(s) /\ TodoListed(s)
      /\ DOMAIN logfiles = Sources /\ DOMAIN daemon = Sources
  BY ShapeParts
<1>2. /\ daemon'[s] \in Daemons(s) /\ daemon'[s].at # "read"
      /\ daemon'[s].todo \subseteq daemon[s].todo
      /\ DOMAIN daemon' = Sources /\ \A t \in Sources \ {s} : daemon'[t] = daemon[t]
  <2>1. CASE daemon' = [daemon EXCEPT ![s] = Idle]
    <3>1. Idle.at = "idle" /\ Idle.todo = {}
      BY DEF Idle
    <3>2. daemon'[s] = Idle
      BY <1>1, <2>1
    <3>3. QED
      BY <1>1, <2>1, <3>1, <3>2, IdleTyped
  <2>2. CASE daemon' = [daemon EXCEPT ![s] = NextFile(s)]
    <3>1. daemon'[s] = NextFile(s)
      BY <1>1, <2>2
    <3>2. QED
      BY <1>1, <2>2, <3>1, IdleTyped
  <2>3. QED
    BY <2>1, <2>2
<1>3. log' = log /\ begins' = begins /\ logfiles' = logfiles
  BY DEF files
<1>4. /\ Records(s)' = Records(s) /\ Daemons(s)' = Daemons(s) /\ Current(s)' = Current(s)
      /\ \A k : EndOf(s, k)' = EndOf(s, k)
  BY <1>3 DEF Records, Daemons, Parsers, Time, Current, EndOf
<1>5. SourceTypeOK(s)' /\ RecordsInFiles(s)' /\ TodoListed(s)'
  BY <1>1, <1>2, <1>3, <1>4 DEF SourceTypeOK, RecordsInFiles, TodoListed
<1>6. failed' \subseteq UNION {{t} \X Time(t) : t \in Sources}
  BY DEF Shape, TypeOK
<1>7. QED
  BY <1>1, <1>2, <1>3, <1>5, <1>6, DaemonStep

LEMMA ListShape ==
    ASSUME Shape, NEW s \in Sources, List(s)
    PROVE  Shape'
<1>1. /\ SourceTypeOK(s) /\ RecordsInFiles(s) /\ TodoListed(s)
      /\ DOMAIN logfiles = Sources /\ DOMAIN daemon = Sources
      /\ Current(s) \in 1..MaxFiles[s] /\ MaxFiles[s] \in Nat \ {0}
  BY ShapeParts
<1> DEFINE new == {name \in 0..Current(s) - 1 : HasNews(s, name)}
<1>2. /\ daemon' = [daemon EXCEPT ![s].at = "next", ![s].todo = new]
      /\ UNCHANGED <<clients, files, logfiles, sessions, failed, faults>>
  BY DEF List
<1>3. log' = log /\ begins' = begins /\ logfiles' = logfiles /\ sessions' = sessions
      /\ failed' = failed /\ faults' = faults
  BY <1>2 DEF files
<1>4. \A n \in new : n \in Names(s) /\ (n = Active \/ (n < Current(s) /\ logfiles[s][n].new))
  <2> SUFFICES ASSUME NEW n \in new
               PROVE  n \in Names(s) /\ (n = Active \/ (n < Current(s) /\ logfiles[s][n].new))
    OBVIOUS
  <2>1. n \in Names(s) /\ n \in 0..Current(s) - 1 /\ HasNews(s, n)
    BY <1>1 DEF Names
  <2>2. CASE n # Active
    <3>1. FileNamed(s, n) = n
      BY <2>2 DEF FileNamed
    <3>2. logfiles[s][n] \in Records(s)
      BY <1>1, <2>1 DEF SourceTypeOK
    <3>3. ~logfiles[s][n].new =>
            n < Current(s) /\ logfiles[s][n].file = n /\ logfiles[s][n].offset = EndOf(s, n)
      BY <1>1, <2>1, <2>2 DEF RecordsInFiles
    <3>4. logfiles[s][n].offset \in Int
      BY <3>2 DEF Records
    <3>5. logfiles[s][n].new
      BY <2>1, <3>1, <3>3, <3>4 DEF HasNews
    <3>6. QED
      BY <1>1, <2>1, <3>5
  <2>3. QED
    BY <2>1, <2>2
<1> HIDE DEF new
<1>5. daemon[s] \in Daemons(s)
  BY <1>1 DEF SourceTypeOK
<1>6. /\ daemon'[s] = [daemon[s] EXCEPT !.at = "next", !.todo = new]
      /\ DOMAIN daemon' = Sources /\ \A t \in Sources \ {s} : daemon'[t] = daemon[t]
  BY <1>1, <1>2
<1>7. daemon'[s] \in Daemons(s) /\ daemon'[s].at = "next" /\ daemon'[s].todo = new
  BY <1>4, <1>5, <1>6 DEF Daemons
<1>8. /\ Records(s)' = Records(s) /\ Daemons(s)' = Daemons(s) /\ Current(s)' = Current(s)
      /\ \A k : EndOf(s, k)' = EndOf(s, k)
  BY <1>3 DEF Records, Daemons, Parsers, Time, Current, EndOf
<1>9. SourceTypeOK(s)' /\ RecordsInFiles(s)' /\ TodoListed(s)'
  BY <1>1, <1>3, <1>4, <1>7, <1>8 DEF SourceTypeOK, RecordsInFiles, TodoListed
<1>10. RowsTyped(sessions)' /\ failed' \subseteq UNION {{t} \X Time(t) : t \in Sources}
       /\ faults' \in 0..MaxFaults
  <2>1. RowsTyped(sessions) /\ Shape
    BY ShapeParts
  <2>2. QED
    BY <1>3, <2>1 DEF Shape, TypeOK, RowsTyped, Time
<1>11. QED
  BY <1>1, <1>2, <1>3, <1>6, <1>9, <1>10, DaemonStep

\* Where the next file is read from.
LEMMA OpenAt ==
    ASSUME Shape, NEW s \in Sources, Open(s)
    PROVE  LET k == FileNamed(s, Listed(s))
               r == logfiles[s][Listed(s)]
           IN  /\ k \in 1..Current(s)
               /\ daemon'[s].at = "read" /\ daemon'[s].file = k
               /\ daemon'[s].offset = IF r.file = k THEN r.offset ELSE begins[s][k]
               /\ daemon'[s].parser = daemon[s].parser
               /\ DOMAIN daemon' = Sources /\ \A t \in Sources \ {s} : daemon'[t] = daemon[t]
               /\ daemon'[s] \in Daemons(s) /\ daemon'[s].offset \in begins[s][k]..EndOf(s, k)
               /\ daemon'[s].todo = daemon[s].todo /\ Listed(s)' = Listed(s)
<1> DEFINE k == FileNamed(s, Listed(s))
           r == logfiles[s][Listed(s)]
           o == IF r.file = k THEN r.offset ELSE begins[s][k]
<1>1. /\ SourceTypeOK(s) /\ FilesOrdered(s) /\ RecordsInFiles(s) /\ DOMAIN daemon = Sources
      /\ Current(s) \in 1..MaxFiles[s] /\ MaxFiles[s] \in Nat \ {0} /\ Len(log[s]) \in Nat
      /\ \A m \in 1..Current(s) : begins[s][m] \in Nat /\ EndOf(s, m) \in Nat
  BY ShapeParts
<1>2. k \in 1..Current(s) /\ Listed(s) \in Names(s)
  BY ListedIn DEF Open
<1>3. r \in Records(s) /\ daemon[s] \in Daemons(s)
  BY <1>1, <1>2 DEF SourceTypeOK
<1>4. /\ daemon'[s] = [daemon[s] EXCEPT !.at = "read", !.file = k, !.offset = o,
                                        !.ip = r.ip \/ s = "SERVER"]
      /\ DOMAIN daemon' = Sources /\ \A t \in Sources \ {s} : daemon'[t] = daemon[t]
  BY <1>1 DEF Open
<1>5. o \in begins[s][k]..EndOf(s, k) /\ EndOf(s, k) <= Len(log[s])
  <2>1. r.file # 0 => r.offset \in begins[s][r.file]..EndOf(s, r.file)
    BY <1>1, <1>2 DEF RecordsInFiles
  <2>2. begins[s][k] <= EndOf(s, k) /\ EndOf(s, k) <= Len(log[s])
    BY <1>1, <1>2 DEF FilesOrdered
  <2>3. k # 0
    BY <1>1, <1>2
  <2> HIDE DEF k, r
  <2>4. CASE r.file = k
    BY <1>1, <1>2, <2>1, <2>2, <2>3, <2>4
  <2>5. CASE r.file # k
    BY <1>1, <1>2, <2>2, <2>5
  <2>6. QED
    BY <2>4, <2>5
<1> HIDE DEF k, r, o
<1>6. (r.ip \/ s = "SERVER") \in BOOLEAN /\ k \in 0..MaxFiles[s] /\ o \in 0..Len(log[s])
  BY <1>1, <1>2, <1>3, <1>5 DEF Records
<1>7. /\ daemon'[s] \in Daemons(s) /\ daemon'[s].offset = o /\ daemon'[s].file = k
      /\ daemon'[s].todo = daemon[s].todo /\ daemon'[s].at = "read"
      /\ daemon'[s].parser = daemon[s].parser
  <2> DEFINE ip == r.ip \/ s = "SERVER"
  <2>1. ip \in BOOLEAN
    BY <1>6
  <2>2. daemon'[s] = [daemon[s] EXCEPT !.at = "read", !.file = k, !.offset = o, !.ip = ip]
    BY <1>4
  <2> HIDE DEF ip
  <2>3. QED
    BY <1>3, <1>6, <2>1, <2>2 DEF Daemons
<1>8. Listed(s)' = Listed(s)
  BY <1>7 DEF Listed
<1>9. QED
  BY <1>2, <1>4, <1>5, <1>7, <1>8 DEF k, r, o

LEMMA OpenShape ==
    ASSUME Shape, NEW s \in Sources, Open(s)
    PROVE  Shape'
<1> DEFINE k == FileNamed(s, Listed(s))
<1>1. /\ SourceTypeOK(s) /\ RecordsInFiles(s) /\ TodoListed(s)
      /\ DOMAIN logfiles = Sources /\ DOMAIN daemon = Sources
  BY ShapeParts
<1>2. UNCHANGED <<clients, files, logfiles, sessions, failed, faults>> /\ daemon[s].todo # {}
  BY DEF Open
<1>3. log' = log /\ begins' = begins /\ logfiles' = logfiles /\ sessions' = sessions
      /\ failed' = failed /\ faults' = faults
  BY <1>2 DEF files
<1>4. daemon[s] \in Daemons(s)
  BY <1>1 DEF SourceTypeOK
<1>5. /\ k \in 1..Current(s)
      /\ DOMAIN daemon' = Sources /\ \A t \in Sources \ {s} : daemon'[t] = daemon[t]
      /\ daemon'[s] \in Daemons(s) /\ daemon'[s].offset \in begins[s][k]..EndOf(s, k)
      /\ daemon'[s].todo = daemon[s].todo /\ Listed(s)' = Listed(s)
      /\ daemon'[s].file = k
  BY OpenAt
<1>6. /\ Records(s)' = Records(s) /\ Daemons(s)' = Daemons(s) /\ Current(s)' = Current(s)
      /\ \A m : EndOf(s, m)' = EndOf(s, m)
  BY <1>3 DEF Records, Daemons, Parsers, Time, Current, EndOf
<1>7. Listed(s) # Active => k = Listed(s)
  BY DEF FileNamed
<1> HIDE DEF k
<1>8. SourceTypeOK(s)'
  BY <1>1, <1>3, <1>5, <1>6 DEF SourceTypeOK
<1>9. RecordsInFiles(s)' /\ TodoListed(s)'
  BY <1>1, <1>2, <1>3, <1>5, <1>6, <1>7 DEF RecordsInFiles, TodoListed
<1>10. RowsTyped(sessions)' /\ failed' \subseteq UNION {{t} \X Time(t) : t \in Sources}
       /\ faults' \in 0..MaxFaults
  <2>1. RowsTyped(sessions) /\ Shape
    BY ShapeParts
  <2>2. QED
    BY <1>3, <2>1 DEF Shape, TypeOK, RowsTyped, Time
<1>11. QED
  BY <1>1, <1>2, <1>3, <1>5, <1>8, <1>9, <1>10, DaemonStep
\* What a line that is read leaves.
LEMMA LineStep ==
    ASSUME Shape, NEW s \in Sources, LineLeft(s)
    PROVE  LET i == daemon[s].offset + 1 IN
           /\ log' = log /\ begins' = begins /\ UNCHANGED <<audited, phase, answer, servers>>
           /\ daemon[s].at = "read" /\ daemon[s] \in Daemons(s)
           /\ daemon[s].file \in 1..Current(s) /\ begins[s][daemon[s].file] \in Nat
           /\ i \in Time(s) /\ i > begins[s][daemon[s].file] /\ i <= EndOf(s, daemon[s].file)
           /\ daemon'[s] \in Daemons(s) /\ daemon'[s].at = "read"
           /\ daemon'[s].file = daemon[s].file /\ daemon'[s].offset = i
           /\ daemon'[s].todo = daemon[s].todo /\ Listed(s)' = Listed(s)
           /\ daemon'[s].parser = Parsed(s, daemon[s].parser, log[s][i]).parser
           /\ DOMAIN daemon' = Sources /\ \A t \in Sources \ {s} : daemon'[t] = daemon[t]
<1> DEFINE i == daemon[s].offset + 1
           k == daemon[s].file
<1>1. /\ SourceTypeOK(s) /\ FilesOrdered(s) /\ DOMAIN daemon = Sources /\ Len(log[s]) \in Nat
      /\ \A m \in 1..Current(s) : begins[s][m] \in Nat /\ EndOf(s, m) \in Nat
  BY ShapeParts
<1>2. /\ daemon[s].at = "read" /\ daemon[s].offset < EndOf(s, k)
      /\ log' = log /\ begins' = begins /\ UNCHANGED <<audited, phase, answer, servers>>
  BY DEF LineLeft, clients, files
<1>3. /\ daemon[s] \in Daemons(s) /\ k \in 1..Current(s)
      /\ daemon[s].offset \in begins[s][k]..EndOf(s, k)
  BY <1>1, <1>2 DEF SourceTypeOK
<1>4. begins[s][k] \in Nat /\ EndOf(s, k) \in Nat /\ EndOf(s, k) <= Len(log[s])
  BY <1>1, <1>3 DEF FilesOrdered
<1> HIDE DEF k
<1>5. i \in Time(s) /\ i > begins[s][k] /\ i <= EndOf(s, k) /\ i \in 0..Len(log[s])
  BY <1>1, <1>2, <1>3, <1>4 DEF Time
<1> DEFINE q == Parsed(s, daemon[s].parser, log[s][i]).parser
           ip == daemon[s].ip \/ FindsIp(s)
<1>6. q \in Parsers(s)
  BY <1>3, <1>5, LineParsed DEF Daemons, Shape
<1>7. ip \in BOOLEAN
  OBVIOUS
<1>8. /\ daemon'[s] = [daemon[s] EXCEPT !.offset = i, !.ip = ip, !.parser = q]
      /\ DOMAIN daemon' = Sources /\ \A t \in Sources \ {s} : daemon'[t] = daemon[t]
  BY <1>1 DEF LineLeft, NextLine
<1> HIDE DEF i, q, ip
<1>9. /\ daemon'[s] \in Daemons(s) /\ daemon'[s].at = daemon[s].at
      /\ daemon'[s].file = daemon[s].file /\ daemon'[s].offset = i
      /\ daemon'[s].todo = daemon[s].todo /\ daemon'[s].parser = q
  BY <1>3, <1>5, <1>6, <1>7, <1>8 DEF Daemons
<1>10. Listed(s)' = Listed(s)
  BY <1>9 DEF Listed
<1>11. QED
  BY <1>2, <1>3, <1>4, <1>5, <1>8, <1>9, <1>10 DEF i, k, q

LEMMA LineRecords ==
    ASSUME Shape, NEW s \in Sources, LineLeft(s)
    PROVE  /\ logfiles'[s] \in [Names(s) -> Records(s)] /\ DOMAIN logfiles' = Sources
           /\ \A n \in Names(s) : /\ logfiles'[s][n].new = logfiles[s][n].new
                                  /\ logfiles'[s][n].file = logfiles[s][n].file
                                  /\ logfiles'[s][n].offset = logfiles[s][n].offset
           /\ \A t \in Sources \ {s} : logfiles'[t] = logfiles[t]
<1> DEFINE name == Listed(s)
           ip == logfiles[s][name].ip \/ (FindsIp(s) /\ ~logfiles[s][name].new)
<1>1. /\ SourceTypeOK(s) /\ TodoListed(s) /\ DOMAIN logfiles = Sources /\ daemon[s].at = "read"
  BY ShapeParts, LineStep
<1>2. name \in Names(s)
  BY <1>1, ListedIn DEF TodoListed
<1>3. logfiles' = [logfiles EXCEPT ![s][name].ip = ip]
  BY DEF LineLeft
<1>4. logfiles[s] \in [Names(s) -> Records(s)]
  BY <1>1 DEF SourceTypeOK
<1>5. logfiles'[s] = [logfiles[s] EXCEPT ![name] = [logfiles[s][name] EXCEPT !.ip = ip]]
      /\ DOMAIN logfiles' = Sources /\ \A t \in Sources \ {s} : logfiles'[t] = logfiles[t]
  BY <1>1, <1>3
<1>6. ip \in BOOLEAN
  OBVIOUS
<1> HIDE DEF ip, name
<1>7. \A n \in Names(s) : logfiles[s][n] \in Records(s)
  BY <1>4
<1>8. /\ [logfiles[s][name] EXCEPT !.ip = ip] \in Records(s)
      /\ [logfiles[s][name] EXCEPT !.ip = ip].new = logfiles[s][name].new
      /\ [logfiles[s][name] EXCEPT !.ip = ip].file = logfiles[s][name].file
      /\ [logfiles[s][name] EXCEPT !.ip = ip].offset = logfiles[s][name].offset
  BY <1>2, <1>6, <1>7 DEF Records
<1>9. QED
  BY <1>2, <1>4, <1>5, <1>7, <1>8

LEMMA LineShape ==
    ASSUME Shape, NEW s \in Sources, LineLeft(s), RowsTyped(sessions)',
           failed' \subseteq UNION {{t} \X Time(t) : t \in Sources}, faults' \in 0..MaxFaults
    PROVE  Shape'
<1>1. /\ SourceTypeOK(s) /\ RecordsInFiles(s) /\ TodoListed(s)
      /\ DOMAIN logfiles = Sources /\ DOMAIN daemon = Sources
      /\ Current(s) \in 1..MaxFiles[s] /\ MaxFiles[s] \in Nat \ {0}
      /\ \A m \in 1..Current(s) : begins[s][m] \in Nat /\ EndOf(s, m) \in Nat
  BY ShapeParts
<1>2. log' = log /\ begins' = begins /\ UNCHANGED <<clients, files>>
  BY LineStep DEF LineLeft, files
<1>3. /\ Records(s)' = Records(s) /\ Daemons(s)' = Daemons(s) /\ Current(s)' = Current(s)
      /\ \A m : EndOf(s, m)' = EndOf(s, m)
  BY <1>2 DEF Records, Daemons, Parsers, Time, Current, EndOf
<1> DEFINE i == daemon[s].offset + 1
<1>4. /\ i \in Nat /\ i > begins[s][daemon[s].file] /\ i <= EndOf(s, daemon[s].file)
      /\ daemon[s].at = "read" /\ daemon[s].file \in 1..Current(s)
      /\ daemon'[s] \in Daemons(s) /\ daemon'[s].at = "read"
      /\ daemon'[s].file = daemon[s].file /\ daemon'[s].offset = i
      /\ daemon'[s].todo = daemon[s].todo /\ Listed(s)' = Listed(s)
      /\ DOMAIN daemon' = Sources /\ \A t \in Sources \ {s} : daemon'[t] = daemon[t]
  BY LineStep DEF Time
<1> HIDE DEF i
<1>5. i \in begins[s][daemon[s].file]..EndOf(s, daemon[s].file)
  BY <1>1, <1>4
<1>6. SourceTypeOK(s)'
  BY <1>2, <1>3, <1>4, <1>5, LineRecords DEF SourceTypeOK
<1>7. RecordsInFiles(s)'
  BY <1>1, <1>2, <1>3, LineRecords DEF RecordsInFiles
<1>8. TodoListed(s)'
  <2>1. daemon[s].todo \subseteq Names(s)
    BY <1>1 DEF SourceTypeOK, Daemons
  <2>2. QED
    BY <1>1, <1>3, <1>4, <2>1, LineRecords DEF TodoListed
<1>9. QED
  BY <1>2, <1>4, <1>6, <1>7, <1>8, LineRecords, DaemonStep

\* The statements of a line and of the end of a tick leave rows.
LEMMA StatementRows ==
    ASSUME Shape, NEW s \in Sources, LineLeft(s)
    PROVE  RowsTyped(Handle(s, EventOf(s), daemon[s].ip \/ FindsIp(s)))
<1> DEFINE e == EventOf(s)
           ip == daemon[s].ip \/ FindsIp(s)
<1>1. RowsTyped(sessions) /\ ip \in BOOLEAN /\ Time(s) \subseteq Nat
  BY ShapeParts DEF Time
<1>2. e = NoEvent \/ e \in Events(s)
  BY LineStep, LineParsed DEF EventOf, NextLine, Daemons, Shape
<1> SUFFICES RowsTyped(Handle(s, e, ip))
  OBVIOUS
<1> HIDE DEF e, ip
<1>3. CASE e = NoEvent
  BY <1>1, <1>3 DEF Handle, NoEvent
<1>4. CASE e \in Events(s) /\ e.type = "LOGOFF"
  <2>1. UpdateLogoff(sessions, e.cs) \subseteq Rows
    BY <1>1 DEF UpdateLogoff, Rows, RowsTyped
  <2>2. \A r \in UpdateLogoff(sessions, e.cs) : r.login \in Time(r.source)
    BY <1>1 DEF UpdateLogoff, Rows, RowsTyped
  <2>3. QED
    BY <1>4, <2>1, <2>2 DEF Handle, RowsTyped
<1>5. CASE e \in Events(s) /\ e.type \in {"LOGIN_OK", "LOGIN_FAIL"}
  <2>1. e.cs \in Clients /\ e.time \in Time(s) /\ e.time \in Nat
    BY <1>1, <1>5 DEF Events
  <2>2. Row(s, e, ip) \in Rows /\ Row(s, e, ip).login \in Time(Row(s, e, ip).source)
    BY <1>1, <2>1 DEF Row, Rows
  <2>3. InsertLogin(sessions, Row(s, e, ip)) \subseteq sessions \cup {Row(s, e, ip)}
    BY DEF InsertLogin
  <2>4. QED
    BY <1>1, <1>5, <2>2, <2>3 DEF Handle, RowsTyped
<1>6. QED
  BY <1>2, <1>3, <1>4, <1>5 DEF Events

LEMMA SyncRows ==
    ASSUME Shape
    PROVE  RowsTyped(SyncFailed(sessions))
<1>1. RowsTyped(sessions)
  BY DEF Shape, TypeOK, RowsTyped, Rows
<1>2. ASSUME NEW x \in SyncFailed(sessions)
      PROVE  x \in Rows /\ x.login \in Time(x.source)
  <2>1. PICK r \in sessions : x = r \/ x = [r EXCEPT !.closed = TRUE, !.ok = FALSE]
    BY <1>2 DEF SyncFailed
  <2>2. r \in Rows /\ r.login \in Time(r.source)
    BY <1>1 DEF RowsTyped
  <2>3. CASE x = r
    BY <2>2, <2>3
  <2>4. CASE x = [r EXCEPT !.closed = TRUE, !.ok = FALSE]
    BY <2>2, <2>4 DEF Rows
  <2>5. QED
    BY <2>1, <2>3, <2>4
<1>3. QED
  BY <1>2 DEF RowsTyped
LEMMA WorldShape ==
    ASSUME Shape, World, 
           servers' \in [Clients -> Seq([login : BOOLEAN, ok : BOOLEAN, closed : BOOLEAN])],
           phase' \in [Clients -> {"new", "born", "in", "refused", "quit", "gone"}],
           answer' \in [Clients -> {"none", "ok", "fail"}],
           faults' \in 0..MaxFaults,
           \A s \in Sources : \A i \in Time(s)' : log'[s][i].kind \in KindsOf(s) /\ log'[s][i].time = i
    PROVE  Shape'
<1>1. /\ UNCHANGED <<audited, logfiles, sessions, daemon, failed>>
      /\ log' \in [Sources -> Seq(LogLines)] /\ begins' \in [Sources -> Seq(Nat)]
  BY WorldGrows DEF Shape
<1>2. ASSUME NEW s \in Sources
      PROVE  /\ Current(s)' \in 1..MaxFiles[s] /\ Current(s)' \in {Current(s), Current(s) + 1}
             /\ Len(log'[s]) \in {Len(log[s]), Len(log[s]) + 1}
             /\ FilesOrdered(s)' /\ SourceTypeOK(s)' /\ RecordsInFiles(s)' /\ TodoListed(s)'
  <2>1. /\ SourceTypeOK(s) /\ FilesOrdered(s) /\ RecordsInFiles(s) /\ TodoListed(s)
        /\ Current(s) \in 1..MaxFiles[s] /\ MaxFiles[s] \in Nat \ {0} /\ Len(log[s]) \in Nat
        /\ \A k \in 1..Current(s) : begins[s][k] \in Nat /\ EndOf(s, k) \in Nat
    BY ShapeParts
  <2>2. /\ Current(s)' \in {Current(s), Current(s) + 1} /\ Current(s)' <= MaxFiles[s]
        /\ Len(log'[s]) \in {Len(log[s]), Len(log[s]) + 1}
        /\ Len(log'[s]) # Len(log[s]) => Current(s)' = Current(s)
        /\ Current(s)' # Current(s) => begins'[s][Current(s) + 1] = Len(log[s])
        /\ \A k \in 1..Current(s) : begins'[s][k] = begins[s][k]
    BY WorldGrows DEF Shape
  <2>3. \A k \in 1..Current(s) : /\ EndOf(s, k)' \in {EndOf(s, k), EndOf(s, k) + 1}
                                 /\ k # Current(s) => EndOf(s, k)' = EndOf(s, k)
    BY EndsGrow DEF Shape
  <2>4. EndOf(s, Current(s)) = Len(log[s])
    BY DEF EndOf
  <2>5. \A k : k = Current(s) + 1 /\ Current(s)' = k =>
            EndOf(s, k)' = Len(log'[s]) /\ begins'[s][k] = Len(log[s]) /\ Len(log'[s]) = Len(log[s])
    BY <2>1, <2>2 DEF EndOf
  <2>6. FilesOrdered(s)'
    <3> SUFFICES ASSUME NEW k \in 1..Current(s)'
                 PROVE  begins'[s][k] <= EndOf(s, k)' /\ EndOf(s, k)' <= Len(log'[s])
      BY DEF FilesOrdered
    <3>1. CASE k \in 1..Current(s)
      <4>1. begins[s][k] <= EndOf(s, k) /\ EndOf(s, k) <= Len(log[s])
        BY <2>1, <3>1 DEF FilesOrdered
      <4>2. CASE k = Current(s) /\ Current(s)' = Current(s)
        <5>1. EndOf(s, k)' = Len(log'[s])
          BY <4>2 DEF EndOf
        <5>2. QED
          BY <2>1, <2>2, <2>3, <3>1, <4>1, <5>1
      <4>3. CASE k = Current(s) /\ Current(s)' # Current(s)
        <5>1. EndOf(s, k)' = Len(log[s])
          BY <2>1, <2>2, <4>3 DEF EndOf
        <5>2. QED
          BY <2>1, <2>2, <2>3, <3>1, <4>1, <5>1
      <4>4. CASE k # Current(s)
        BY <2>1, <2>2, <2>3, <3>1, <4>1, <4>4
      <4>5. QED
        BY <4>2, <4>3, <4>4
    <3>2. CASE k \notin 1..Current(s)
      <4>1. k = Current(s) + 1 /\ Current(s)' = Current(s) + 1
        BY <2>1, <2>2, <3>2
      <4>2. QED
        BY <2>1, <2>2, <2>5, <4>1
    <3>3. QED
      BY <3>1, <3>2
  <2>7. logfiles'[s] = logfiles[s] /\ daemon'[s] = daemon[s] /\ Listed(s)' = Listed(s)
    BY <1>1 DEF Listed
  <2>8. logfiles[s] \in [Names(s) -> Records(s)'] /\ daemon[s] \in Daemons(s)'
    <3>1. 0..Len(log[s]) \subseteq 0..Len(log'[s]) /\ Time(s) \subseteq Time(s)'
      BY <2>1, <2>2 DEF Time
    <3>2. Records(s) \subseteq Records(s)' /\ Parsers(s) \subseteq Parsers(s)'
      BY <3>1 DEF Records, Parsers
    <3>3. Daemons(s) \subseteq Daemons(s)'
      BY <3>1, <3>2 DEF Daemons
    <3>4. QED
      BY <2>1, <3>2, <3>3 DEF SourceTypeOK
  <2>9. SourceTypeOK(s)'
    <3> SUFFICES ASSUME daemon[s].at = "read"
                 PROVE  /\ daemon[s].file \in 1..Current(s)'
                        /\ daemon[s].offset \in begins'[s][daemon[s].file]..EndOf(s, daemon[s].file)'
      BY <2>7, <2>8 DEF SourceTypeOK
    <3>0. PICK k : k = daemon[s].file
      OBVIOUS
    <3>1. k \in 1..Current(s) /\ daemon[s].offset \in begins[s][k]..EndOf(s, k)
      BY <2>1, <3>0 DEF SourceTypeOK
    <3>2. begins'[s][k] = begins[s][k] /\ EndOf(s, k)' \in {EndOf(s, k), EndOf(s, k) + 1}
          /\ k \in 1..Current(s)' /\ EndOf(s, k) \in Nat
      BY <2>1, <2>2, <2>3, <3>1
    <3>3. EndOf(s, k)' = EndOf(s, k) \/ EndOf(s, k)' = EndOf(s, k) + 1
      BY <3>2
    <3>4. daemon[s].offset \in begins'[s][k]..EndOf(s, k)'
      BY <2>1, <3>1, <3>2, <3>3
    <3>5. QED
      BY <2>7, <3>0, <3>2, <3>4
  <2>10. RecordsInFiles(s)'
    <3> SUFFICES ASSUME NEW n \in Names(s), NEW r, r = logfiles[s][n]
                 PROVE  /\ r.new => r.file = 0
                        /\ r.file # 0 => /\ r.file \in 1..Current(s)'
                                         /\ r.offset \in begins'[s][r.file]..EndOf(s, r.file)'
                        /\ n # Active /\ ~r.new => n < Current(s)' /\ r.file = n /\ r.offset = EndOf(s, n)'
      BY <2>7 DEF RecordsInFiles, Names
    <3>1. /\ r.new => r.file = 0
          /\ r.file # 0 => r.file \in 1..Current(s) /\ r.offset \in begins[s][r.file]..EndOf(s, r.file)
          /\ n # Active /\ ~r.new => n < Current(s) /\ r.file = n /\ r.offset = EndOf(s, n)
      BY <2>1 DEF RecordsInFiles
    <3>2. ASSUME r.file # 0
          PROVE  r.file \in 1..Current(s)' /\ r.offset \in begins'[s][r.file]..EndOf(s, r.file)'
      <4>1. r.file \in 1..Current(s) /\ r.offset \in begins[s][r.file]..EndOf(s, r.file)
        BY <3>1, <3>2
      <4>2. begins'[s][r.file] = begins[s][r.file] /\ r.file \in 1..Current(s)'
            /\ EndOf(s, r.file) \in Nat /\ begins[s][r.file] \in Nat
        BY <2>1, <2>2, <4>1
      <4>3. EndOf(s, r.file)' = EndOf(s, r.file) \/ EndOf(s, r.file)' = EndOf(s, r.file) + 1
        BY <2>3, <4>1
      <4>4. QED
        BY <4>1, <4>2, <4>3
    <3>3. ASSUME n # Active, ~r.new
          PROVE  n < Current(s)' /\ r.file = n /\ r.offset = EndOf(s, n)'
      <4>1. n < Current(s) /\ r.file = n /\ r.offset = EndOf(s, n) /\ n \in Nat /\ n # 0
        BY <3>1, <3>3 DEF Names, Active
      <4>2. n \in 1..Current(s) /\ n # Current(s) /\ n < Current(s)'
        BY <2>1, <2>2, <4>1
      <4>3. QED
        BY <2>3, <4>1, <4>2
    <3>4. QED
      BY <3>1, <3>2, <3>3
  <2>11. TodoListed(s)'
    <3>1. daemon[s].todo \subseteq Nat
      BY <2>1 DEF SourceTypeOK, Daemons, Names
    <3>2. QED
      BY <2>1, <2>2, <2>7, <3>1 DEF TodoListed
  <2>12. Current(s)' \in 1..MaxFiles[s]
    BY <2>1, <2>2
  <2>13. QED
    BY <2>2, <2>6, <2>9, <2>10, <2>11, <2>12
<1>3. TypeOK'
  <2>1. DOMAIN logfiles = Sources /\ DOMAIN daemon = Sources
        /\ sessions \subseteq [source : Sources, ip : BOOLEAN, sess : Clients, login : Nat,
                               ok : BOOLEAN, closed : BOOLEAN]
        /\ audited \in [Clients -> BOOLEAN]
    BY DEF Shape, TypeOK
  <2>2. ASSUME NEW s \in Sources PROVE Time(s) \subseteq Time(s)'
    <3>1. Len(log[s]) \in Nat /\ Len(log'[s]) \in {Len(log[s]), Len(log[s]) + 1}
      BY <1>2, ShapeParts
    <3>2. QED
      BY <3>1 DEF Time
  <2>3. \A r \in sessions : r.login \in Time(r.source)'
    <3>1. \A r \in sessions : r.source \in Sources /\ r.login \in Time(r.source)
      BY <2>1 DEF Shape, TypeOK
    <3>2. QED
      BY <2>2, <3>1
  <2>4. failed \subseteq UNION {{s} \X Time(s)' : s \in Sources}
    <3>1. failed \subseteq UNION {{s} \X Time(s) : s \in Sources}
      BY DEF Shape, TypeOK
    <3>2. ASSUME NEW s \in Sources PROVE {s} \X Time(s) \subseteq {s} \X Time(s)'
      BY <2>2
    <3>3. QED
      BY <3>1, <3>2
  <2>5. QED
    BY <1>1, <1>2, <2>1, <2>3, <2>4
       DEF TypeOK, SourceTypeOK, Records, Daemons, Parsers, LogLines
<1>4. QED
  BY <1>2, <1>3 DEF Shape, FilesTrue
LEMMA ShapeInit == ASSUME Init PROVE Shape
<1>1. /\ audited \in [Clients -> BOOLEAN]
      /\ phase = [c \in Clients |-> "new"] /\ answer = [c \in Clients |-> "none"]
      /\ servers = [c \in Clients |-> <<>>] /\ log = [s \in Sources |-> <<>>]
      /\ begins = [s \in Sources |-> <<0>>]
      /\ logfiles = [s \in Sources |-> [n \in Names(s) |-> NoRecord]]
      /\ sessions = {} /\ daemon = [s \in Sources |-> Idle] /\ failed = {} /\ faults = 0
  BY DEF Init
<1>2. NoRecord = [new |-> TRUE, file |-> 0, offset |-> 0, ip |-> FALSE]
      /\ Idle.at = "idle" /\ Idle.todo = {}
  BY DEF NoRecord, Idle
<1>3. ASSUME NEW s \in Sources
      PROVE  /\ FilesOrdered(s) /\ RecordsInFiles(s) /\ TodoListed(s) /\ SourceTypeOK(s)
             /\ Current(s) \in 1..MaxFiles[s] /\ Time(s) = {}
  <2>1. log[s] = <<>> /\ begins[s] = <<0>>
    BY <1>1
  <2>2. Len(log[s]) = 0 /\ Len(begins[s]) = 1 /\ begins[s][1] = 0
    BY <2>1
  <2>3. Current(s) = 1 /\ EndOf(s, 1) = 0 /\ Time(s) = {}
    BY <2>2 DEF Current, EndOf, Time
  <2>4. daemon[s] = Idle /\ MaxFiles[s] \in Nat \ {0}
    BY <1>1, SessionsAssumption
  <2>5. logfiles[s] = [n \in Names(s) |-> NoRecord]
    BY <1>1
  <2>6. 0 \in 0..MaxFiles[s] /\ 0 \in 0..Len(log[s])
    BY <2>2, <2>4
  <2>7. NoRecord \in Records(s)
    BY <1>2, <2>6 DEF Records
  <2>8. Idle \in Daemons(s)
    <3>1. NewParser \in Parsers(s)
      BY DEF NewParser, Parsers
    <3>2. QED
      BY <2>6, <3>1 DEF Idle, Daemons
  <2>9. FilesOrdered(s)
    BY <2>2, <2>3 DEF FilesOrdered
  <2>10. \A n \in Names(s) : logfiles[s][n] = NoRecord
    BY <2>5
  <2>11. RecordsInFiles(s)
    BY <1>2, <2>10 DEF RecordsInFiles
  <2>12. TodoListed(s) /\ SourceTypeOK(s)
    BY <1>2, <2>4, <2>5, <2>7, <2>8 DEF TodoListed, SourceTypeOK
  <2>13. QED
    BY <2>3, <2>4, <2>9, <2>11, <2>12
<1>4. TypeOK
  <2>1. <<>> \in Seq(LogLines) /\ <<0>> \in Seq(Nat) /\ <<>> \in Seq(ServerSessions)
    OBVIOUS
  <2>2. /\ log \in [Sources -> Seq(LogLines)] /\ begins \in [Sources -> Seq(Nat)]
        /\ servers \in [Clients -> Seq(ServerSessions)]
        /\ DOMAIN logfiles = Sources /\ DOMAIN daemon = Sources
    BY <1>1, <2>1
  <2>3. phase \in [Clients -> {"new", "born", "in", "refused", "quit", "gone"}]
        /\ answer \in [Clients -> {"none", "ok", "fail"}]
    BY <1>1
  <2>4. faults \in 0..MaxFaults
    BY <1>1, SessionsAssumption
  <2>5. ASSUME NEW s \in Sources
        PROVE  /\ Current(s) \in 1..MaxFiles[s]
               /\ \A i \in Time(s) : log[s][i].kind \in KindsOf(s) /\ log[s][i].time = i
               /\ SourceTypeOK(s)
    BY <1>3
  <2>6. QED
    BY <1>1, <2>2, <2>3, <2>4, <2>5
       DEF TypeOK, SourceTypeOK, Records, Daemons, Parsers, LogLines, ServerSessions
<1>5. QED
  BY <1>3, <1>4 DEF Shape, FilesTrue

LEMMA WorldKeepsShape ==
    ASSUME Shape, World
    PROVE  Shape'
<1>1. ClientsTyped' /\ TypeOK
  BY WorldSteps DEF Shape
<1>2. faults' \in 0..MaxFaults
  <2>1. ASSUME NEW s \in Sources, Rotate(s) PROVE faults' \in 0..MaxFaults
    BY <1>1, <2>1, SessionsAssumption DEF Rotate, Fault, TypeOK
  <2>2. ASSUME NEW s \in Sources, NEW c \in Clients, NEW ok \in BOOLEAN, NEW kind \in KindsOf(s),
               Write(s, kind, c, ok)
        PROVE  faults' \in 0..MaxFaults
    BY <1>1, <2>2 DEF Write, TypeOK
  <2>3. QED
    BY <1>1, <2>1, <2>2, WorldSteps
<1>3. ASSUME NEW s \in Sources, NEW i \in Time(s)'
      PROVE  log'[s][i].kind \in KindsOf(s) /\ log'[s][i].time = i
  <2>1. \A j \in Time(s) : log'[s][j] = log[s][j] /\ log[s][j].kind \in KindsOf(s) /\ log[s][j].time = j
    BY <1>1, WorldGrows, LineTyped
  <2>2. CASE i \in Time(s)
    BY <2>1, <2>2
  <2>3. CASE i \notin Time(s)
    <3>1. Len(log[s]) \in Nat /\ Len(log'[s]) \in {Len(log[s]), Len(log[s]) + 1}
      BY <1>1, WorldGrows, ShapeParts
    <3>2. i = Len(log[s]) + 1 /\ Len(log'[s]) = Len(log[s]) + 1
      BY <2>3, <3>1 DEF Time
    <3>3. ASSUME NEW t \in Sources, NEW c \in Clients, NEW ok \in BOOLEAN, NEW kind \in KindsOf(t),
                 Write(t, kind, c, ok)
          PROVE  log'[s][i].kind \in KindsOf(s) /\ log'[s][i].time = i
      <4>1. t = s
        BY <1>1, <3>1, <3>2, <3>3, WriteGrows
      <4>2. log'[s][i] = Line(s, kind, c, ok)
        BY <1>1, <3>2, <3>3, <4>1, WriteGrows
      <4>3. QED
        BY <3>2, <4>1, <4>2 DEF Line
    <3>4. ASSUME NEW t \in Sources, Rotate(t) PROVE FALSE
      BY <3>1, <3>2, <3>4 DEF Rotate
    <3>5. QED
      BY <1>1, <3>3, <3>4, WorldSteps
  <2>4. QED
    BY <2>2, <2>3
<1>4. QED
  BY <1>1, <1>2, <1>3, WorldShape DEF ClientsTyped, ServerSessions

LEMMA ShapeNext ==
    ASSUME Shape, [Next]_vars
    PROVE  Shape'
<1>0. /\ RowsTyped(sessions) /\ faults \in 0..MaxFaults
      /\ failed \subseteq UNION {{t} \X Time(t) : t \in Sources}
  BY DEF Shape, TypeOK, RowsTyped, Rows
<1>1. CASE World
  BY <1>1, WorldKeepsShape
<1>2. ASSUME NEW s \in Sources, List(s) PROVE Shape'
  BY <1>2, ListShape
<1>3. ASSUME NEW s \in Sources, Open(s) PROVE Shape'
  BY <1>3, OpenShape
<1>4. ASSUME NEW s \in Sources, ReadLine(s) PROVE Shape'
  <2>1. LineLeft(s) /\ sessions' = Handle(s, EventOf(s), daemon[s].ip \/ FindsIp(s))
        /\ failed' = failed /\ faults' = faults
    BY <1>4 DEF ReadLine
  <2>2. RowsTyped(sessions')
    BY <2>1, StatementRows
  <2>3. Time(s)' = Time(s) /\ log' = log
    BY <2>1, LineStep DEF Time
  <2>4. RowsTyped(sessions)'
    BY <2>2, <2>3 DEF RowsTyped, Time
  <2>5. QED
    BY <1>0, <2>1, <2>4, LineShape
<1>5. ASSUME NEW s \in Sources, StatementFails(s) PROVE Shape'
  <2>1. LineLeft(s) /\ sessions' = sessions /\ failed' = failed \cup {<<s, daemon[s].offset + 1>>}
        /\ faults < MaxFaults /\ faults' = faults + 1
    BY <1>5 DEF StatementFails, Fault
  <2>2. log' = log /\ daemon[s].offset + 1 \in Time(s)
    BY <2>1, LineStep
  <2>3. RowsTyped(sessions)'
    BY <1>0, <2>1, <2>2 DEF RowsTyped, Time
  <2>4. failed' \subseteq UNION {{t} \X Time(t) : t \in Sources}
    <3>1. <<s, daemon[s].offset + 1>> \in {s} \X Time(s)
      BY <2>2
    <3>2. <<s, daemon[s].offset + 1>> \in UNION {{t} \X Time(t) : t \in Sources}
      BY <3>1
    <3>3. QED
      BY <1>0, <2>1, <3>2
  <2>5. faults' \in 0..MaxFaults
    BY <1>0, <2>1, SessionsAssumption
  <2>6. QED
    BY <2>1, <2>3, <2>4, <2>5, LineShape
<1>6. ASSUME NEW s \in Sources, SaveRecord(s) PROVE Shape'
  <2>1. /\ SourceTypeOK(s) /\ RecordsInFiles(s) /\ TodoListed(s) /\ FilesOrdered(s)
        /\ DOMAIN logfiles = Sources /\ DOMAIN daemon = Sources
        /\ Len(log[s]) \in Nat /\ MaxFiles[s] \in Nat \ {0} /\ Current(s) \in 1..MaxFiles[s]
        /\ \A k \in 1..Current(s) : begins[s][k] \in Nat /\ EndOf(s, k) \in Nat
    BY ShapeParts
  <2>2. /\ daemon[s].at = "read" /\ daemon[s].offset = EndOf(s, daemon[s].file)
        /\ logfiles' = [logfiles EXCEPT ![s][Listed(s)] =
             [new |-> FALSE, file |-> daemon[s].file, offset |-> daemon[s].offset, ip |-> daemon[s].ip]]
        /\ daemon' = [daemon EXCEPT ![s] = NextFile(s)]
        /\ UNCHANGED <<clients, files, sessions, failed, faults>>
    BY <1>6 DEF SaveRecord
  <2>3. log' = log /\ begins' = begins /\ sessions' = sessions /\ failed' = failed /\ faults' = faults
    BY <2>2 DEF files
  <2>4. /\ daemon[s] \in Daemons(s) /\ daemon[s].file \in 1..Current(s)
        /\ daemon[s].offset \in begins[s][daemon[s].file]..EndOf(s, daemon[s].file)
        /\ daemon[s].todo # {} /\ Listed(s) \in Names(s) /\ Listed(s) \in daemon[s].todo
        /\ Listed(s) # Active => daemon[s].file = Listed(s) /\ Listed(s) < Current(s)
    BY <2>1, <2>2, ListedIn DEF SourceTypeOK, TodoListed
  <2>5. PICK r : r = [new |-> FALSE, file |-> daemon[s].file, offset |-> daemon[s].offset,
                      ip |-> daemon[s].ip]
    OBVIOUS
  <2>6. r \in Records(s) /\ r.new = FALSE /\ r.file = daemon[s].file /\ r.offset = daemon[s].offset
    BY <2>4, <2>5 DEF Records, Daemons
  <2>7. /\ DOMAIN logfiles' = Sources /\ \A t \in Sources \ {s} : logfiles'[t] = logfiles[t]
        /\ logfiles'[s] = [logfiles[s] EXCEPT ![Listed(s)] = r]
    BY <2>1, <2>2, <2>5
  <2>8. logfiles[s] \in [Names(s) -> Records(s)]
    BY <2>1 DEF SourceTypeOK
  <2>9. /\ logfiles'[s] \in [Names(s) -> Records(s)]
        /\ \A n \in Names(s) : logfiles'[s][n] = IF n = Listed(s) THEN r ELSE logfiles[s][n]
    BY <2>4, <2>6, <2>7, <2>8
  <2>10. /\ daemon'[s] \in Daemons(s) /\ daemon'[s].at = "next"
         /\ daemon'[s].todo = daemon[s].todo \ {Listed(s)}
         /\ DOMAIN daemon' = Sources /\ \A t \in Sources \ {s} : daemon'[t] = daemon[t]
    BY <2>1, <2>2, IdleTyped
  <2>11. /\ Records(s)' = Records(s) /\ Daemons(s)' = Daemons(s) /\ Current(s)' = Current(s)
         /\ \A m : EndOf(s, m)' = EndOf(s, m)
    BY <2>3 DEF Records, Daemons, Parsers, Time, Current, EndOf
  <2>12. SourceTypeOK(s)'
    BY <2>3, <2>9, <2>10, <2>11 DEF SourceTypeOK
  <2>13. RecordsInFiles(s)'
    <3>1. /\ r.file \in 1..Current(s) /\ r.offset \in begins[s][r.file]..EndOf(s, r.file)
          /\ Listed(s) # Active => Listed(s) < Current(s) /\ r.file = Listed(s)
          /\ r.offset = EndOf(s, r.file)
      BY <2>2, <2>4, <2>6
    <3>2. QED
      BY <2>1, <2>3, <2>6, <2>9, <2>11, <3>1 DEF RecordsInFiles
  <2>14. TodoListed(s)'
    <3>1. daemon[s].todo \subseteq Names(s)
      BY <2>4 DEF Daemons
    <3>2. QED
      BY <2>1, <2>9, <2>10, <2>11, <3>1 DEF TodoListed
  <2>15. RowsTyped(sessions)' /\ failed' \subseteq UNION {{t} \X Time(t) : t \in Sources}
         /\ faults' \in 0..MaxFaults
    BY <1>0, <2>3 DEF RowsTyped, Time
  <2>16. UNCHANGED <<clients, files>>
    BY <2>2
  <2>17. QED
    BY <2>7, <2>10, <2>12, <2>13, <2>14, <2>15, <2>16, DaemonStep
<1>7. ASSUME NEW s \in Sources, FileFails(s) PROVE Shape'
  <2>1. /\ daemon' = [daemon EXCEPT ![s] = NextFile(s)] /\ faults < MaxFaults /\ faults' = faults + 1
        /\ UNCHANGED <<clients, files, logfiles, sessions, failed>>
    BY <1>7 DEF FileFails, Fault
  <2>2. RowsTyped(sessions)' /\ faults' \in 0..MaxFaults
    BY <1>0, <2>1, SessionsAssumption DEF RowsTyped, Time, files
  <2>3. QED
    BY <2>1, <2>2, DaemonLeaves
<1>8. ASSUME NEW s \in Sources, EndTick(s) PROVE Shape'
  <2>1. /\ daemon' = [daemon EXCEPT ![s] = Idle] /\ sessions' = SyncFailed(sessions)
        /\ UNCHANGED <<clients, files, logfiles, failed, faults>>
    BY <1>8 DEF EndTick
  <2>2. RowsTyped(sessions')
    BY <2>1, SyncRows
  <2>3. RowsTyped(sessions)' /\ faults' \in 0..MaxFaults
    BY <1>0, <2>1, <2>2 DEF RowsTyped, Time, files
  <2>4. QED
    BY <2>1, <2>3, DaemonLeaves
<1>9. ASSUME NEW s \in Sources, Crash(s) PROVE Shape'
  <2>1. /\ daemon' = [daemon EXCEPT ![s] = Idle] /\ faults < MaxFaults /\ faults' = faults + 1
        /\ UNCHANGED <<clients, files, logfiles, sessions, failed>>
    BY <1>9 DEF Crash, Fault
  <2>2. RowsTyped(sessions)' /\ faults' \in 0..MaxFaults
    BY <1>0, <2>1, SessionsAssumption DEF RowsTyped, Time, files
  <2>3. QED
    BY <2>1, <2>2, DaemonLeaves
<1>10. CASE UNCHANGED vars
  <2>1. /\ UNCHANGED <<audited, phase, answer, servers, log, begins>>
        /\ UNCHANGED <<logfiles, sessions, daemon, failed, faults>>
    BY <1>10 DEF vars, clients, files
  <2>2. /\ \A s \in Sources : \A k : Current(s)' = Current(s) /\ EndOf(s, k)' = EndOf(s, k)
        /\ \A s \in Sources : Time(s)' = Time(s) /\ Listed(s)' = Listed(s)
    BY <2>1 DEF Current, EndOf, Time, Listed
  <2>3. TypeOK'
    <3>1. TypeOK
      BY DEF Shape
    <3>2. ASSUME NEW s \in Sources PROVE SourceTypeOK(s)'
      <4>1. SourceTypeOK(s) /\ Records(s)' = Records(s) /\ Daemons(s)' = Daemons(s)
        BY <2>1, <2>2, ShapeParts DEF Records, Daemons, Parsers
      <4>2. QED
        BY <2>1, <2>2, <4>1 DEF SourceTypeOK
    <3>3. ASSUME NEW s \in Sources
          PROVE  /\ Current(s)' \in 1..MaxFiles[s]
                 /\ \A i \in Time(s)' : log'[s][i].kind \in KindsOf(s) /\ log'[s][i].time = i
      BY <2>1, <2>2, <3>1 DEF TypeOK
    <3>4. RowsTyped(sessions)' /\ failed' \subseteq UNION {{t} \X Time(t)' : t \in Sources}
      BY <1>0, <2>1, <2>2 DEF RowsTyped, Time
    <3>5. ClientsTyped' /\ log' \in [Sources -> Seq(LogLines)] /\ begins' \in [Sources -> Seq(Nat)]
          /\ DOMAIN logfiles' = Sources /\ DOMAIN daemon' = Sources
      BY <2>1, <3>1 DEF TypeOK, ClientsTyped, LogLines, ServerSessions
    <3>6. QED
      BY <1>0, <2>1, <3>2, <3>3, <3>4, <3>5
         DEF TypeOK, SourceTypeOK, Records, Daemons, Parsers, RowsTyped, Rows, ClientsTyped, LogLines,
             ServerSessions
  <2>4. FilesTrue'
    BY <2>1, <2>2 DEF Shape, FilesTrue, FilesOrdered, RecordsInFiles, TodoListed
  <2>5. QED
    BY <2>3, <2>4 DEF Shape
<1>11. QED
  BY <1>1, <1>2, <1>3, <1>4, <1>5, <1>6, <1>7, <1>8, <1>9, <1>10 DEF Next, Tick

LEMMA ShapeInvariant == Spec => []Shape
<1>1. Init => Shape
  BY ShapeInit
<1>2. Shape /\ [Next]_vars => Shape'
  BY ShapeNext
<1>3. QED
  BY <1>1, <1>2, PTL DEF Spec

\* Whatever the daemons see, miss, repeat or lose, the rows, records and
\* readers stay what TypeOK says; no reader ever stands outside its file.
THEOREM SessionsTypeCorrect == Spec => []TypeOK
<1>1. Shape => TypeOK
  BY DEF Shape
<1>2. QED
  BY <1>1, ShapeInvariant, PTL
-----------------------------------------------------------------------------
(* What the lines say: the steps of a client.                              *)

\* What was logged of a client stays so.
Stays(c) ==
    /\ answer[c] # "none" => answer'[c] = answer[c]
    /\ phase[c] # "new" => phase'[c] # "new"
    /\ phase[c] = "gone" => phase'[c] = "gone"
    /\ phase[c] \notin {"new", "born"} =>
        phase'[c] \notin {"new", "born"} /\ answer'[c] = answer[c]
    /\ Ended(c) => Ended(c)'
    /\ Refused(c) => Refused(c)'
    /\ SomeServerClosed(c) => SomeServerClosed(c)'
    /\ \A ok \in BOOLEAN :
        (\E n \in DOMAIN servers[c] : servers[c][n].login /\ servers[c][n].ok = ok) =>
        (\E n \in DOMAIN servers'[c] : servers'[c][n].login /\ servers'[c][n].ok = ok)

\* A step of a client that obproxy.log shows, and one that observer.log shows.
ProxyStep(c, kind, ok) ==
    /\ Write("PROXY", kind, c, ok)
    /\ phase[c] # "gone" /\ phase'[c] # "new"
    /\ phase[c] = "new" => kind \in Births
    /\ kind = "update_cmd_stats" => answer'[c] = IF ok THEN "ok" ELSE "fail"
    /\ kind = "error_transfer" => answer'[c] = "fail"
    /\ kind \in Quits => answer[c] = "ok" /\ phase'[c] = "quit"
    /\ kind \in Closes => phase'[c] = "gone"
    /\ answer'[c] = "ok" => answer[c] = "ok" \/ kind \in Answers
    /\ phase'[c] = "gone" => kind \in Closes
    /\ kind \in Answers => answer[c] = "none"

ServerStep(c, kind, ok) ==
    /\ Write("SERVER", kind, c, ok) /\ phase' = phase /\ answer' = answer
    /\ kind = "MySQL LOGIN" =>
        \E n \in DOMAIN servers'[c] : servers'[c][n].login /\ servers'[c][n].ok = ok
    /\ kind = "connection close" => SomeServerClosed(c)'

LogStep(c) ==
    \/ \E kind \in KindsOf("PROXY"), ok \in BOOLEAN : ProxyStep(c, kind, ok)
    \/ \E kind \in KindsOf("SERVER"), ok \in BOOLEAN : ServerStep(c, kind, ok)

LEMMA ProxyServer == "PROXY" \in Sources /\ "SERVER" \in Sources /\ "PROXY" # "SERVER"
BY DEF Sources

LEMMA KindsOfLogs ==
    /\ KindsOf("SERVER") = {"MySQL LOGIN", "connection close"}
    /\ KindsOf("PROXY") = {"server session born", "update_cmd_stats", "error_transfer", "COM_QUIT",
                           "client session do_io_close"}
    /\ "PROXY" \in Sources /\ "SERVER" \in Sources
BY DEF KindsOf, Sources

\* A step that leaves the server sessions alone.
LEMMA ServersStay ==
    ASSUME NEW c \in Clients, servers' = servers
    PROVE  /\ Refused(c) => Refused(c)'
           /\ SomeServerClosed(c) => SomeServerClosed(c)'
           /\ \A ok \in BOOLEAN :
                (\E n \in DOMAIN servers[c] : servers[c][n].login /\ servers[c][n].ok = ok) =>
                (\E n \in DOMAIN servers'[c] : servers'[c][n].login /\ servers'[c][n].ok = ok)
BY DEF Refused, SomeServerClosed

LEMMA BornStep ==
    ASSUME ClientsTyped, NEW c \in Clients, ClientTrue(c), Born(c)
    PROVE  /\ Stays(c) /\ ClientTrue(c)' /\ LogStep(c)
           /\ \A d \in Clients \ {c} :
                phase'[d] = phase[d] /\ answer'[d] = answer[d] /\ servers'[d] = servers[d]
<1>1. /\ servers[c] \in Seq(ServerSessions) /\ Len(servers[c]) \in Nat
      /\ DOMAIN servers[c] = 1..Len(servers[c])
  BY ClientTyped
<1>2. /\ phase[c] \in {"new", "in"}
      /\ answer' = answer /\ Write("PROXY", "server session born", c, TRUE)
  BY DEF Born
<1>3. /\ phase[c] = "new" => phase'[c] = "born"
      /\ phase[c] # "new" => phase'[c] = "in" /\ phase[c] = "in"
      /\ \A d \in Clients \ {c} : phase'[d] = phase[d] /\ answer'[d] = answer[d] /\ servers'[d] = servers[d]
  BY BornServers DEF ClientsTyped, Born
<1>4. /\ DOMAIN servers'[c] = 1..Len(servers[c]) + 1 /\ Len(servers'[c]) = Len(servers[c]) + 1
      /\ \A n \in DOMAIN servers[c] : servers'[c][n] = servers[c][n]
      /\ servers'[c][Len(servers[c]) + 1].ok = TRUE
  BY BornServers
<1>5. /\ Refused(c) => Refused(c)'
      /\ SomeServerClosed(c) => SomeServerClosed(c)'
      /\ \A ok \in BOOLEAN :
            (\E n \in DOMAIN servers[c] : servers[c][n].login /\ servers[c][n].ok = ok) =>
            (\E n \in DOMAIN servers'[c] : servers'[c][n].login /\ servers'[c][n].ok = ok)
  BY <1>1, <1>4 DEF Refused, SomeServerClosed
<1>6. Stays(c)
  BY <1>2, <1>3, <1>5 DEF Stays, Ended
<1>7. \A n \in DOMAIN servers'[c] : servers'[c][n].login \/ servers'[c][n].ok
  <2> SUFFICES ASSUME NEW n \in 1..Len(servers[c]) + 1
               PROVE  servers'[c][n].login \/ servers'[c][n].ok
    BY <1>4
  <2>1. n \in DOMAIN servers[c] \/ n = Len(servers[c]) + 1
    BY <1>1
  <2>2. QED
    BY <1>4, <2>1 DEF ClientTrue
<1>8. ClientTrue(c)'
  <2>1. Len(servers'[c]) > 0
    BY <1>1, <1>4
  <2>2. /\ phase'[c] \in {"new", "born"} => answer'[c] = "none"
        /\ phase'[c] \in {"in", "quit"} => answer'[c] = "ok"
    BY <1>2, <1>3 DEF ClientTrue
  <2>3. QED
    BY <1>7, <2>1, <2>2 DEF ClientTrue
<1>9. ProxyStep(c, "server session born", TRUE)
  <2>1. phase[c] # "gone" /\ phase'[c] # "new" /\ phase'[c] # "gone"
        /\ (answer'[c] = "ok" => answer[c] = "ok")
    BY <1>2, <1>3
  <2>2. QED
    BY <1>2, <2>1 DEF ProxyStep, Births, Quits, Closes, Answers
<1>10. QED
  BY <1>3, <1>6, <1>8, <1>9, KindsOfLogs DEF LogStep

LEMMA ServerLoginStep ==
    ASSUME ClientsTyped, NEW c \in Clients, ClientTrue(c),
           NEW n \in DOMAIN servers[c], NEW ok \in BOOLEAN, ServerLogin(c, n, ok)
    PROVE  /\ Stays(c) /\ ClientTrue(c)' /\ LogStep(c)
           /\ \A d \in Clients \ {c} :
                phase'[d] = phase[d] /\ answer'[d] = answer[d] /\ servers'[d] = servers[d]
<1>1. /\ phase' = phase /\ answer' = answer /\ Write("SERVER", "MySQL LOGIN", c, ok)
  BY DEF ServerLogin
<1>2. /\ \A d \in Clients \ {c} : servers'[d] = servers[d]
      /\ DOMAIN servers'[c] = DOMAIN servers[c] /\ Len(servers'[c]) = Len(servers[c])
      /\ \A m \in DOMAIN servers[c] : m # n => servers'[c][m] = servers[c][m]
      /\ servers'[c][n].login /\ servers'[c][n].ok = ok /\ ~servers[c][n].login
      /\ servers'[c][n].closed = servers[c][n].closed
  BY LoginServers
<1>3. servers[c][n].ok
  BY <1>2 DEF ClientTrue
<1>4. Refused(c) => Refused(c)'
  BY <1>2, <1>3 DEF Refused
<1>5. ASSUME NEW b \in BOOLEAN, NEW m \in DOMAIN servers[c], servers[c][m].login, servers[c][m].ok = b
      PROVE  \E k \in DOMAIN servers'[c] : servers'[c][k].login /\ servers'[c][k].ok = b
  <2>1. m # n
    BY <1>2, <1>5
  <2>2. servers'[c][m] = servers[c][m] /\ m \in DOMAIN servers'[c]
    BY <1>2, <2>1
  <2>3. QED
    BY <1>5, <2>2
<1>6. Stays(c)
  <2>1. SomeServerClosed(c) => SomeServerClosed(c)'
    BY <1>2 DEF SomeServerClosed
  <2>2. QED
    BY <1>1, <1>4, <1>5, <2>1 DEF Stays, Ended
<1>7. ClientTrue(c)'
  BY <1>1, <1>2 DEF ClientTrue
<1>8. ServerStep(c, "MySQL LOGIN", ok)
  BY <1>1, <1>2 DEF ServerStep
<1>9. QED
  BY <1>1, <1>2, <1>6, <1>7, <1>8, KindsOfLogs DEF LogStep

LEMMA ServerCloseStep ==
    ASSUME ClientsTyped, NEW c \in Clients, ClientTrue(c),
           NEW n \in DOMAIN servers[c], ServerClose(c, n)
    PROVE  /\ Stays(c) /\ ClientTrue(c)' /\ LogStep(c)
           /\ \A d \in Clients \ {c} :
                phase'[d] = phase[d] /\ answer'[d] = answer[d] /\ servers'[d] = servers[d]
<1>1. /\ phase' = phase /\ answer' = answer /\ Write("SERVER", "connection close", c, TRUE)
  BY DEF ServerClose
<1>2. /\ \A d \in Clients \ {c} : servers'[d] = servers[d]
      /\ DOMAIN servers'[c] = DOMAIN servers[c] /\ Len(servers'[c]) = Len(servers[c])
      /\ \A m \in DOMAIN servers[c] : /\ servers'[c][m].login = servers[c][m].login
                                      /\ servers'[c][m].ok = servers[c][m].ok
      /\ servers'[c][n].closed
  BY CloseServers
<1>3. SomeServerClosed(c)'
  BY <1>2 DEF SomeServerClosed
<1>4. Stays(c)
  BY <1>1, <1>2, <1>3 DEF Stays, Ended, Refused
<1>5. ClientTrue(c)'
  BY <1>1, <1>2 DEF ClientTrue
<1>6. ServerStep(c, "connection close", TRUE)
  BY <1>1, <1>3 DEF ServerStep
<1>7. QED
  BY <1>1, <1>2, <1>4, <1>5, <1>6, KindsOfLogs DEF LogStep

\* The answers of the proxy, a quit and a close.
LEMMA ProxyOnlyStep ==
    ASSUME ClientsTyped, NEW c \in Clients, ClientTrue(c),
           \/ AnswerOk(c)
           \/ \E kind \in FailureKinds : AnswerFail(c, kind)
           \/ Quit(c)
           \/ Close(c)
    PROVE  /\ Stays(c) /\ ClientTrue(c)' /\ LogStep(c)
           /\ \A d \in Clients \ {c} :
                phase'[d] = phase[d] /\ answer'[d] = answer[d] /\ servers'[d] = servers[d]
<1>1. /\ phase[c] \in {"new", "born", "in", "refused", "quit", "gone"} /\ answer[c] \in {"none", "ok", "fail"}
      /\ DOMAIN phase = Clients /\ DOMAIN answer = Clients
  BY DEF ClientsTyped
<1>2. CASE AnswerOk(c)
  <2>1. /\ phase[c] = "born" /\ phase' = [phase EXCEPT ![c] = "in"] /\ servers' = servers
        /\ answer' = [answer EXCEPT ![c] = "ok"] /\ Write("PROXY", "update_cmd_stats", c, TRUE)
    BY <1>2 DEF AnswerOk
  <2>2. phase'[c] = "in" /\ answer'[c] = "ok" /\ answer[c] = "none"
    BY <1>1, <2>1 DEF ClientTrue
  <2>3. Stays(c) /\ ClientTrue(c)'
    BY <2>1, <2>2, ServersStay DEF Stays, Ended, ClientTrue
  <2>4. ProxyStep(c, "update_cmd_stats", TRUE)
    BY <2>1, <2>2 DEF ProxyStep, Births, Quits, Closes, Answers
  <2>5. QED
    BY <1>1, <2>1, <2>3, <2>4, KindsOfLogs DEF LogStep
<1>3. ASSUME NEW kind \in FailureKinds, AnswerFail(c, kind)
      PROVE  /\ Stays(c) /\ ClientTrue(c)' /\ LogStep(c)
             /\ \A d \in Clients \ {c} :
                  phase'[d] = phase[d] /\ answer'[d] = answer[d] /\ servers'[d] = servers[d]
  <2>1. /\ phase[c] = "born" /\ phase' = [phase EXCEPT ![c] = "refused"] /\ servers' = servers
        /\ answer' = [answer EXCEPT ![c] = "fail"] /\ Write("PROXY", kind, c, FALSE)
    BY <1>3 DEF AnswerFail
  <2>2. phase'[c] = "refused" /\ answer'[c] = "fail" /\ answer[c] = "none"
        /\ kind \in {"update_cmd_stats", "error_transfer"}
    BY <1>1, <2>1, SessionsAssumption DEF ClientTrue
  <2>3. Stays(c) /\ ClientTrue(c)'
    BY <2>1, <2>2, ServersStay DEF Stays, Ended, ClientTrue
  <2>4. ProxyStep(c, kind, FALSE)
    BY <2>1, <2>2 DEF ProxyStep, Births, Quits, Closes, Answers
  <2>5. QED
    BY <1>1, <2>1, <2>2, <2>3, <2>4, KindsOfLogs DEF LogStep
<1>4. CASE Quit(c)
  <2>1. /\ phase[c] = "in" /\ phase' = [phase EXCEPT ![c] = "quit"] /\ servers' = servers
        /\ answer' = answer /\ Write("PROXY", "COM_QUIT", c, TRUE)
    BY <1>4 DEF Quit
  <2>2. phase'[c] = "quit" /\ answer[c] = "ok"
    BY <1>1, <2>1 DEF ClientTrue
  <2>3. Stays(c) /\ ClientTrue(c)'
    BY <2>1, <2>2, ServersStay DEF Stays, Ended, ClientTrue
  <2>4. ProxyStep(c, "COM_QUIT", TRUE)
    BY <2>1, <2>2 DEF ProxyStep, Births, Quits, Closes, Answers
  <2>5. QED
    BY <1>1, <2>1, <2>3, <2>4, KindsOfLogs DEF LogStep
<1>5. CASE Close(c)
  <2>1. /\ phase[c] \notin {"new", "gone"} /\ phase' = [phase EXCEPT ![c] = "gone"]
        /\ servers' = servers /\ answer' = answer
        /\ Write("PROXY", "client session do_io_close", c, TRUE)
    BY <1>5 DEF Close
  <2>2. phase'[c] = "gone"
    BY <1>1, <2>1
  <2>3. Stays(c) /\ ClientTrue(c)'
    BY <2>1, <2>2, ServersStay DEF Stays, Ended, ClientTrue
  <2>4. ProxyStep(c, "client session do_io_close", TRUE)
    BY <2>1, <2>2 DEF ProxyStep, Births, Quits, Closes, Answers
  <2>5. QED
    BY <1>1, <2>1, <2>3, <2>4, KindsOfLogs DEF LogStep
<1>6. QED
  BY <1>2, <1>3, <1>4, <1>5

LEMMA ClientStepEffect ==
    ASSUME ClientsTyped, NEW c \in Clients, ClientTrue(c), ClientStep(c)
    PROVE  /\ Stays(c) /\ ClientTrue(c)' /\ LogStep(c)
           /\ \A d \in Clients \ {c} :
                phase'[d] = phase[d] /\ answer'[d] = answer[d] /\ servers'[d] = servers[d]
BY BornStep, ServerLoginStep, ServerCloseStep, ProxyOnlyStep DEF ClientStep
-----------------------------------------------------------------------------
(* What the lines say: the log grows.                                      *)

\* The line that a step writes.
LEMMA NewLine ==
    ASSUME TypeOK, NEW s \in Sources, NEW kind \in KindsOf(s), NEW c \in Clients,
           NEW ok \in BOOLEAN, Write(s, kind, c, ok), NEW k, k = Len(log[s]) + 1
    PROVE  /\ log'[s][k].kind = kind /\ log'[s][k].cs = c /\ log'[s][k].sm = SmId[c]
           /\ log'[s][k].audited = audited[c] /\ log'[s][k].ok = ok
           /\ k \in Nat /\ k \in Time(s)' /\ k \notin Time(s) /\ Time(s) \subseteq Time(s)'
           /\ \A i \in Time(s)' : i \in Time(s) \/ i = k
           /\ \A i \in Time(s) : i \in Nat /\ i < k /\ log'[s][i] = log[s][i]
           /\ \A t \in Sources \ {s} : log'[t] = log[t] /\ Time(t)' = Time(t)
<1>1. log[s] \in Seq(LogLines)
  BY DEF TypeOK, LogLines
<1>2. Len(log[s]) \in Nat
  BY <1>1
<1>3. /\ \A t \in Sources \ {s} : log'[t] = log[t]
      /\ Len(log'[s]) = Len(log[s]) + 1
      /\ log'[s][k] = Line(s, kind, c, ok)
      /\ \A i \in Time(s) : log'[s][i] = log[s][i]
  BY WriteGrows
<1>4. /\ k \in Nat /\ k \in Time(s)' /\ k \notin Time(s) /\ Time(s) \subseteq Time(s)'
      /\ \A i \in Time(s)' : i \in Time(s) \/ i = k
      /\ \A i \in Time(s) : i \in Nat /\ i < k
  <2>1. Len(log'[s]) = k
    BY <1>3
  <2>2. QED
    BY <1>2, <2>1 DEF Time
<1>5. \A t \in Sources \ {s} : Time(t)' = Time(t)
  BY <1>3 DEF Time
<1>6. /\ log'[s][k].kind = kind /\ log'[s][k].cs = c /\ log'[s][k].sm = SmId[c]
      /\ log'[s][k].audited = audited[c] /\ log'[s][k].ok = ok
  BY <1>3 DEF Line
<1>7. QED
  BY <1>3, <1>4, <1>5, <1>6

LEMMA LineStaysTrue ==
    ASSUME TypeOK, NEW s \in Sources, NEW i \in Time(s), LineTrue(s, i),
           \A d \in Clients : Stays(d), audited' = audited, log'[s][i] = log[s][i]
    PROVE  LineTrue(s, i)'
<1> DEFINE line == log[s][i]
           d == line.cs
<1>1. d \in Clients /\ line.ok \in BOOLEAN
  BY LineTyped DEF LogLines
<1>2. Stays(d)
  BY <1>1
<1>3. log'[s][i] = line
  OBVIOUS
<1> SUFFICES
        /\ line.sm = SmId[d] /\ line.audited = audited'[d]
        /\ line.kind = "update_cmd_stats" => answer'[d] = IF line.ok THEN "ok" ELSE "fail"
        /\ line.kind = "error_transfer" => answer'[d] = "fail"
        /\ line.kind = "COM_QUIT" => Ended(d)'
        /\ line.kind = "client session do_io_close" => phase'[d] = "gone"
        /\ line.kind = "MySQL LOGIN" =>
            \E n \in DOMAIN servers'[d] : servers'[d][n].login /\ servers'[d][n].ok = line.ok
        /\ line.kind = "connection close" => SomeServerClosed(d)'
  BY <1>3 DEF LineTrue, Ended, SomeServerClosed
<1>4. /\ line.sm = SmId[d] /\ line.audited = audited[d]
      /\ line.kind = "update_cmd_stats" => answer[d] = IF line.ok THEN "ok" ELSE "fail"
      /\ line.kind = "error_transfer" => answer[d] = "fail"
      /\ line.kind = "COM_QUIT" => Ended(d)
      /\ line.kind = "client session do_io_close" => phase[d] = "gone"
      /\ line.kind = "MySQL LOGIN" =>
            \E n \in DOMAIN servers[d] : servers[d][n].login /\ servers[d][n].ok = line.ok
      /\ line.kind = "connection close" => SomeServerClosed(d)
  BY DEF LineTrue
<1> HIDE DEF d, line
<1>5. line.kind = "COM_QUIT" => Ended(d)'
  BY <1>2, <1>4 DEF Stays
<1>6. line.kind = "connection close" => SomeServerClosed(d)'
  BY <1>2, <1>4 DEF Stays
<1>7. line.kind = "MySQL LOGIN" =>
        \E n \in DOMAIN servers'[d] : servers'[d][n].login /\ servers'[d][n].ok = line.ok
  BY <1>1, <1>2, <1>4 DEF Stays
<1>8. /\ line.kind = "update_cmd_stats" => answer'[d] = IF line.ok THEN "ok" ELSE "fail"
      /\ line.kind = "error_transfer" => answer'[d] = "fail"
      /\ line.kind = "client session do_io_close" => phase'[d] = "gone"
  BY <1>2, <1>4 DEF Stays
<1>9. QED
  BY <1>4, <1>5, <1>6, <1>7, <1>8

\* Old lines stay true and the new one is true.
LEMMA LinesTrueStep ==
    ASSUME TypeOK, \A s \in Sources : \A i \in Time(s) : LineTrue(s, i),
           NEW c \in Clients, LogStep(c), \A d \in Clients : Stays(d), audited' = audited
    PROVE  \A s \in Sources : \A i \in Time(s)' : LineTrue(s, i)'
<1>1. ASSUME NEW t \in Sources, NEW kind \in KindsOf(t), NEW ok \in BOOLEAN, Write(t, kind, c, ok),
             \A k : k = Len(log[t]) + 1 => LineTrue(t, k)'
      PROVE  \A s \in Sources : \A i \in Time(s)' : LineTrue(s, i)'
  <2> SUFFICES ASSUME NEW s \in Sources, NEW i \in Time(s)' PROVE LineTrue(s, i)'
    OBVIOUS
  <2>1. PICK k : k = Len(log[t]) + 1
    OBVIOUS
  <2>2. CASE i \in Time(s)
    <3>1. log'[s][i] = log[s][i]
      BY <1>1, <2>1, <2>2, NewLine
    <3>2. LineTrue(s, i)
      BY <2>2
    <3>3. QED
      BY <2>2, <3>1, <3>2, LineStaysTrue
  <2>3. CASE i \notin Time(s)
    <3>1. s = t /\ i = k
      BY <1>1, <2>1, <2>3, NewLine
    <3>2. QED
      BY <1>1, <2>1, <3>1
  <2>4. QED
    BY <2>2, <2>3
<1>2. ASSUME NEW kind \in KindsOf("PROXY"), NEW ok \in BOOLEAN, ProxyStep(c, kind, ok)
      PROVE  \A s \in Sources : \A i \in Time(s)' : LineTrue(s, i)'
  <2>1. Write("PROXY", kind, c, ok)
    BY <1>2 DEF ProxyStep
  <2>2. ASSUME NEW k, k = Len(log["PROXY"]) + 1 PROVE LineTrue("PROXY", k)'
    <3>1. /\ log'["PROXY"][k].kind = kind /\ log'["PROXY"][k].cs = c /\ log'["PROXY"][k].sm = SmId[c]
          /\ log'["PROXY"][k].audited = audited[c] /\ log'["PROXY"][k].ok = ok
      BY <2>1, <2>2, NewLine, ProxyServer
    <3>2. /\ kind = "update_cmd_stats" => answer'[c] = IF ok THEN "ok" ELSE "fail"
          /\ kind = "error_transfer" => answer'[c] = "fail"
          /\ kind = "COM_QUIT" => phase'[c] = "quit"
          /\ kind = "client session do_io_close" => phase'[c] = "gone"
      BY <1>2 DEF ProxyStep, Quits, Closes
    <3>3. kind \notin {"MySQL LOGIN", "connection close"}
      BY KindsOfLogs
    <3>4. kind = "COM_QUIT" => Ended(c)'
      BY <3>2 DEF Ended
    <3>5. QED
      BY <3>1, <3>2, <3>3, <3>4 DEF LineTrue, Ended
  <2>3. QED
    BY <1>1, <2>1, <2>2, KindsOfLogs
<1>3. ASSUME NEW kind \in KindsOf("SERVER"), NEW ok \in BOOLEAN, ServerStep(c, kind, ok)
      PROVE  \A s \in Sources : \A i \in Time(s)' : LineTrue(s, i)'
  <2>1. Write("SERVER", kind, c, ok)
    BY <1>3 DEF ServerStep
  <2>2. ASSUME NEW k, k = Len(log["SERVER"]) + 1 PROVE LineTrue("SERVER", k)'
    <3>1. /\ log'["SERVER"][k].kind = kind /\ log'["SERVER"][k].cs = c /\ log'["SERVER"][k].sm = SmId[c]
          /\ log'["SERVER"][k].audited = audited[c] /\ log'["SERVER"][k].ok = ok
      BY <2>1, <2>2, NewLine, ProxyServer
    <3>2. /\ kind = "MySQL LOGIN" =>
                \E n \in DOMAIN servers'[c] : servers'[c][n].login /\ servers'[c][n].ok = ok
          /\ kind = "connection close" => SomeServerClosed(c)'
      BY <1>3 DEF ServerStep
    <3>3. kind \in {"MySQL LOGIN", "connection close"}
      BY KindsOfLogs
    <3>4. QED
      BY <3>1, <3>2, <3>3 DEF LineTrue, SomeServerClosed
  <2>3. QED
    BY <1>1, <2>1, <2>2, KindsOfLogs
<1>4. QED
  BY <1>2, <1>3 DEF LogStep

\* The lines of a client stay ordered.
LEMMA ClientLinesStep ==
    ASSUME TypeOK, NEW c \in Clients, ClientLines(c), Stays(c),
           \A i \in Time("PROXY") : LineTrue("PROXY", i),
           NEW e \in Clients, LogStep(e),
           e # c => phase'[c] = phase[c] /\ answer'[c] = answer[c]
    PROVE  ClientLines(c)'
<1>1. ASSUME NEW kind \in KindsOf("SERVER"), NEW ok \in BOOLEAN, ServerStep(e, kind, ok)
      PROVE  ClientLines(c)'
  <2>1. Write("SERVER", kind, e, ok) /\ phase' = phase /\ answer' = answer
    BY <1>1 DEF ServerStep
  <2>2. log'["PROXY"] = log["PROXY"] /\ Time("PROXY")' = Time("PROXY")
    <3>1. PICK k : k = Len(log["SERVER"]) + 1
      OBVIOUS
    <3>2. QED
      BY <2>1, <3>1, NewLine, ProxyServer
  <2>3. QED
    BY <2>1, <2>2 DEF ClientLines, IsLine
<1>2. ASSUME NEW kind \in KindsOf("PROXY"), NEW ok \in BOOLEAN, ProxyStep(e, kind, ok)
      PROVE  ClientLines(c)'
  <2>1. PICK k : k = Len(log["PROXY"]) + 1
    OBVIOUS
  <2>2. Write("PROXY", kind, e, ok)
    BY <1>2 DEF ProxyStep
  <2>3. /\ log'["PROXY"][k].kind = kind /\ log'["PROXY"][k].cs = e
        /\ k \in Nat /\ k \in Time("PROXY")' /\ Time("PROXY") \subseteq Time("PROXY")'
        /\ \A i \in Time("PROXY")' : i \in Time("PROXY") \/ i = k
        /\ \A i \in Time("PROXY") : i \in Nat /\ i < k /\ log'["PROXY"][i] = log["PROXY"][i]
    BY <2>1, <2>2, NewLine, ProxyServer
  <2>4. \A i \in Time("PROXY") : \A kinds : IsLine(i, c, kinds)' = IsLine(i, c, kinds)
    BY <2>3 DEF IsLine
  <2>5. \A kinds : IsLine(k, c, kinds)' = (e = c /\ kind \in kinds)
    BY <2>3 DEF IsLine
  <2>6. \A i \in Time("PROXY") : 1..i \subseteq Time("PROXY")
    BY DEF Time
  <2>7. \A i \in Time("PROXY") : i \in 1..k /\ i \in 1..i
    BY <2>3 DEF Time
  <2>8. k \in 1..k
    BY <2>3 DEF Time
  <2>9. phase[c] # "new" => phase'[c] # "new"
    BY DEF Stays
  <2>10. /\ phase'[c] # "new" => \E j \in Time("PROXY")' : IsLine(j, c, Births)'
         /\ answer'[c] = "ok" => \E j \in Time("PROXY")' : IsLine(j, c, Answers)'
         /\ phase'[c] = "gone" => \E j \in Time("PROXY")' : IsLine(j, c, Closes)'
    <3>1. /\ phase[c] # "new" => \E j \in Time("PROXY")' : IsLine(j, c, Births)'
          /\ answer[c] = "ok" => \E j \in Time("PROXY")' : IsLine(j, c, Answers)'
          /\ phase[c] = "gone" => \E j \in Time("PROXY")' : IsLine(j, c, Closes)'
      BY <2>3, <2>4 DEF ClientLines
    <3>2. CASE e # c
      BY <3>1, <3>2
    <3>3. CASE e = c
      <4>1. /\ phase[c] = "new" => kind \in Births
            /\ answer'[c] = "ok" => answer[c] = "ok" \/ kind \in Answers
            /\ phase'[c] = "gone" => kind \in Closes
        BY <1>2, <3>3 DEF ProxyStep
      <4>2. \A kinds : kind \in kinds => \E j \in Time("PROXY")' : IsLine(j, c, kinds)'
        BY <2>3, <2>5, <3>3
      <4>3. QED
        BY <3>1, <4>1, <4>2
    <3>4. QED
      BY <3>2, <3>3
  <2>11. ASSUME NEW i \in Time("PROXY"), log["PROXY"][i].cs = c
         PROVE  /\ phase'[c] # "new"
                /\ \E j \in 1..i : IsLine(j, c, Births)'
                /\ IsLine(i, c, Quits)' => \E j \in 1..i : IsLine(j, c, Answers)'
                /\ \A j \in Time("PROXY")' : IsLine(j, c, Closes)' => i <= j
    <3>1. /\ phase[c] # "new"
          /\ \E j \in 1..i : IsLine(j, c, Births)
          /\ IsLine(i, c, Quits) => \E j \in 1..i : IsLine(j, c, Answers)
          /\ \A j \in Time("PROXY") : IsLine(j, c, Closes) => i <= j
      BY <2>11 DEF ClientLines
    <3>2. \E j \in 1..i : IsLine(j, c, Births)'
      BY <2>4, <2>6, <3>1
    <3>3. IsLine(i, c, Quits)' => \E j \in 1..i : IsLine(j, c, Answers)'
      BY <2>4, <2>6, <3>1
    <3>4. ASSUME NEW j \in Time("PROXY")', IsLine(j, c, Closes)' PROVE i <= j
      <4>1. CASE j \in Time("PROXY")
        BY <2>4, <3>1, <3>4, <4>1
      <4>2. CASE j = k
        BY <2>3, <4>2
      <4>3. QED
        BY <2>3, <4>1, <4>2
    <3>5. QED
      BY <2>9, <3>1, <3>2, <3>3, <3>4
  <2>12. ASSUME e = c
         PROVE  /\ phase'[c] # "new"
                /\ \E j \in 1..k : IsLine(j, c, Births)'
                /\ IsLine(k, c, Quits)' => \E j \in 1..k : IsLine(j, c, Answers)'
                /\ \A j \in Time("PROXY")' : IsLine(j, c, Closes)' => k <= j
    <3>1. /\ phase[c] # "gone" /\ phase'[c] # "new" /\ (phase[c] = "new" => kind \in Births)
          /\ kind \in Quits => answer[c] = "ok"
      BY <1>2, <2>12 DEF ProxyStep
    <3>2. \E j \in 1..k : IsLine(j, c, Births)'
      <4>1. CASE phase[c] = "new"
        BY <2>5, <2>8, <2>12, <3>1, <4>1
      <4>2. CASE phase[c] # "new"
        <5>1. PICK j \in Time("PROXY") : IsLine(j, c, Births)
          BY <4>2 DEF ClientLines
        <5>2. QED
          BY <2>4, <2>7, <5>1
      <4>3. QED
        BY <4>1, <4>2
    <3>3. IsLine(k, c, Quits)' => \E j \in 1..k : IsLine(j, c, Answers)'
      <4>1. SUFFICES ASSUME kind \in Quits PROVE \E j \in 1..k : IsLine(j, c, Answers)'
        BY <2>5
      <4>2. PICK j \in Time("PROXY") : IsLine(j, c, Answers)
        BY <3>1, <4>1 DEF ClientLines
      <4>3. QED
        BY <2>4, <2>7, <4>2
    <3>4. ASSUME NEW j \in Time("PROXY")', IsLine(j, c, Closes)' PROVE k <= j
      <4>1. CASE j \in Time("PROXY")
        <5>1. IsLine(j, c, Closes)
          BY <2>4, <3>4, <4>1
        <5>2. phase[c] = "gone"
          BY <4>1, <5>1 DEF IsLine, Closes, LineTrue
        <5>3. QED
          BY <3>1, <5>2
      <4>2. CASE j = k
        BY <2>3, <4>2
      <4>3. QED
        BY <2>3, <4>1, <4>2
    <3>5. QED
      BY <3>1, <3>2, <3>3, <3>4
  <2>13. \A i \in Time("PROXY") : log'["PROXY"][i].cs = log["PROXY"][i].cs
    BY <2>3
  <2>14. QED
    BY <2>3, <2>10, <2>11, <2>12, <2>13 DEF ClientLines
<1>3. QED
  BY <1>1, <1>2 DEF LogStep
LEMMA LogTrueInit == ASSUME Init PROVE LogTrue
<1>1. /\ phase = [c \in Clients |-> "new"] /\ answer = [c \in Clients |-> "none"]
      /\ servers = [c \in Clients |-> <<>>] /\ log = [s \in Sources |-> <<>>]
  BY DEF Init
<1>2. ASSUME NEW s \in Sources PROVE Time(s) = {}
  <2>1. Len(log[s]) = 0
    BY <1>1
  <2>2. QED
    BY <2>1 DEF Time
<1>3. ASSUME NEW c \in Clients PROVE ClientTrue(c) /\ ClientLines(c)
  <2>1. phase[c] = "new" /\ answer[c] = "none" /\ servers[c] = <<>>
    BY <1>1
  <2>2. Len(servers[c]) = 0 /\ DOMAIN servers[c] = {}
    BY <2>1
  <2>3. ClientTrue(c)
    BY <2>1, <2>2 DEF ClientTrue
  <2>4. Time("PROXY") = {}
    BY <1>2, ProxyServer
  <2>5. QED
    BY <2>1, <2>3, <2>4 DEF ClientLines
<1>4. QED
  BY <1>2, <1>3 DEF LogTrue

LEMMA LogTrueNext ==
    ASSUME Shape, LogTrue, [Next]_vars
    PROVE  LogTrue'
<1>1. ClientsTyped /\ TypeOK
  BY DEF Shape, TypeOK, ClientsTyped, ServerSessions
<1>2. ASSUME NEW e \in Clients, ClientStep(e) PROVE LogTrue'
  <2>1. /\ Stays(e) /\ ClientTrue(e)' /\ LogStep(e)
        /\ \A d \in Clients \ {e} :
                phase'[d] = phase[d] /\ answer'[d] = answer[d] /\ servers'[d] = servers[d]
    BY <1>1, <1>2, ClientStepEffect DEF LogTrue
  <2>2. ASSUME NEW d \in Clients PROVE Stays(d)
    <3>1. CASE d = e
      BY <2>1, <3>1
    <3>2. CASE d # e
      <4>1. phase'[d] = phase[d] /\ answer'[d] = answer[d] /\ servers'[d] = servers[d]
        BY <2>1, <3>2
      <4>2. QED
        BY <4>1 DEF Stays, Ended, Refused, SomeServerClosed
    <3>3. QED
      BY <3>1, <3>2
  <2>3. ASSUME NEW d \in Clients PROVE ClientTrue(d)'
    <3>1. CASE d = e
      BY <2>1, <3>1
    <3>2. CASE d # e
      <4>1. phase'[d] = phase[d] /\ answer'[d] = answer[d] /\ servers'[d] = servers[d]
        BY <2>1, <3>2
      <4>2. ClientTrue(d)
        BY DEF LogTrue
      <4>3. QED
        BY <4>1, <4>2 DEF ClientTrue
    <3>3. QED
      BY <3>1, <3>2
  <2>4. audited' = audited
    BY <1>1, <1>2, ClientStepTypes
  <2>5. \A s \in Sources : \A i \in Time(s)' : LineTrue(s, i)'
    BY <1>1, <2>1, <2>2, <2>4, LinesTrueStep DEF LogTrue
  <2>6. ASSUME NEW d \in Clients PROVE ClientLines(d)'
    <3>1. e # d => phase'[d] = phase[d] /\ answer'[d] = answer[d]
      BY <2>1
    <3>2. ClientLines(d) /\ \A i \in Time("PROXY") : LineTrue("PROXY", i)
      BY ProxyServer DEF LogTrue
    <3>3. QED
      BY <1>1, <2>1, <2>2, <3>1, <3>2, ClientLinesStep
  <2>7. QED
    BY <2>3, <2>5, <2>6 DEF LogTrue
<1>3. ASSUME UNCHANGED clients, log' = log PROVE LogTrue'
  <2>1. UNCHANGED <<audited, phase, answer, servers>>
    BY <1>3 DEF clients
  <2>2. \A s : Time(s)' = Time(s)
    BY <1>3 DEF Time
  <2>3. \A s \in Sources : \A i \in Time(s) : LineTrue(s, i)'
    BY <1>3, <2>1 DEF LogTrue, LineTrue, Ended, SomeServerClosed
  <2>4. \A c \in Clients : ClientTrue(c)'
    BY <2>1 DEF LogTrue, ClientTrue
  <2>5. \A c \in Clients : ClientLines(c)'
    BY <1>3, <2>1, <2>2 DEF LogTrue, ClientLines, IsLine
  <2>6. QED
    BY <2>2, <2>3, <2>4, <2>5 DEF LogTrue
<1>4. ASSUME NEW s \in Sources, Rotate(s) PROVE LogTrue'
  BY <1>3, <1>4 DEF Rotate
<1>5. ASSUME NEW s \in Sources, Tick(s) \/ StatementFails(s) \/ FileFails(s) \/ Crash(s)
      PROVE  LogTrue'
  <2>1. UNCHANGED <<clients, files>>
    BY <1>5 DEF Tick, List, Open, ReadLine, StatementFails, LineLeft, SaveRecord, FileFails, EndTick,
                Crash
  <2>2. QED
    BY <1>3, <2>1 DEF files
<1>6. CASE UNCHANGED vars
  BY <1>3, <1>6 DEF vars, files
<1>7. QED
  BY <1>2, <1>4, <1>5, <1>6 DEF Next, World, ClientStep
-----------------------------------------------------------------------------
(* What an event says.                                                     *)

LEMMA ProxyEvent ==
    ASSUME NEW p \in Parsers("PROXY"), NEW line \in LogLines, line.kind \in KindsOf("PROXY"),
           NEW e, e = Parse(p, line).event, e # NoEvent
    PROVE  /\ e.cs = line.cs
           /\ \/ /\ e.type = (IF line.ok THEN "LOGIN_OK" ELSE "LOGIN_FAIL")
                 /\ line.kind = "update_cmd_stats" /\ line.cs \in p.bornMap
              \/ /\ e.type = "LOGIN_FAIL" /\ line.kind = "client session do_io_close"
                 /\ line.cs \in p.bornMap \/ FailOf(p, line.cs) # {}
              \/ e.type = "LOGOFF" /\ line.kind = "COM_QUIT"
<1>1. CASE line.kind = "server session born" \/ line.kind = "error_transfer"
  BY <1>1 DEF Parse, Remembered
<1>2. CASE line.kind = "update_cmd_stats"
  BY <1>2 DEF Parse, HandleLoginCmdStats, Remembered, Event
<1>3. CASE line.kind = "client session do_io_close"
  <2> DEFINE fail == FailOf(p, line.cs)
  <2>1. e = CASE fail # {} -> Event("LOGIN_FAIL", line, (CHOOSE f \in fail : TRUE).time)
              [] fail = {} /\ line.cs \in p.bornMap -> Event("LOGIN_FAIL", line, line.time)
              [] OTHER -> NoEvent
    BY <1>3 DEF Parse, HandleDoClose, Remembered
  <2>2. e = Event("LOGIN_FAIL", line, (CHOOSE f \in fail : TRUE).time)
        \/ e = Event("LOGIN_FAIL", line, line.time)
    BY <2>1
  <2>3. e.type = "LOGIN_FAIL" /\ e.cs = line.cs
    BY <2>2 DEF Event
  <2>4. fail # {} \/ line.cs \in p.bornMap
    BY <2>1
  <2>5. QED
    BY <1>3, <2>3, <2>4
<1>4. CASE line.kind = "COM_QUIT"
  BY <1>4 DEF Parse, HandleLogoff, Remembered, Event
<1>5. QED
  BY <1>1, <1>2, <1>3, <1>4, KindsOfLogs

LEMMA ServerEvent ==
    ASSUME NEW line \in LogLines, NEW e, e = ParseObServerLine(line), e # NoEvent
    PROVE  /\ e.cs = line.cs
           /\ \/ /\ e.type = (IF line.ok THEN "LOGIN_OK" ELSE "LOGIN_FAIL")
                 /\ line.kind = "MySQL LOGIN" /\ line.audited
              \/ e.type = "LOGOFF" /\ line.kind = "connection close"
BY DEF ParseObServerLine, Event

\* What a statement leaves of a row.
LEMMA RowsAfterLine ==
    ASSUME Shape, NEW s \in Sources, LineLeft(s), NEW e, e = EventOf(s), NEW ip \in BOOLEAN,
           NEW x \in Handle(s, e, ip)
    PROVE  \/ x \in sessions
           \/ e.type \in {"LOGIN_OK", "LOGIN_FAIL"} /\ e # NoEvent /\ x = Row(s, e, ip)
           \/ e.type = "LOGOFF" /\ e # NoEvent
              /\ \E r \in sessions : r.sess = e.cs /\ x = [r EXCEPT !.closed = TRUE]
<1>1. NoEvent.type = "none"
  BY DEF NoEvent
<1>2. CASE e.type \in {"LOGIN_OK", "LOGIN_FAIL"}
  <2>1. x \in InsertLogin(sessions, Row(s, e, ip))
    BY <1>2 DEF Handle
  <2>2. x \in sessions \/ x = Row(s, e, ip)
    BY <2>1 DEF InsertLogin
  <2>3. e # NoEvent
    BY <1>1, <1>2
  <2>4. QED
    BY <1>2, <2>2, <2>3
<1>3. CASE e.type = "LOGOFF"
  <2>1. x \in UpdateLogoff(sessions, e.cs)
    BY <1>3 DEF Handle
  <2>2. QED
    BY <1>1, <1>3, <2>1 DEF UpdateLogoff
<1>4. CASE e.type \notin {"LOGIN_OK", "LOGIN_FAIL", "LOGOFF"}
  BY <1>4 DEF Handle
<1>5. QED
  BY <1>2, <1>3, <1>4

\* An event is that of the line that is read.
LEMMA EventOfLine ==
    ASSUME Shape, NEW s \in Sources, LineLeft(s)
    PROVE  LET i == daemon[s].offset + 1 IN
           /\ i \in Time(s) /\ log[s][i] \in LogLines /\ log[s][i].time = i
           /\ log[s][i].kind \in KindsOf(s) /\ log[s][i].cs \in Clients
           /\ daemon[s].parser \in Parsers(s)
           /\ s = "PROXY" => EventOf(s) = Parse(daemon[s].parser, log[s][i]).event
           /\ s = "SERVER" => EventOf(s) = ParseObServerLine(log[s][i])
<1>1. daemon[s].offset + 1 \in Time(s) /\ daemon[s] \in Daemons(s)
  BY LineStep
<1>2. daemon[s].parser \in Parsers(s)
  BY <1>1 DEF Daemons
<1>3. s = "PROXY" => EventOf(s) = Parse(daemon[s].parser, log[s][daemon[s].offset + 1]).event
  BY DEF EventOf, NextLine, Parsed
<1>4. s = "SERVER" => EventOf(s) = ParseObServerLine(log[s][daemon[s].offset + 1])
  BY DEF EventOf, NextLine, Parsed, Remembered
<1>5. QED
  BY <1>1, <1>2, <1>3, <1>4, LineTyped DEF Shape

-----------------------------------------------------------------------------
(* No row is closed while its client is at work.                           *)

\* What the clients of the closed rows have become, they stay.
LEMMA ClientsStay ==
    ASSUME Shape, LogTrue, World
    PROVE  /\ audited' = audited /\ sessions' = sessions
           /\ \A c \in Clients : Stays(c)
<1>1. ClientsTyped /\ TypeOK
  BY DEF Shape, TypeOK, ClientsTyped, ServerSessions
<1>2. audited' = audited /\ sessions' = sessions
  BY <1>1, WorldGrows
<1>3. ASSUME NEW c \in Clients,
             phase'[c] = phase[c] /\ answer'[c] = answer[c] /\ servers'[c] = servers[c]
      PROVE  Stays(c)
  BY <1>3 DEF Stays, Ended, Refused, SomeServerClosed
<1>4. ASSUME NEW e \in Clients, ClientStep(e), NEW c \in Clients PROVE Stays(c)
  <2>1. Stays(e) /\ \A d \in Clients \ {e} :
                phase'[d] = phase[d] /\ answer'[d] = answer[d] /\ servers'[d] = servers[d]
    BY <1>1, <1>4, ClientStepEffect DEF LogTrue
  <2>2. QED
    BY <1>3, <2>1
<1>5. ASSUME NEW s \in Sources, Rotate(s), NEW c \in Clients PROVE Stays(c)
  BY <1>3, <1>5 DEF Rotate, clients
<1>6. QED
  BY <1>2, <1>4, <1>5 DEF World, ClientStep

LEMMA SessClients ==
    ASSUME Shape, NEW r \in sessions
    PROVE  /\ r \in Rows /\ r.sess \in Clients /\ r.source \in Sources
           /\ r.ok \in BOOLEAN /\ r.closed \in BOOLEAN
BY DEF Shape, TypeOK, Rows

\* A logoff line of either log, or a refusal, has been of c.
Over(c) == Ended(c) \/ Refused(c) \/ SomeServerClosed(c)

LEMMA ClosedAfterEndNext ==
    ASSUME Shape, LogTrue, ClosedAfterEnd, [Next]_vars
    PROVE  ClosedAfterEnd'
<1>1. CASE World
  <2>1. sessions' = sessions /\ \A c \in Clients : Stays(c)
    BY <1>1, ClientsStay
  <2>2. \A r \in sessions : r.sess \in Clients
    BY SessClients
  <2>3. \A c \in Clients : Over(c) => Over(c)'
    BY <2>1 DEF Stays, Over
  <2>4. ASSUME NEW r \in sessions, r.closed PROVE Over(r.sess)'
    <3>1. PICK c \in Clients : c = r.sess
      BY <2>2
    <3>2. Over(c)
      BY <2>4, <3>1 DEF ClosedAfterEnd, Over
    <3>3. Over(c)'
      BY <2>3, <3>2
    <3>4. QED
      BY <3>1, <3>3 DEF Over, Ended, Refused, SomeServerClosed
  <2>5. QED
    BY <2>1, <2>4 DEF ClosedAfterEnd, Over, Ended, Refused, SomeServerClosed
<1>2. ASSUME UNCHANGED clients,
             \A x \in sessions' : x.closed => Over(x.sess)
      PROVE  ClosedAfterEnd'
  <2>1. UNCHANGED <<audited, phase, answer, servers>>
    BY <1>2 DEF clients
  <2>2. \A x \in sessions' : x.closed => Over(x.sess)'
    BY <1>2, <2>1 DEF Over, Ended, Refused, SomeServerClosed
  <2>3. QED
    BY <2>2 DEF ClosedAfterEnd, Over, Ended, Refused, SomeServerClosed
<1>3. ASSUME NEW s \in Sources, ReadLine(s) PROVE ClosedAfterEnd'
  <2> DEFINE e == EventOf(s)
             ip == daemon[s].ip \/ FindsIp(s)
             line == log[s][daemon[s].offset + 1]
  <2>0. LineLeft(s) /\ sessions' = Handle(s, e, ip) /\ UNCHANGED clients
    BY <1>3 DEF ReadLine, LineLeft
  <2>1. PICK b \in BOOLEAN : LineLeft(s) /\ sessions' = Handle(s, e, b) /\ UNCHANGED clients
    <3>1. ip \in BOOLEAN
      OBVIOUS
    <3> HIDE DEF ip, e
    <3>2. QED
      BY <2>0, <3>1
  <2>2. /\ daemon[s].offset + 1 \in Time(s) /\ line \in LogLines
        /\ line.kind \in KindsOf(s) /\ line.cs \in Clients /\ daemon[s].parser \in Parsers(s)
        /\ s = "PROXY" => e = Parse(daemon[s].parser, line).event
        /\ s = "SERVER" => e = ParseObServerLine(line)
    BY <2>1, EventOfLine
  <2>3. e.type = "LOGOFF" /\ e # NoEvent => Over(e.cs)
    <3>1. LineTrue(s, daemon[s].offset + 1)
      BY <2>2 DEF LogTrue
    <3>2. line.kind \in {"COM_QUIT", "connection close"} => Over(line.cs)
      BY <3>1 DEF LineTrue, Over
    <3> HIDE DEF e, line
    <3>3. CASE s = "PROXY"
      BY <2>2, <3>2, <3>3, ProxyEvent
    <3>4. CASE s = "SERVER"
      BY <2>2, <3>2, <3>4, ServerEvent
    <3>5. QED
      BY <3>3, <3>4 DEF Sources
  <2>4. ASSUME NEW x \in sessions', x.closed PROVE Over(x.sess)
    <3>1. \/ x \in sessions
          \/ x = Row(s, e, b)
          \/ e.type = "LOGOFF" /\ e # NoEvent
              /\ \E r \in sessions : r.sess = e.cs /\ x = [r EXCEPT !.closed = TRUE]
      <4>1. x \in Handle(s, e, b)
        BY <2>1
      <4>2. PICK ev : ev = e /\ ev = EventOf(s)
        OBVIOUS
      <4> HIDE DEF e
      <4>3. QED
        BY <2>1, <4>1, <4>2, RowsAfterLine
    <3>2. CASE x \in sessions
      BY <2>4, <3>2 DEF ClosedAfterEnd, Over
    <3>3. CASE x = Row(s, e, b)
      BY <2>4, <3>3 DEF Row
    <3>4. CASE e.type = "LOGOFF" /\ e # NoEvent
              /\ \E r \in sessions : r.sess = e.cs /\ x = [r EXCEPT !.closed = TRUE]
      <4>1. PICK r \in sessions : r.sess = e.cs /\ x = [r EXCEPT !.closed = TRUE]
        BY <3>4
      <4>2. x.sess = e.cs
        BY <4>1, SessClients DEF Rows
      <4>3. QED
        BY <2>3, <3>4, <4>2
    <3>5. QED
      BY <3>1, <3>2, <3>3, <3>4
  <2>5. QED
    BY <1>2, <2>1, <2>4
<1>4. ASSUME NEW s \in Sources, EndTick(s) PROVE ClosedAfterEnd'
  <2>1. sessions' = SyncFailed(sessions) /\ UNCHANGED clients
    BY <1>4 DEF EndTick
  <2>2. ASSUME NEW x \in sessions', x.closed PROVE Over(x.sess)
    <3>1. PICK r \in sessions :
            \/ x = r
            \/ /\ \E q \in sessions : q.sess = r.sess /\ q.closed
               /\ x = [r EXCEPT !.closed = TRUE, !.ok = FALSE]
      BY <2>1 DEF SyncFailed
    <3>2. CASE x = r
      BY <2>2, <3>2 DEF ClosedAfterEnd, Over
    <3>3. CASE /\ \E q \in sessions : q.sess = r.sess /\ q.closed
               /\ x = [r EXCEPT !.closed = TRUE, !.ok = FALSE]
      <4>1. x.sess = r.sess
        BY <3>3, SessClients DEF Rows
      <4>2. QED
        BY <3>3, <4>1 DEF ClosedAfterEnd, Over
    <3>4. QED
      BY <3>1, <3>2, <3>3
  <2>3. QED
    BY <1>2, <2>1, <2>2
<1>5. ASSUME UNCHANGED <<clients, sessions>> PROVE ClosedAfterEnd'
  BY <1>2, <1>5 DEF ClosedAfterEnd, Over
<1>6. ASSUME NEW s \in Sources,
             List(s) \/ Open(s) \/ SaveRecord(s) \/ StatementFails(s) \/ FileFails(s) \/ Crash(s)
      PROVE  ClosedAfterEnd'
  BY <1>5, <1>6 DEF List, Open, SaveRecord, StatementFails, LineLeft, FileFails, Crash
<1>7. CASE UNCHANGED vars
  BY <1>5, <1>7 DEF vars
<1>8. QED
  BY <1>1, <1>3, <1>4, <1>6, <1>7 DEF Next, Tick

\* No row of a client that is at work is closed as long as its server sessions
\* are open and accepted, neither by a logoff of either log nor by the
\* reconciliation, however late or often the lines are read and however many
\* server sessions the client has.
THEOREM NoEarlyClose == Spec => []ClosedAfterEnd
<1>1. Init => Shape /\ LogTrue /\ ClosedAfterEnd
  BY ShapeInit, LogTrueInit DEF Init, ClosedAfterEnd
<1>2. Shape /\ LogTrue /\ ClosedAfterEnd /\ [Next]_vars => Shape' /\ LogTrue' /\ ClosedAfterEnd'
  BY ShapeNext, LogTrueNext, ClosedAfterEndNext
<1>3. QED
  BY <1>1, <1>2, PTL DEF Spec
-----------------------------------------------------------------------------
(* What the parser remembers.                                              *)

LEMMA ParserAfterLine ==
    ASSUME NEW p \in Parsers("PROXY"), NEW line \in LogLines, line.kind \in KindsOf("PROXY"),
           NEW q, q = Parse(p, line).parser
    PROVE  /\ \A c \in q.bornMap :
                \/ c \in p.bornMap /\ ~(line.cs = c /\ line.kind \in Decisive)
                \/ line.cs = c /\ line.kind \in Births /\ line.audited
           /\ \A c \in p.bornMap : ~(line.cs = c /\ line.kind \in Decisive) => c \in q.bornMap
           /\ line.kind \in Births /\ line.audited => line.cs \in q.bornMap
           /\ \A f \in q.failMap :
                f \in p.failMap \/ (line.kind = "error_transfer" /\ f.cs = line.sm)
<1>1. p = [bornMap |-> p.bornMap, failMap |-> p.failMap]
  BY DEF Parsers
<1>2. ForgetFail(p, line.cs) \subseteq p.failMap /\ ForgetFail(p, line.sm) \subseteq p.failMap
  BY DEF ForgetFail
<1>3. CASE line.kind = "server session born"
  BY <1>1, <1>3 DEF Parse, HandleBorn, Remembered, Decisive, Births
<1>4. CASE line.kind = "update_cmd_stats"
  BY <1>1, <1>4 DEF Parse, HandleLoginCmdStats, Remembered, Decisive, Births
<1>5. CASE line.kind = "error_transfer"
  <2>1. q = [p EXCEPT !.failMap =
                ForgetFail(p, line.sm) \cup {[cs |-> line.sm, time |-> line.time]}]
    BY <1>5 DEF Parse, HandleErrorTransfer, Remembered
  <2>2. q.bornMap = p.bornMap
        /\ q.failMap = ForgetFail(p, line.sm) \cup {[cs |-> line.sm, time |-> line.time]}
    BY <1>1, <2>1
  <2>3. QED
    BY <1>2, <1>5, <2>2 DEF Decisive, Births
<1>6. CASE line.kind = "COM_QUIT"
  BY <1>6 DEF Parse, HandleLogoff, Remembered, Decisive, Births
<1>7. CASE line.kind = "client session do_io_close"
  <2>1. q = [bornMap |-> p.bornMap \ {line.cs}, failMap |-> ForgetFail(p, line.cs)]
    BY <1>7 DEF Parse, HandleDoClose, Remembered
  <2>2. q.bornMap = p.bornMap \ {line.cs} /\ q.failMap = ForgetFail(p, line.cs)
    BY <2>1
  <2>3. QED
    BY <1>2, <1>7, <2>2 DEF Decisive, Births
<1>8. QED
  BY <1>3, <1>4, <1>5, <1>6, <1>7, KindsOfLogs

\* What the parser of obproxy.log knows is so once the next line was read.
LEMMA ParserTrueLine ==
    ASSUME Shape, LogTrue, ParserTrue, LineLeft("PROXY")
    PROVE  ParserTrue'
<1> DEFINE d == daemon["PROXY"]
<1>1. PICK m, p, q, line :
        m = d.offset /\ p = d.parser /\ line = log["PROXY"][m + 1] /\ q = Parse(p, line).parser
  OBVIOUS
<1>2. /\ log' = log /\ audited' = audited /\ m \in Nat /\ m + 1 \in Time("PROXY")
      /\ daemon'["PROXY"].at = "read" /\ daemon'["PROXY"].offset = m + 1
      /\ daemon'["PROXY"].parser = q /\ p \in Parsers("PROXY")
  <2>1. daemon["PROXY"].offset \in Nat /\ daemon["PROXY"].parser \in Parsers("PROXY")
    BY LineStep, ProxyServer DEF Daemons
  <2>2. daemon'["PROXY"].parser = Parsed("PROXY", p, line).parser
    BY <1>1, LineStep, ProxyServer
  <2>3. daemon'["PROXY"].parser = q
    BY <1>1, <2>2 DEF Parsed
  <2>4. QED
    BY <1>1, <2>1, <2>3, LineStep, ProxyServer
<1>3. /\ line \in LogLines /\ line.kind \in KindsOf("PROXY") /\ line.cs \in Clients
      /\ LineTrue("PROXY", m + 1)
  BY <1>1, <1>2, LineTyped, ProxyServer DEF Shape, LogTrue
<1>4. line.audited = audited[line.cs]
  BY <1>1, <1>3 DEF LineTrue
<1>5. (\A c \in p.bornMap : BornTrue(c, m)) /\ (\A f \in p.failMap : FailTrue(f, m))
  BY <1>1 DEF ParserTrue
<1> HIDE DEF d
<1>6. /\ \A c \in q.bornMap :
            \/ c \in p.bornMap /\ ~(line.cs = c /\ line.kind \in Decisive)
            \/ line.cs = c /\ line.kind \in Births /\ line.audited
      /\ \A f \in q.failMap :
            f \in p.failMap \/ (line.kind = "error_transfer" /\ f.cs = line.sm)
  BY <1>1, <1>2, <1>3, ParserAfterLine
<1>7. ASSUME NEW c \in q.bornMap PROVE BornTrue(c, m + 1)
  <2>1. CASE c \in p.bornMap /\ ~(line.cs = c /\ line.kind \in Decisive)
    <3>1. audited[c] /\ \E i \in 1..m : IsLine(i, c, Births) /\ \A j \in i..m : ~IsLine(j, c, Answers)
      BY <1>5, <2>1 DEF BornTrue
    <3>2. PICK i \in 1..m : IsLine(i, c, Births) /\ \A j \in i..m : ~IsLine(j, c, Answers)
      BY <3>1
    <3>3. ~IsLine(m + 1, c, Answers)
      BY <1>1, <2>1 DEF IsLine, Decisive, Answers
    <3>4. \A j \in i..m + 1 : j \in i..m \/ j = m + 1
      BY <1>2
    <3>5. i \in 1..m + 1
      BY <1>2
    <3>6. QED
      BY <3>1, <3>2, <3>3, <3>4, <3>5 DEF BornTrue
  <2>2. CASE line.cs = c /\ line.kind \in Births /\ line.audited
    <3>1. IsLine(m + 1, c, Births) /\ ~IsLine(m + 1, c, Answers)
      BY <1>1, <2>2 DEF IsLine, Births, Answers
    <3>2. m + 1 \in 1..m + 1 /\ \A j \in m + 1..m + 1 : j = m + 1
      BY <1>2
    <3>3. QED
      BY <1>4, <2>2, <3>1, <3>2 DEF BornTrue
  <2>3. QED
    BY <1>6, <2>1, <2>2
<1>8. ASSUME NEW f \in q.failMap PROVE FailTrue(f, m + 1)
  <2>1. m + 1 \in 1..m + 1 /\ \A i \in 1..m : i \in 1..m + 1
    BY <1>2
  <2>2. QED
    BY <1>1, <1>5, <1>6, <2>1 DEF FailTrue
<1>9. \A c \in q.bornMap : audited'[c] /\ \E i \in 1..m + 1 :
            IsLine(i, c, Births)' /\ \A j \in i..m + 1 : ~IsLine(j, c, Answers)'
  BY <1>2, <1>7 DEF BornTrue, IsLine
<1>10. \A f \in q.failMap : \E i \in 1..m + 1 :
            log'["PROXY"][i].sm = f.cs /\ log'["PROXY"][i].kind = "error_transfer"
  BY <1>2, <1>8 DEF FailTrue
<1>11. QED
  BY <1>2, <1>9, <1>10 DEF ParserTrue, BornTrue, FailTrue

LEMMA ParserTrueInit == ASSUME Init PROVE ParserTrue
<1>1. daemon["PROXY"] = Idle
  BY ProxyServer DEF Init
<1>2. Idle.parser = NewParser /\ NewParser.bornMap = {} /\ NewParser.failMap = {}
  BY DEF Idle, NewParser
<1>3. QED
  BY <1>1, <1>2 DEF ParserTrue

\* A daemon that has not begun a file remembers nothing.
LEMMA ParserTrueNew ==
    ASSUME daemon'["PROXY"].parser = NewParser
    PROVE  ParserTrue'
<1>1. NewParser.bornMap = {} /\ NewParser.failMap = {}
  BY DEF NewParser
<1>2. QED
  BY <1>1 DEF ParserTrue

LEMMA ParserTrueNext ==
    ASSUME Shape, LogTrue, ParserTrue, [Next]_vars
    PROVE  ParserTrue'
<1>1. DOMAIN daemon = Sources /\ daemon["PROXY"] \in Daemons("PROXY")
      /\ daemon["PROXY"].offset \in 0..Len(log["PROXY"]) /\ Len(log["PROXY"]) \in Nat
  BY ShapeParts, ProxyServer DEF SourceTypeOK, Daemons
<1>2. CASE World
  <2>1. audited' = audited /\ daemon' = daemon
        /\ \A i \in Time("PROXY") : log'["PROXY"][i] = log["PROXY"][i]
    BY <1>2, WorldGrows, ProxyServer DEF Shape
  <2>2. PICK m : m = daemon["PROXY"].offset
    OBVIOUS
  <2>3. \A i \in 1..m : i \in Time("PROXY") /\ i..m \subseteq 1..m
    BY <1>1, <2>2 DEF Time
  <2>4. \A i \in 1..m : \A c, kinds : IsLine(i, c, kinds)' = IsLine(i, c, kinds)
    BY <2>1, <2>3 DEF IsLine
  <2>5. ASSUME NEW c, BornTrue(c, m)
        PROVE  audited'[c] /\ \E i \in 1..m :
                IsLine(i, c, Births)' /\ \A j \in i..m : ~IsLine(j, c, Answers)'
    <3>1. PICK i \in 1..m : IsLine(i, c, Births) /\ \A j \in i..m : ~IsLine(j, c, Answers)
      BY <2>5 DEF BornTrue
    <3>2. \A j \in i..m : ~IsLine(j, c, Answers)'
      BY <2>3, <2>4, <3>1
    <3>3. QED
      BY <2>1, <2>4, <2>5, <3>1, <3>2 DEF BornTrue
  <2>6. ASSUME NEW f, FailTrue(f, m)
        PROVE  \E i \in 1..m :
                log'["PROXY"][i].sm = f.cs /\ log'["PROXY"][i].kind = "error_transfer"
    BY <2>1, <2>3, <2>6 DEF FailTrue
  <2>7. /\ daemon["PROXY"].at # "read" => daemon["PROXY"].parser = NewParser
        /\ \A c \in daemon["PROXY"].parser.bornMap : BornTrue(c, m)
        /\ \A f \in daemon["PROXY"].parser.failMap : FailTrue(f, m)
    BY <2>2 DEF ParserTrue
  <2>8. QED
    BY <2>1, <2>2, <2>5, <2>6, <2>7 DEF ParserTrue, BornTrue, FailTrue
<1>3. ASSUME log' = log, audited' = audited, daemon'["PROXY"] = daemon["PROXY"]
      PROVE  ParserTrue'
  BY <1>3 DEF ParserTrue, BornTrue, FailTrue, IsLine
<1>4. ASSUME NEW s \in Sources, LineLeft(s) PROVE ParserTrue'
  <2>1. CASE s = "PROXY"
    BY <1>4, <2>1, ParserTrueLine
  <2>2. CASE s # "PROXY"
    BY <1>3, <1>4, <2>2, LineStep, ProxyServer
  <2>3. QED
    BY <2>1, <2>2
<1>5. ASSUME NEW s \in Sources, List(s) PROVE ParserTrue'
  <2>1. log' = log /\ audited' = audited
    BY <1>5 DEF List, clients, files
  <2>2. CASE s # "PROXY"
    <3>1. daemon'["PROXY"] = daemon["PROXY"]
      BY <1>1, <1>5, <2>2, ProxyServer DEF List
    <3>2. QED
      BY <1>3, <2>1, <3>1
  <2>3. CASE s = "PROXY"
    <3>1. daemon["PROXY"].parser = NewParser
      BY <1>5, <2>3 DEF List, ParserTrue
    <3>2. daemon'["PROXY"].parser = daemon["PROXY"].parser
      BY <1>1, <1>5, <2>3, ProxyServer DEF List, Daemons
    <3>3. QED
      BY <3>1, <3>2, ParserTrueNew
  <2>4. QED
    BY <2>2, <2>3
<1>6. ASSUME NEW s \in Sources, Open(s) PROVE ParserTrue'
  <2>1. log' = log /\ audited' = audited
    BY <1>6 DEF Open, clients, files
  <2>2. CASE s # "PROXY"
    <3>1. daemon'["PROXY"] = daemon["PROXY"]
      BY <1>1, <1>6, <2>2, ProxyServer, OpenAt
    <3>2. QED
      BY <1>3, <2>1, <3>1
  <2>3. CASE s = "PROXY"
    <3>1. daemon["PROXY"].parser = NewParser
      BY <1>6, <2>3 DEF Open, ParserTrue
    <3>2. daemon'["PROXY"].parser = daemon["PROXY"].parser
      BY <1>6, <2>3, OpenAt
    <3>3. QED
      BY <3>1, <3>2, ParserTrueNew
  <2>4. QED
    BY <2>2, <2>3
<1>7. ASSUME NEW s \in Sources, SaveRecord(s) \/ FileFails(s) \/ EndTick(s) \/ Crash(s)
      PROVE  ParserTrue'
  <2>1. log' = log /\ audited' = audited
    BY <1>7 DEF SaveRecord, FileFails, EndTick, Crash, clients, files
  <2>2. daemon' = [daemon EXCEPT ![s] = NextFile(s)] \/ daemon' = [daemon EXCEPT ![s] = Idle]
    BY <1>7 DEF SaveRecord, FileFails, EndTick, Crash
  <2>3. NextFile(s).parser = NewParser /\ Idle.parser = NewParser
    BY DEF NextFile, Idle
  <2>4. CASE s # "PROXY"
    BY <1>1, <1>3, <2>1, <2>2, <2>4, ProxyServer
  <2>5. CASE s = "PROXY"
    BY <1>1, <2>2, <2>3, <2>5, ParserTrueNew, ProxyServer
  <2>6. QED
    BY <2>4, <2>5
<1>8. CASE UNCHANGED vars
  BY <1>3, <1>8 DEF vars, clients, files
<1>9. QED
  BY <1>2, <1>4, <1>5, <1>6, <1>7, <1>8 DEF Next, Tick, ReadLine, StatementFails
-----------------------------------------------------------------------------
(* What the rows say is what happened.                                     *)

\* A log only grows.
LEMMA LogGrows ==
    ASSUME Shape, World, NEW s \in Sources
    PROVE  Time(s) \subseteq Time(s)' /\ \A i \in Time(s) : log'[s][i] = log[s][i]
<1>1. /\ Len(log'[s]) \in {Len(log[s]), Len(log[s]) + 1} /\ Len(log[s]) \in Nat
      /\ \A i \in Time(s) : log'[s][i] = log[s][i]
  BY WorldGrows, ShapeParts DEF Shape
<1>2. Time(s) \subseteq Time(s)'
  BY <1>1 DEF Time
<1>3. QED
  BY <1>1, <1>2

\* So does what it says of a client.
LEMMA ExcusesStay ==
    ASSUME Shape, World, NEW c \in Clients
    PROVE  /\ BornAgain(c) => BornAgain(c)'
           /\ NamedInError(c) => NamedInError(c)'
<1>1. /\ Time("PROXY") \subseteq Time("PROXY")'
      /\ \A i \in Time("PROXY") : log'["PROXY"][i] = log["PROXY"][i]
  BY LogGrows, ProxyServer
<1>2. ASSUME BornAgain(c) PROVE BornAgain(c)'
  <2>1. LinesOf("PROXY", c, {"server session born"}) \subseteq
        LinesOf("PROXY", c, {"server session born"})'
    BY <1>1 DEF LinesOf
  <2>2. QED
    BY <1>2, <2>1 DEF BornAgain
<1>3. ASSUME NamedInError(c) PROVE NamedInError(c)'
  BY <1>1, <1>3 DEF NamedInError
<1>4. QED
  BY <1>2, <1>3

\* Lines of a client come after its first birth.
LEMMA LaterBirth ==
    ASSUME Shape, NEW c \in Clients, ClientLines(c), NEW i \in Time("PROXY"), IsLine(i, c, Births),
           NEW j \in Time("PROXY"), log["PROXY"][j].cs = c, j < i
    PROVE  BornAgain(c)
<1>1. PICK k \in 1..j : IsLine(k, c, Births)
  BY DEF ClientLines
<1>2. k \in Time("PROXY") /\ k # i
  BY <1>1, ShapeParts, ProxyServer DEF Time
<1>3. \A n \in Time("PROXY") : IsLine(n, c, Births) => n \in LinesOf("PROXY", c, {"server session born"})
  BY DEF IsLine, Births, LinesOf
<1>4. QED
  BY <1>1, <1>2, <1>3 DEF BornAgain

\* The PROXY row of an event that reports a login.
LEMMA ProxyLoginTrue ==
    ASSUME Shape, LogTrue, ParserTrue, LineLeft("PROXY"),
           NEW e, e = EventOf("PROXY"), e # NoEvent, e.type \in {"LOGIN_OK", "LOGIN_FAIL"},
           NEW x, x.source = "PROXY", x.sess = e.cs, x.ok = (e.type = "LOGIN_OK")
    PROVE  RowTrue(x)
<1>1. PICK m, p, line :
        m = daemon["PROXY"].offset /\ p = daemon["PROXY"].parser /\ line = log["PROXY"][m + 1]
  OBVIOUS
<1>2. /\ m + 1 \in Time("PROXY") /\ line \in LogLines /\ line.kind \in KindsOf("PROXY")
      /\ line.cs \in Clients /\ p \in Parsers("PROXY") /\ e = Parse(p, line).event
  BY <1>1, EventOfLine, ProxyServer
<1>3. m \in Nat
  BY <1>1, LineStep, ProxyServer DEF Daemons
<1>4. LineTrue("PROXY", m + 1) /\ ClientTrue(line.cs) /\ ClientLines(line.cs)
  BY <1>2, ProxyServer DEF LogTrue
<1>5. PICK c \in Clients : c = line.cs /\ c = x.sess /\ c = e.cs
  BY <1>2, ProxyEvent
<1>6. line.cs \in p.bornMap => BornTrue(c, m)
  BY <1>1, <1>5 DEF ParserTrue
<1>7. CASE /\ e.type = (IF line.ok THEN "LOGIN_OK" ELSE "LOGIN_FAIL")
           /\ line.kind = "update_cmd_stats" /\ line.cs \in p.bornMap
  <2>1. audited[c]
    BY <1>6, <1>7 DEF BornTrue
  <2>2. answer[c] = IF line.ok THEN "ok" ELSE "fail"
    BY <1>1, <1>4, <1>5, <1>7 DEF LineTrue
  <2>3. x.ok = line.ok \/ (x.ok <=> line.ok)
    BY <1>7
  <2>4. phase[c] \in {"new", "born"} => answer[c] = "none"
    BY <1>4, <1>5 DEF ClientTrue
  <2>5. OnlyAudited(x)
    BY <1>5, <2>1 DEF OnlyAudited
  <2>6. CASE line.ok
    BY <1>5, <1>7, <2>2, <2>5, <2>6 DEF RowTrue
  <2>7. CASE ~line.ok
    BY <1>5, <1>7, <2>2, <2>4, <2>5, <2>7 DEF RowTrue
  <2>8. QED
    BY <2>6, <2>7
<1>8. CASE /\ e.type = "LOGIN_FAIL" /\ line.kind = "client session do_io_close"
           /\ line.cs \in p.bornMap \/ FailOf(p, line.cs) # {}
  <2>1. phase[c] = "gone" /\ ~x.ok
    BY <1>1, <1>4, <1>5, <1>8 DEF LineTrue
  <2>2. CASE FailOf(p, line.cs) # {}
    <3>1. PICK f \in p.failMap : f.cs = c
      BY <1>5, <2>2 DEF FailOf
    <3>2. PICK i \in 1..m : log["PROXY"][i].sm = c /\ log["PROXY"][i].kind = "error_transfer"
      BY <1>1, <3>1 DEF ParserTrue, FailTrue
    <3>3. i \in Time("PROXY")
      BY <1>2, <1>3 DEF Time
    <3>4. NamedInError(c)
      BY <3>2, <3>3 DEF NamedInError
    <3>5. OnlyAudited(x)
      BY <1>5, <2>1, <3>4 DEF OnlyAudited
    <3>6. QED
      BY <1>5, <2>1, <3>4, <3>5 DEF RowTrue
  <2>3. CASE line.cs \in p.bornMap
    <3>1. audited[c] /\ \E i \in 1..m : IsLine(i, c, Births) /\ \A j \in i..m : ~IsLine(j, c, Answers)
      BY <1>6, <2>3 DEF BornTrue
    <3>2. PICK i \in 1..m : IsLine(i, c, Births) /\ \A j \in i..m : ~IsLine(j, c, Answers)
      BY <3>1
    <3>3. i \in Time("PROXY")
      BY <1>2, <1>3 DEF Time
    <3>4. ASSUME answer[c] = "ok" PROVE BornAgain(c)
      <4>1. ClientLines(c)
        BY <1>4, <1>5
      <4>2. PICK j \in Time("PROXY") : IsLine(j, c, Answers)
        BY <3>4, <4>1 DEF ClientLines
      <4>3. IsLine(m + 1, c, Closes) /\ ~IsLine(m + 1, c, Answers)
        BY <1>1, <1>5, <1>8 DEF IsLine, Closes, Answers
      <4>4. log["PROXY"][j].cs = c
        BY <4>2 DEF IsLine
      <4>5. j <= m + 1
        BY <1>2, <4>1, <4>3, <4>4 DEF ClientLines
      <4>6. j # m + 1 /\ j \in Nat /\ i \in Nat
        BY <3>3, <4>2, <4>3 DEF Time
      <4>7. ~(i <= j)
        <5>1. i <= j => j \in i..m
          BY <1>3, <4>5, <4>6
        <5>2. QED
          BY <3>2, <4>2, <5>1
      <4>8. j < i
        BY <4>6, <4>7
      <4>9. QED
        BY <3>2, <3>3, <4>1, <4>4, <4>8, LaterBirth
    <3>5. OnlyAudited(x)
      BY <1>5, <3>1 DEF OnlyAudited
    <3>6. QED
      BY <1>5, <2>1, <3>4, <3>5 DEF RowTrue
  <2>4. QED
    BY <1>8, <2>2, <2>3
<1>9. \/ /\ e.type = (IF line.ok THEN "LOGIN_OK" ELSE "LOGIN_FAIL")
         /\ line.kind = "update_cmd_stats" /\ line.cs \in p.bornMap
      \/ /\ e.type = "LOGIN_FAIL" /\ line.kind = "client session do_io_close"
         /\ line.cs \in p.bornMap \/ FailOf(p, line.cs) # {}
      \/ e.type = "LOGOFF" /\ line.kind = "COM_QUIT"
  BY <1>2, ProxyEvent
<1>10. e.type # "LOGOFF"
  OBVIOUS
<1>11. QED
  BY <1>7, <1>8, <1>9, <1>10

\* The SERVER row of an event that reports a login.
LEMMA ServerLoginTrue ==
    ASSUME Shape, LogTrue, LineLeft("SERVER"),
           NEW e, e = EventOf("SERVER"), e # NoEvent, e.type \in {"LOGIN_OK", "LOGIN_FAIL"},
           NEW x, x.source = "SERVER", x.sess = e.cs, x.ok = (e.type = "LOGIN_OK")
    PROVE  RowTrue(x)
<1>1. PICK m, line : m = daemon["SERVER"].offset /\ line = log["SERVER"][m + 1]
  OBVIOUS
<1>2. /\ m + 1 \in Time("SERVER") /\ line \in LogLines /\ line.cs \in Clients
      /\ e = ParseObServerLine(line) /\ line.ok \in BOOLEAN
  BY <1>1, EventOfLine, ProxyServer DEF LogLines
<1>3. /\ e.cs = line.cs /\ e.type = (IF line.ok THEN "LOGIN_OK" ELSE "LOGIN_FAIL")
      /\ line.kind = "MySQL LOGIN" /\ line.audited
  BY <1>2, ServerEvent
<1>4. LineTrue("SERVER", m + 1)
  BY <1>2, ProxyServer DEF LogTrue
<1>5. PICK c \in Clients : c = line.cs /\ c = x.sess
  BY <1>2, <1>3
<1>6. audited[c] /\ \E n \in DOMAIN servers[c] : servers[c][n].login /\ servers[c][n].ok = line.ok
  BY <1>1, <1>3, <1>4, <1>5 DEF LineTrue
<1>7. x.ok = line.ok
  BY <1>2, <1>3
<1>8. OnlyAudited(x)
  BY <1>5, <1>6 DEF OnlyAudited
<1>9. QED
  BY <1>5, <1>6, <1>7, <1>8 DEF RowTrue

\* What a row says stays true while clients, servers and logs go on.
LEMMA RowStaysTrue ==
    ASSUME Shape, LogTrue, World, NEW r \in sessions, RowTrue(r)
    PROVE  RowTrue(r)'
<1>1. PICK c \in Clients : c = r.sess
  BY SessClients
<1>2. Stays(c) /\ audited' = audited
  BY ClientsStay
<1>3. PICK b \in BOOLEAN : b = r.ok
  BY SessClients
<1>4. /\ NamedInError(c) => NamedInError(c)'
      /\ BornAgain(c) => BornAgain(c)'
  BY ExcusesStay
<1>5. OnlyAudited(r)'
  BY <1>1, <1>2, <1>4 DEF OnlyAudited, RowTrue, NamedInError
<1>6. r.source = "PROXY" /\ r.ok => answer'[c] = "ok"
  BY <1>1, <1>2 DEF Stays, RowTrue
<1>7. r.source = "PROXY" /\ ~r.ok =>
        \/ answer'[c] # "ok" /\ phase'[c] \notin {"new", "born"}
        \/ Refused(c)' \/ BornAgain(c)' \/ NamedInError(c)'
  BY <1>1, <1>2, <1>4 DEF Stays, RowTrue
<1>8. r.source = "SERVER" =>
        \E n \in DOMAIN servers'[c] : servers'[c][n].login /\ servers'[c][n].ok = b
  BY <1>1, <1>2, <1>3 DEF Stays, RowTrue
<1>9. /\ BornAgain(c)' => BornAgain(r.sess)'
      /\ NamedInError(c)' => NamedInError(r.sess)'
      /\ Refused(c)' => Refused(r.sess)'
  BY <1>1 DEF BornAgain, LinesOf, NamedInError, Refused
<1>10. QED
  BY <1>1, <1>3, <1>5, <1>6, <1>7, <1>8, <1>9 DEF RowTrue

LEMMA RowsTrueNext ==
    ASSUME Shape, LogTrue, ParserTrue, RowsTrue, [Next]_vars
    PROVE  RowsTrue'
<1>1. CASE World
  BY <1>1, ClientsStay, RowStaysTrue DEF RowsTrue
<1>2. ASSUME UNCHANGED <<clients, files>>, \A x \in sessions' : RowTrue(x)
      PROVE  RowsTrue'
  <2>1. UNCHANGED <<audited, phase, answer, servers, log>>
    BY <1>2 DEF clients, files
  <2>2. ASSUME NEW x, RowTrue(x) PROVE RowTrue(x)'
    BY <2>1, <2>2 DEF RowTrue, OnlyAudited, BornAgain, NamedInError, LinesOf, Time, Refused
  <2>3. QED
    BY <1>2, <2>2 DEF RowsTrue
<1>3. ASSUME NEW s \in Sources, ReadLine(s) PROVE RowsTrue'
  <2> DEFINE e == EventOf(s)
             ip == daemon[s].ip \/ FindsIp(s)
  <2>0. LineLeft(s) /\ sessions' = Handle(s, e, ip) /\ UNCHANGED <<clients, files>>
    BY <1>3 DEF ReadLine, LineLeft
  <2>1. PICK b \in BOOLEAN : LineLeft(s) /\ sessions' = Handle(s, e, b) /\ UNCHANGED <<clients, files>>
    <3>1. ip \in BOOLEAN
      OBVIOUS
    <3> HIDE DEF ip, e
    <3>2. QED
      BY <2>0, <3>1
  <2>2. PICK ev : ev = e /\ ev = EventOf(s)
    OBVIOUS
  <2>3. sessions' = Handle(s, ev, b)
    BY <2>1, <2>2
  <2> HIDE DEF e
  <2>4. ASSUME NEW x \in sessions' PROVE RowTrue(x)
    <3>1. \/ x \in sessions
          \/ ev.type \in {"LOGIN_OK", "LOGIN_FAIL"} /\ ev # NoEvent /\ x = Row(s, ev, b)
          \/ \E r \in sessions : x = [r EXCEPT !.closed = TRUE]
      BY <2>1, <2>2, <2>3, RowsAfterLine
    <3>2. CASE x \in sessions
      BY <3>2 DEF RowsTrue
    <3>3. CASE ev.type \in {"LOGIN_OK", "LOGIN_FAIL"} /\ ev # NoEvent /\ x = Row(s, ev, b)
      <4>1. x.source = s /\ x.sess = ev.cs /\ x.ok = (ev.type = "LOGIN_OK")
        BY <3>3 DEF Row
      <4>2. CASE s = "PROXY"
        BY <2>1, <2>2, <3>3, <4>1, <4>2, ProxyLoginTrue
      <4>3. CASE s = "SERVER"
        BY <2>1, <2>2, <3>3, <4>1, <4>3, ServerLoginTrue
      <4>4. QED
        BY <4>2, <4>3 DEF Sources
    <3>4. CASE \E r \in sessions : x = [r EXCEPT !.closed = TRUE]
      <4>1. PICK r \in sessions : x = [r EXCEPT !.closed = TRUE]
        BY <3>4
      <4>2. x.source = r.source /\ x.sess = r.sess /\ x.ok = r.ok
        BY <4>1, SessClients DEF Rows
      <4>3. QED
        BY <4>2 DEF RowsTrue, RowTrue, OnlyAudited
    <3>5. QED
      BY <3>1, <3>2, <3>3, <3>4
  <2>5. QED
    BY <1>2, <2>1, <2>4
<1>4. ASSUME NEW s \in Sources, EndTick(s) PROVE RowsTrue'
  <2>1. sessions' = SyncFailed(sessions) /\ UNCHANGED <<clients, files>>
    BY <1>4 DEF EndTick
  <2>2. ASSUME NEW x \in sessions' PROVE RowTrue(x)
    <3>1. PICK r \in sessions :
            \/ x = r
            \/ /\ r.source = "PROXY"
               /\ \E q \in sessions : q.source = "SERVER" /\ q.sess = r.sess /\ ~q.ok
               /\ x = [r EXCEPT !.closed = TRUE, !.ok = FALSE]
      BY <2>1 DEF SyncFailed
    <3>2. CASE x = r
      BY <3>2 DEF RowsTrue
    <3>3. CASE /\ r.source = "PROXY"
               /\ \E q \in sessions : q.source = "SERVER" /\ q.sess = r.sess /\ ~q.ok
               /\ x = [r EXCEPT !.closed = TRUE, !.ok = FALSE]
      <4>1. x.source = "PROXY" /\ x.sess = r.sess /\ x.ok = FALSE
        BY <3>3, SessClients DEF Rows
      <4>2. PICK q \in sessions : q.source = "SERVER" /\ q.sess = r.sess /\ ~q.ok
        BY <3>3
      <4>3. Refused(r.sess)
        BY <4>2 DEF RowsTrue, RowTrue, Refused
      <4>4. OnlyAudited(r)
        BY DEF RowsTrue, RowTrue
      <4>5. OnlyAudited(x)
        BY <4>1, <4>4 DEF OnlyAudited
      <4>6. QED
        BY <4>1, <4>3, <4>5 DEF RowTrue
    <3>4. QED
      BY <3>1, <3>2, <3>3
  <2>3. QED
    BY <1>2, <2>1, <2>2
<1>5. ASSUME UNCHANGED <<clients, files, sessions>> PROVE RowsTrue'
  BY <1>2, <1>5 DEF RowsTrue
<1>6. ASSUME NEW s \in Sources,
             List(s) \/ Open(s) \/ SaveRecord(s) \/ StatementFails(s) \/ FileFails(s) \/ Crash(s)
      PROVE  RowsTrue'
  BY <1>5, <1>6 DEF List, Open, SaveRecord, StatementFails, LineLeft, FileFails, Crash
<1>7. CASE UNCHANGED vars
  BY <1>5, <1>7 DEF vars
<1>8. QED
  BY <1>1, <1>3, <1>4, <1>6, <1>7 DEF Next, Tick

\* Every success that a row tells of is one, and every failure too unless the
\* client got a second server session or an error_transfer bears its name, its
\* own or that of another; no other row tells of a client that is not audited.
THEOREM OutcomesAreTrue == Spec => []OutcomeTrue
<1>1. Init => Shape /\ LogTrue /\ ParserTrue /\ RowsTrue
  BY ShapeInit, LogTrueInit, ParserTrueInit DEF Init, RowsTrue
<1>2. Shape /\ LogTrue /\ ParserTrue /\ RowsTrue /\ [Next]_vars =>
        Shape' /\ LogTrue' /\ ParserTrue' /\ RowsTrue'
  BY ShapeNext, LogTrueNext, ParserTrueNext, RowsTrueNext
<1>3. Shape /\ RowsTrue => OutcomeTrue
  <2> SUFFICES ASSUME Shape, RowsTrue, NEW r \in sessions
               PROVE  /\ OnlyAudited(r)
                      /\ CASE r.source = "PROXY" /\ r.ok  -> answer[r.sess] = "ok"
                           [] r.source = "PROXY" /\ ~r.ok ->
                                    \/ answer[r.sess] # "ok" \/ Refused(r.sess)
                                    \/ BornAgain(r.sess) \/ NamedInError(r.sess)
                           [] r.source = "SERVER" /\ r.ok ->
                                    \E n \in DOMAIN servers[r.sess] : servers[r.sess][n].ok
                           [] OTHER                       -> Refused(r.sess)
    BY DEF OutcomeTrue, OnlyAudited
  <2>1. RowTrue(r) /\ r.source \in Sources /\ r.ok \in BOOLEAN
    BY SessClients DEF RowsTrue
  <2>2. CASE r.source = "PROXY"
    BY <2>1, <2>2 DEF RowTrue
  <2>3. CASE r.source = "SERVER" /\ r.ok
    BY <2>1, <2>3 DEF RowTrue
  <2>4. CASE r.source = "SERVER" /\ ~r.ok
    BY <2>1, <2>4 DEF RowTrue, Refused
  <2>5. QED
    BY <2>1, <2>2, <2>3, <2>4 DEF Sources
<1>4. QED
  BY <1>1, <1>2, <1>3, PTL DEF Spec

-----------------------------------------------------------------------------
(* What a rotated file brings back.                                        *)

\* A login that is decided and whose birth is remembered is reported, and so
\* is the quit of an audited client.
LEMMA Reported ==
    ASSUME NEW p \in Parsers("PROXY"), NEW line \in LogLines, NEW e, e = Parse(p, line).event
    PROVE  /\ line.kind \in Decisive /\ line.cs \in p.bornMap =>
                e # NoEvent /\ e.type \in {"LOGIN_OK", "LOGIN_FAIL"} /\ e.cs = line.cs
           /\ line.kind \in Quits /\ line.audited =>
                e # NoEvent /\ e.type = "LOGOFF" /\ e.cs = line.cs
<1>1. ASSUME NEW type, NEW time
      PROVE  /\ Event(type, line, time).type = type /\ Event(type, line, time).cs = line.cs
  BY DEF Event
<1>2. NoEvent.type = "none"
  BY DEF NoEvent
<1>3. ASSUME line.kind \in Quits, line.audited
      PROVE  e # NoEvent /\ e.type = "LOGOFF" /\ e.cs = line.cs
  <2>1. line.kind = "COM_QUIT" /\ line.audited
    BY <1>3 DEF Quits
  <2>2. Parse(p, line) = HandleLogoff(p, line)
    BY <2>1 DEF Parse
  <2>3. e = Event("LOGOFF", line, line.time)
    BY <2>1, <2>2 DEF HandleLogoff, Remembered
  <2>4. e.type = "LOGOFF" /\ e.cs = line.cs
    BY <1>1, <2>3
  <2>5. QED
    BY <1>2, <2>4
<1>4. CASE line.kind = "update_cmd_stats"
  BY <1>1, <1>2, <1>3, <1>4 DEF Parse, HandleLoginCmdStats, Remembered
<1>5. CASE line.kind = "client session do_io_close"
  <2> DEFINE fail == FailOf(p, line.cs)
  <2>1. e = CASE fail # {} -> Event("LOGIN_FAIL", line, (CHOOSE f \in fail : TRUE).time)
              [] fail = {} /\ line.cs \in p.bornMap -> Event("LOGIN_FAIL", line, line.time)
              [] OTHER -> NoEvent
    BY <1>5 DEF Parse, HandleDoClose, Remembered
  <2>2. line.cs \in p.bornMap =>
            \/ e = Event("LOGIN_FAIL", line, (CHOOSE f \in fail : TRUE).time)
            \/ e = Event("LOGIN_FAIL", line, line.time)
    BY <2>1
  <2> HIDE DEF fail
  <2>3. line.cs \in p.bornMap => e.type = "LOGIN_FAIL" /\ e.cs = line.cs
    BY <1>1, <2>2
  <2>4. QED
    BY <1>2, <1>3, <2>3
<1>6. QED
  BY <1>3, <1>4, <1>5 DEF Decisive

\* Rows of the proxy stay, and stay closed.
RowsStay ==
    \A r \in sessions : r.source = "PROXY" =>
        \E q \in sessions' : q.source = "PROXY" /\ q.sess = r.sess /\ (r.closed => q.closed)

LEMMA StatementKeepsRows ==
    ASSUME Shape, NEW s, NEW e, NEW ip, sessions' = Handle(s, e, ip)
    PROVE  RowsStay
<1>1. \A r \in sessions : r \in Rows
  BY SessClients
<1>2. CASE e.type \in {"LOGIN_OK", "LOGIN_FAIL"}
  <2>1. sessions \subseteq sessions'
    BY <1>2 DEF Handle, InsertLogin
  <2>2. QED
    BY <2>1 DEF RowsStay
<1>3. CASE e.type = "LOGOFF"
  <2>1. sessions' = UpdateLogoff(sessions, e.cs)
    BY <1>3 DEF Handle
  <2>2. ASSUME NEW r \in sessions, r.source = "PROXY"
        PROVE  \E q \in sessions' : q.source = "PROXY" /\ q.sess = r.sess /\ (r.closed => q.closed)
    <3> DEFINE q == IF r.sess = e.cs /\ ~r.closed THEN [r EXCEPT !.closed = TRUE] ELSE r
    <3>1. q \in sessions'
      BY <2>1 DEF UpdateLogoff
    <3>2. q.source = r.source /\ q.sess = r.sess /\ (r.closed => q.closed)
      BY <1>1 DEF Rows
    <3> HIDE DEF q
    <3>3. QED
      BY <2>2, <3>1, <3>2
  <2>3. QED
    BY <2>2 DEF RowsStay
<1>4. CASE e.type \notin {"LOGIN_OK", "LOGIN_FAIL", "LOGOFF"}
  BY <1>4 DEF Handle, RowsStay
<1>5. QED
  BY <1>2, <1>3, <1>4

LEMMA SyncKeepsRows ==
    ASSUME Shape, sessions' = SyncFailed(sessions)
    PROVE  RowsStay
<1>1. ASSUME NEW r \in sessions, r.source = "PROXY"
      PROVE  \E q \in sessions' : q.source = "PROXY" /\ q.sess = r.sess /\ (r.closed => q.closed)
  <2>1. r \in Rows
    BY SessClients
  <2> DEFINE x == [r EXCEPT !.closed = TRUE, !.ok = FALSE]
  <2>2. x.source = r.source /\ x.sess = r.sess /\ x.closed
    BY <2>1 DEF Rows
  <2>3. r \in sessions' \/ x \in sessions'
    BY DEF SyncFailed
  <2> HIDE DEF x
  <2>4. QED
    BY <1>1, <2>2, <2>3
<1>2. QED
  BY <1>1 DEF RowsStay

\* What was brought back stays.
LEMMA RecoveredStays ==
    ASSUME Shape, NEW k \in 1..Current("PROXY"), NEW m \in Nat, m <= Len(log["PROXY"]),
           Recovered(k, m), RowsStay, audited' = audited, failed \subseteq failed',
           begins'["PROXY"][k] = begins["PROXY"][k],
           \A i \in Time("PROXY") : i \in Time("PROXY")' /\ log'["PROXY"][i] = log["PROXY"][i]
    PROVE  Recovered(k, m)'
<1>1. Read(k, m)' = Read(k, m) /\ \A i \in Read(k, m) : i \in Time("PROXY")
  <2>1. begins["PROXY"][k] \in Nat /\ Len(log["PROXY"]) \in Nat
    BY ShapeParts, ProxyServer
  <2>2. QED
    BY <2>1 DEF Read, Time
<1>2. \A i \in Read(k, m) : \A c, kinds : IsLine(i, c, kinds)' = IsLine(i, c, kinds)
  BY <1>1 DEF IsLine
<1>3. \A c : FreshIn(c, k)' => FreshIn(c, k)
  BY DEF FreshIn
<1>4. ASSUME NEW c \in Clients, audited'[c], FreshIn(c, k)',
             \A i \in Read(k, m) : log'["PROXY"][i].cs = c => <<"PROXY", i>> \notin failed',
             \E i \in Read(k, m) : IsLine(i, c, Decisive)'
      PROVE  \E r \in sessions' : /\ r.source = "PROXY" /\ r.sess = c
                                  /\ (\E i \in Read(k, m) : IsLine(i, c, Quits)') => r.closed
  <2>1. \A i \in Read(k, m) : log["PROXY"][i].cs = c => <<"PROXY", i>> \notin failed
    BY <1>1, <1>4
  <2>2. \E i \in Read(k, m) : IsLine(i, c, Decisive)
    BY <1>2, <1>4
  <2>3. PICK r \in sessions : /\ r.source = "PROXY" /\ r.sess = c
                              /\ (\E i \in Read(k, m) : IsLine(i, c, Quits)) => r.closed
    BY <1>3, <1>4, <2>1, <2>2 DEF Recovered
  <2>4. PICK q \in sessions' : q.source = "PROXY" /\ q.sess = c /\ (r.closed => q.closed)
    BY <2>3 DEF RowsStay
  <2>5. QED
    BY <1>2, <2>3, <2>4
<1>5. QED
  BY <1>1, <1>4 DEF Recovered
\* One line of a rotated file: births are remembered until they are decided,
\* and then there is a row.
LEMMA LineRecovers ==
    ASSUME Shape, LogTrue, ReadLine("PROXY") \/ StatementFails("PROXY"),
           NEW k, k = daemon["PROXY"].file, NEW m, m = daemon["PROXY"].offset,
           Recovered(k, m), BirthKept(k, m)
    PROVE  Recovered(k, m + 1)' /\ BirthKept(k, m + 1)'
<1>1. LineLeft("PROXY")
  BY DEF ReadLine, StatementFails
<1>2. PICK p, line, e, q :
        /\ p = daemon["PROXY"].parser /\ line = log["PROXY"][m + 1]
        /\ e = EventOf("PROXY") /\ q = daemon'["PROXY"].parser
  OBVIOUS
<1>3. /\ log' = log /\ begins' = begins /\ audited' = audited /\ m \in Nat
      /\ m + 1 \in Time("PROXY") /\ k \in 1..Current("PROXY") /\ begins["PROXY"][k] \in Nat
      /\ m + 1 > begins["PROXY"][k] /\ p \in Parsers("PROXY")
  <2>1. daemon["PROXY"] \in Daemons("PROXY")
    BY <1>1, LineStep, ProxyServer
  <2>2. m \in Nat /\ p \in Parsers("PROXY")
    BY <1>2, <2>1 DEF Daemons
  <2>3. QED
    BY <1>1, <2>2, LineStep, ProxyServer
<1>4. line \in LogLines /\ line.kind \in KindsOf("PROXY") /\ line.cs \in Clients
      /\ e = Parse(p, line).event /\ q = Parse(p, line).parser
  <2>1. q = Parsed("PROXY", p, line).parser
    BY <1>1, <1>2, LineStep, ProxyServer
  <2>2. q = Parse(p, line).parser
    BY <2>1 DEF Parsed
  <2>3. QED
    BY <1>1, <1>2, <2>2, EventOfLine, ProxyServer
<1>5. line.audited = audited[line.cs] /\ ClientLines(line.cs)
  BY <1>2, <1>3, <1>4, ProxyServer DEF LogTrue, LineTrue
<1>6. /\ Read(k, m + 1) = Read(k, m) \cup {m + 1} /\ m + 1 \notin Read(k, m)
      /\ Read(k, m + 1)' = Read(k, m + 1)
      /\ \A i \in Read(k, m) : i \in Time("PROXY")
      /\ \A i \in 1..m + 1 : i > begins["PROXY"][k] => i \in Read(k, m + 1)
  <2>1. Len(log["PROXY"]) \in Nat
    BY ShapeParts, ProxyServer
  <2>2. QED
    BY <1>3, <2>1 DEF Read, Time
<1>7. /\ \A i, c, kinds : IsLine(i, c, kinds)' = IsLine(i, c, kinds)
      /\ \A c : FreshIn(c, k)' = FreshIn(c, k)
  BY <1>3 DEF IsLine, FreshIn, Time
<1>8. \A c, kinds : IsLine(m + 1, c, kinds) <=> line.cs = c /\ line.kind \in kinds
  BY <1>2 DEF IsLine
<1>9. ASSUME NEW c \in Clients, audited[c], FreshIn(c, k),
             NEW i \in Read(k, m + 1), IsLine(i, c, Births),
             ~\E j \in Read(k, m + 1) : IsLine(j, c, Decisive)
      PROVE  c \in q.bornMap
  <2>1. ~(line.cs = c /\ line.kind \in Decisive) /\ ~\E j \in Read(k, m) : IsLine(j, c, Decisive)
    BY <1>6, <1>8, <1>9
  <2>2. CASE i \in Read(k, m)
    <3>1. c \in p.bornMap
      BY <1>2, <1>9, <2>1, <2>2 DEF BirthKept
    <3>2. QED
      BY <1>3, <1>4, <2>1, <3>1, ParserAfterLine
  <2>3. CASE i = m + 1
    <3>1. line.cs = c /\ line.kind \in Births /\ line.audited
      BY <1>5, <1>8, <1>9, <2>3
    <3>2. QED
      BY <1>3, <1>4, <3>1, ParserAfterLine
  <2>4. QED
    BY <1>6, <2>2, <2>3
<1>10. BirthKept(k, m + 1)'
  BY <1>2, <1>3, <1>6, <1>7, <1>9 DEF BirthKept
<1>11. RowsStay /\ failed \subseteq failed'
  <2>1. CASE ReadLine("PROXY")
    <3>1. sessions' = Handle("PROXY", EventOf("PROXY"), daemon["PROXY"].ip \/ FindsIp("PROXY"))
          /\ failed' = failed
      BY <2>1 DEF ReadLine
    <3>2. QED
      BY <3>1, StatementKeepsRows
  <2>2. CASE StatementFails("PROXY")
    BY <2>2 DEF StatementFails, RowsStay
  <2>3. QED
    BY <2>1, <2>2
<1>12. ASSUME e # NoEvent, <<"PROXY", m + 1>> \notin failed'
       PROVE  \E ip : sessions' = Handle("PROXY", e, ip)
  <2>1. ~StatementFails("PROXY")
    BY <1>2, <1>12 DEF StatementFails
  <2>2. sessions' = Handle("PROXY", e, daemon["PROXY"].ip \/ FindsIp("PROXY"))
    BY <1>2, <2>1 DEF ReadLine
  <2>3. QED
    BY <2>2
<1>13. ASSUME NEW c \in Clients, audited[c], FreshIn(c, k),
              \A i \in Read(k, m + 1) : log["PROXY"][i].cs = c => <<"PROXY", i>> \notin failed',
              \E i \in Read(k, m + 1) : IsLine(i, c, Decisive)
       PROVE  \E r \in sessions' :
                /\ r.source = "PROXY" /\ r.sess = c
                /\ (\E i \in Read(k, m + 1) : IsLine(i, c, Quits)) => r.closed
  <2>1. CASE \E i \in Read(k, m) : IsLine(i, c, Decisive)
    <3>1. PICK r \in sessions : /\ r.source = "PROXY" /\ r.sess = c
                                /\ (\E i \in Read(k, m) : IsLine(i, c, Quits)) => r.closed
      BY <1>6, <1>11, <1>13, <2>1 DEF Recovered
    <3>2. PICK x \in sessions' : x.source = "PROXY" /\ x.sess = c /\ (r.closed => x.closed)
      BY <1>11, <3>1 DEF RowsStay
    <3>3. CASE ~IsLine(m + 1, c, Quits)
      BY <1>6, <3>1, <3>2, <3>3
    <3>4. CASE IsLine(m + 1, c, Quits)
      <4>1. line.cs = c /\ line.kind \in Quits /\ line.audited
        BY <1>5, <1>8, <1>13, <3>4
      <4>2. e # NoEvent /\ e.type = "LOGOFF" /\ e.cs = c
        BY <1>3, <1>4, <4>1, Reported
      <4>3. <<"PROXY", m + 1>> \notin failed'
        BY <1>2, <1>6, <1>13, <4>1
      <4>4. sessions' = UpdateLogoff(sessions, c)
        BY <1>12, <4>2, <4>3 DEF Handle
      <4>5. x.closed
        <5>1. PICK y \in sessions :
                x = IF y.sess = c /\ ~y.closed THEN [y EXCEPT !.closed = TRUE] ELSE y
          BY <4>4 DEF UpdateLogoff
        <5>2. y \in Rows
          BY SessClients
        <5>3. QED
          BY <3>2, <5>1, <5>2 DEF Rows
      <4>6. QED
        BY <3>2, <4>5
    <3>5. QED
      BY <3>3, <3>4
  <2>2. CASE ~\E i \in Read(k, m) : IsLine(i, c, Decisive)
    <3>1. line.cs = c /\ line.kind \in Decisive
      BY <1>6, <1>8, <1>13, <2>2
    <3>2. ClientLines(c)
      BY <1>5, <3>1
    <3>3. \A j \in 1..m + 1 : log["PROXY"][j].cs = c => j \in Read(k, m + 1)
      <4>1. \A j \in 1..m + 1 : j \in Time("PROXY")
        BY <1>3 DEF Time
      <4>2. QED
        BY <1>6, <1>13, <4>1 DEF FreshIn
    <3>4. PICK j \in 1..m + 1 : IsLine(j, c, Births)
      BY <1>2, <1>3, <3>1, <3>2 DEF ClientLines
    <3>5. j \in Read(k, m)
      <4>1. ~IsLine(m + 1, c, Births)
        BY <1>2, <3>1 DEF IsLine, Births, Decisive
      <4>2. QED
        BY <1>6, <3>3, <3>4, <4>1 DEF IsLine
    <3>6. c \in p.bornMap
      BY <1>2, <1>13, <2>2, <3>4, <3>5 DEF BirthKept
    <3>7. e # NoEvent /\ e.type \in {"LOGIN_OK", "LOGIN_FAIL"} /\ e.cs = c
      BY <1>3, <1>4, <3>1, <3>6, Reported
    <3>8. <<"PROXY", m + 1>> \notin failed'
      BY <1>2, <1>6, <1>13, <3>1
    <3>9. PICK ip : sessions' = InsertLogin(sessions, Row("PROXY", e, ip))
      BY <1>12, <3>7, <3>8 DEF Handle
    <3>10. PICK row : row = Row("PROXY", e, ip) /\ row.source = "PROXY" /\ row.sess = c
      <4> DEFINE row == Row("PROXY", e, ip)
      <4>1. row.source = "PROXY" /\ row.sess = c
        BY <3>7 DEF Row
      <4> HIDE DEF row
      <4>2. QED
        BY <4>1 DEF row
    <3>11. PICK x \in sessions' : x.source = "PROXY" /\ x.sess = c
      BY <3>9, <3>10 DEF InsertLogin, SameSess
    <3>12. ASSUME NEW i \in Read(k, m + 1), IsLine(i, c, Quits) PROVE FALSE
      <4>1. i \in Read(k, m)
        BY <1>2, <1>6, <3>1, <3>12 DEF IsLine, Quits, Decisive
      <4>2. i \in Time("PROXY") /\ log["PROXY"][i].cs = c
        BY <1>6, <3>12, <4>1 DEF IsLine
      <4>3. PICK n \in 1..i : IsLine(n, c, Answers)
        BY <3>2, <3>12, <4>2 DEF ClientLines
      <4>4. n \in 1..m + 1 /\ n # m + 1
        BY <1>3, <4>1 DEF Read
      <4>5. n \in Read(k, m)
        BY <1>6, <3>3, <4>3, <4>4 DEF IsLine
      <4>6. IsLine(n, c, Decisive)
        BY <4>3 DEF IsLine, Answers, Decisive
      <4>7. QED
        BY <2>2, <4>5, <4>6
    <3>13. QED
      BY <3>11, <3>12
  <2>3. QED
    BY <2>1, <2>2
<1>14. Recovered(k, m + 1)'
  BY <1>3, <1>6, <1>7, <1>13 DEF Recovered
<1>15. QED
  BY <1>10, <1>14
\* What every step leaves of rotated files, rows and failed statements.
Grows ==
    /\ RowsStay /\ audited' = audited /\ failed \subseteq failed'
    /\ \A i \in Time("PROXY") : i \in Time("PROXY")' /\ log'["PROXY"][i] = log["PROXY"][i]
    /\ \A k \in 1..Current("PROXY") : /\ begins'["PROXY"][k] = begins["PROXY"][k]
                                      /\ k # Current("PROXY") =>
                                            EndOf("PROXY", k)' = EndOf("PROXY", k)

LEMMA RotatedFiles ==
    ASSUME Shape
    PROVE  /\ \A n \in Names("PROXY") \ {Active} : ~logfiles["PROXY"][n].new =>
                /\ n \in 1..Current("PROXY") /\ n # Current("PROXY")
                /\ EndOf("PROXY", n) \in Nat /\ EndOf("PROXY", n) <= Len(log["PROXY"])
           /\ daemon["PROXY"].at = "read" /\ Listed("PROXY") # Active =>
                LET k == daemon["PROXY"].file
                    m == daemon["PROXY"].offset
                IN  /\ k = Listed("PROXY") /\ k \in 1..Current("PROXY") /\ k # Current("PROXY")
                    /\ m \in Nat /\ m <= Len(log["PROXY"])
<1>1. /\ RecordsInFiles("PROXY") /\ FilesOrdered("PROXY") /\ SourceTypeOK("PROXY")
      /\ TodoListed("PROXY") /\ Current("PROXY") \in Nat
      /\ \A k \in 1..Current("PROXY") : EndOf("PROXY", k) \in Nat
  BY ShapeParts, ProxyServer
<1>2. ASSUME NEW n \in Names("PROXY") \ {Active}, ~logfiles["PROXY"][n].new
      PROVE  /\ n \in 1..Current("PROXY") /\ n # Current("PROXY")
             /\ EndOf("PROXY", n) \in Nat /\ EndOf("PROXY", n) <= Len(log["PROXY"])
  <2>1. n < Current("PROXY") /\ n \in Nat /\ n # 0
    BY <1>1, <1>2 DEF RecordsInFiles, Names, Active
  <2>2. n \in 1..Current("PROXY") /\ n # Current("PROXY")
    BY <1>1, <2>1
  <2>3. QED
    BY <1>1, <2>2 DEF FilesOrdered
<1>3. ASSUME daemon["PROXY"].at = "read", Listed("PROXY") # Active,
             NEW k, k = daemon["PROXY"].file, NEW m, m = daemon["PROXY"].offset
      PROVE  /\ k = Listed("PROXY") /\ k \in 1..Current("PROXY") /\ k # Current("PROXY")
             /\ m \in Nat /\ m <= Len(log["PROXY"])
  <2>1. k = Listed("PROXY") /\ daemon["PROXY"].todo # {}
    BY <1>1, <1>3 DEF TodoListed
  <2>2. k < Current("PROXY") /\ FileNamed("PROXY", k) = k /\ k \in 1..Current("PROXY")
    BY <1>3, <2>1, ListedIn, ProxyServer
  <2>3. m \in 0..Len(log["PROXY"]) /\ Len(log["PROXY"]) \in Nat
    BY <1>1, <1>3, ShapeParts, ProxyServer DEF SourceTypeOK, Daemons
  <2>4. QED
    BY <1>1, <2>1, <2>2, <2>3
<1>4. QED
  BY <1>2, <1>3

\* The rotated files that have a record.
LEMMA RecordsStay ==
    ASSUME Shape, Grows, RotatedRecovered, NEW n \in Names("PROXY") \ {Active},
           ~logfiles["PROXY"][n].new
    PROVE  Recovered(n, EndOf("PROXY", n))'
<1>1. PICK m : m = EndOf("PROXY", n)
  OBVIOUS
<1>2. n \in 1..Current("PROXY") /\ n # Current("PROXY") /\ m \in Nat /\ m <= Len(log["PROXY"])
  BY <1>1, RotatedFiles
<1>3. Recovered(n, m)
  BY <1>1 DEF RotatedRecovered
<1>4. Recovered(n, m)'
  BY <1>2, <1>3, RecoveredStays DEF Grows
<1>5. EndOf("PROXY", n)' = m
  BY <1>1, <1>2 DEF Grows
<1>6. QED
  BY <1>4, <1>5

\* A file that is read, while others take a step.
LEMMA ReadingStays ==
    ASSUME Shape, Grows, RotatedRecovered, daemon'["PROXY"] = daemon["PROXY"],
           daemon["PROXY"].at = "read", Listed("PROXY") # Active
    PROVE  /\ Recovered(daemon["PROXY"].file, daemon["PROXY"].offset)'
           /\ BirthKept(daemon["PROXY"].file, daemon["PROXY"].offset)'
<1>1. PICK k, m, born : /\ k = daemon["PROXY"].file /\ m = daemon["PROXY"].offset
                        /\ born = daemon["PROXY"].parser.bornMap
  OBVIOUS
<1>2. k \in 1..Current("PROXY") /\ m \in Nat /\ m <= Len(log["PROXY"])
  BY <1>1, RotatedFiles
<1>3. Recovered(k, m) /\ BirthKept(k, m)
  BY <1>1 DEF RotatedRecovered
<1>4. Recovered(k, m)'
  BY <1>2, <1>3, RecoveredStays DEF Grows
<1>5. Read(k, m)' = Read(k, m) /\ \A i \in Read(k, m) : i \in Time("PROXY")
  <2>1. begins["PROXY"][k] \in Nat /\ Len(log["PROXY"]) \in Nat
    BY <1>2, ShapeParts, ProxyServer
  <2>2. begins'["PROXY"][k] = begins["PROXY"][k]
    BY <1>2 DEF Grows
  <2>3. QED
    BY <1>2, <2>1, <2>2 DEF Read, Time
<1>6. \A i \in Read(k, m) : \A c, kinds : IsLine(i, c, kinds)' = IsLine(i, c, kinds)
  BY <1>5 DEF IsLine, Grows
<1>7. \A c : FreshIn(c, k)' => FreshIn(c, k)
  BY <1>2 DEF FreshIn, Grows
<1>8. \A c \in Clients :
        (/\ audited'[c] /\ FreshIn(c, k)'
         /\ \E i \in Read(k, m)' : IsLine(i, c, Births)'
         /\ ~\E i \in Read(k, m)' : IsLine(i, c, Decisive)')
        => c \in born
  BY <1>1, <1>3, <1>5, <1>6, <1>7 DEF BirthKept, Grows
<1>9. BirthKept(k, m)'
  BY <1>1, <1>8 DEF BirthKept
<1>10. daemon'["PROXY"].file = k /\ daemon'["PROXY"].offset = m
  BY <1>1
<1>11. QED
  BY <1>4, <1>9, <1>10
LEMMA GrowsNext ==
    ASSUME Shape, [Next]_vars
    PROVE  Grows
<1>1. ASSUME sessions' = sessions PROVE RowsStay
  BY <1>1 DEF RowsStay
<1>2. CASE World
  <2>1. TypeOK /\ Len(log["PROXY"]) \in Nat
    BY ShapeParts, ProxyServer DEF Shape
  <2>2. /\ audited' = audited /\ sessions' = sessions /\ failed' = failed
        /\ Len(log'["PROXY"]) \in {Len(log["PROXY"]), Len(log["PROXY"]) + 1}
        /\ \A i \in Time("PROXY") : log'["PROXY"][i] = log["PROXY"][i]
        /\ \A k \in 1..Current("PROXY") : begins'["PROXY"][k] = begins["PROXY"][k]
    BY <1>2, <2>1, WorldGrows, ProxyServer
  <2>3. \A i \in Time("PROXY") : i \in Time("PROXY")'
    BY <2>1, <2>2 DEF Time
  <2>4. \A k \in 1..Current("PROXY") :
            k # Current("PROXY") => EndOf("PROXY", k)' = EndOf("PROXY", k)
    BY <1>2, <2>1, EndsGrow, ProxyServer
  <2>5. QED
    BY <1>1, <2>2, <2>3, <2>4 DEF Grows
<1>3. ASSUME UNCHANGED <<clients, files>>, RowsStay, failed \subseteq failed' PROVE Grows
  <2>1. audited' = audited /\ log' = log /\ begins' = begins
    BY <1>3 DEF clients, files
  <2>2. \A k : EndOf("PROXY", k)' = EndOf("PROXY", k)
    BY <2>1 DEF EndOf, Current
  <2>3. QED
    BY <1>3, <2>1, <2>2 DEF Grows, Time
<1>4. ASSUME NEW s \in Sources, ReadLine(s) PROVE Grows
  <2>1. PICK ip : ip = (daemon[s].ip \/ FindsIp(s))
    OBVIOUS
  <2>2. /\ sessions' = Handle(s, EventOf(s), ip) /\ failed' = failed
        /\ UNCHANGED <<clients, files>>
    BY <1>4, <2>1 DEF ReadLine, LineLeft
  <2>3. QED
    BY <1>3, <2>2, StatementKeepsRows
<1>5. ASSUME NEW s \in Sources, EndTick(s) PROVE Grows
  BY <1>3, <1>5, SyncKeepsRows DEF EndTick
<1>6. ASSUME NEW s \in Sources,
             List(s) \/ Open(s) \/ SaveRecord(s) \/ StatementFails(s) \/ FileFails(s) \/ Crash(s)
      PROVE  Grows
  <2>1. sessions' = sessions /\ failed \subseteq failed' /\ UNCHANGED <<clients, files>>
    BY <1>6 DEF List, Open, SaveRecord, StatementFails, LineLeft, FileFails, Crash
  <2>2. QED
    BY <1>1, <1>3, <2>1
<1>7. CASE UNCHANGED vars
  BY <1>1, <1>3, <1>7 DEF vars
<1>8. QED
  BY <1>2, <1>4, <1>5, <1>6, <1>7 DEF Next, Tick

LEMMA RotatedRecoveredNext ==
    ASSUME Shape, LogTrue, RotatedRecovered, [Next]_vars
    PROVE  RotatedRecovered'
<1> DEFINE d == daemon["PROXY"]
           r == logfiles["PROXY"]
           Reading == d.at = "read" /\ Listed("PROXY") # Active
<1>1. Grows /\ DOMAIN daemon = Sources /\ DOMAIN logfiles = Sources
      /\ daemon["PROXY"] \in Daemons("PROXY") /\ r \in [Names("PROXY") -> Records("PROXY")]
  BY GrowsNext, ShapeParts, ProxyServer DEF SourceTypeOK
\* Nothing new is recorded of rotated files.
<1>2. ASSUME \A n \in Names("PROXY") \ {Active} : r'[n].new = r[n].new,
             Reading' => Recovered(d.file, d.offset)' /\ BirthKept(d.file, d.offset)'
      PROVE  RotatedRecovered'
  <2>1. ASSUME NEW n \in Names("PROXY") \ {Active}, ~r'[n].new
        PROVE  Recovered(n, EndOf("PROXY", n))'
    BY <1>1, <1>2, <2>1, RecordsStay
  <2>2. Names("PROXY")' = Names("PROXY") /\ Active' = Active
    BY DEF Names, Active
  <2>3. QED
    BY <1>2, <2>1, <2>2 DEF RotatedRecovered
\* Others take a step.
<1>3. ASSUME d' = d, r' = r PROVE RotatedRecovered'
  <2>1. Listed("PROXY")' = Listed("PROXY")
    BY <1>3 DEF Listed
  <2>2. Reading' => Recovered(d.file, d.offset)' /\ BirthKept(d.file, d.offset)'
    BY <1>1, <1>3, <2>1, ReadingStays
  <2>3. QED
    BY <1>2, <1>3, <2>2
<1>4. CASE World
  BY <1>3, <1>4, WorldGrows DEF Shape
<1>5. ASSUME NEW s \in Sources, s # "PROXY", Tick(s) \/ StatementFails(s) \/ FileFails(s) \/ Crash(s)
      PROVE  RotatedRecovered'
  <2>1. CASE LineLeft(s)
    <3>1. d' = d /\ r' = r
      BY <1>5, <2>1, LineStep, LineRecords, ProxyServer
    <3>2. QED
      BY <1>3, <3>1
  <2>2. CASE List(s) \/ Open(s) \/ SaveRecord(s) \/ EndTick(s) \/ FileFails(s) \/ Crash(s)
    <3>1. d' = d /\ r' = r
      BY <1>1, <1>5, <2>2, ProxyServer DEF List, Open, SaveRecord, EndTick, FileFails, Crash
    <3>2. QED
      BY <1>3, <3>1
  <2>3. QED
    BY <1>5, <2>1, <2>2 DEF Tick, ReadLine, StatementFails
\* No file is being read.
<1>6. CASE List("PROXY") \/ EndTick("PROXY") \/ FileFails("PROXY") \/ Crash("PROXY")
  <2>1. logfiles' = logfiles
    BY <1>6 DEF List, EndTick, FileFails, Crash
  <2>2. Idle.at = "idle" /\ NextFile("PROXY").at = "next"
    BY DEF Idle, NextFile
  <2>3. d'.at # "read"
    <3>1. CASE List("PROXY")
      BY <1>1, <3>1, ProxyServer DEF List, Daemons
    <3>2. CASE EndTick("PROXY") \/ FileFails("PROXY") \/ Crash("PROXY")
      BY <1>1, <2>2, <3>2, ProxyServer DEF EndTick, FileFails, Crash
    <3>3. QED
      BY <1>6, <3>1, <3>2
  <2>4. QED
    BY <1>2, <2>1, <2>3
\* A rotated file is read from its begin.
<1>7. CASE Open("PROXY")
  <2>1. logfiles' = logfiles /\ log' = log /\ begins' = begins /\ daemon["PROXY"].todo # {}
    BY <1>7 DEF Open, files
  <2>2. ASSUME Reading' PROVE Recovered(d.file, d.offset)' /\ BirthKept(d.file, d.offset)'
    <3>1. PICK k, m : k = d'.file /\ m = d'.offset
      OBVIOUS
    <3>2. Listed("PROXY") # Active /\ k = Listed("PROXY") /\ k \in 1..Current("PROXY")
          /\ k = FileNamed("PROXY", Listed("PROXY")) /\ r[k].new /\ r[k].file # k
      <4>1. Listed("PROXY")' = Listed("PROXY") /\ k = FileNamed("PROXY", Listed("PROXY"))
        BY <1>7, <3>1, OpenAt, ProxyServer
      <4>2. Listed("PROXY") # Active
        BY <2>2, <4>1 DEF Active
      <4>3. k = Listed("PROXY") /\ k \in 1..Current("PROXY") /\ r[k].new /\ k \in Names("PROXY")
        BY <2>1, <4>1, <4>2, ListedIn, ProxyServer
      <4>4. r[k].file = 0
        BY <4>3, ShapeParts, ProxyServer DEF RecordsInFiles
      <4>5. QED
        BY <4>1, <4>2, <4>3, <4>4 DEF Active
    <3>3. m = begins["PROXY"][k] /\ begins["PROXY"][k] \in Nat
      <4>1. d'.offset = IF r[k].file = k THEN r[k].offset ELSE begins["PROXY"][k]
        BY <1>7, <3>2, OpenAt, ProxyServer
      <4>2. QED
        BY <3>1, <3>2, <4>1, ShapeParts, ProxyServer
    <3>4. Read(k, m)' = {}
      BY <2>1, <3>3 DEF Read
    <3>5. Recovered(k, m)' /\ BirthKept(k, m)'
      BY <3>4 DEF Recovered, BirthKept
    <3>6. QED
      BY <3>1, <3>5
  <2>3. QED
    BY <1>2, <2>1, <2>2
<1>8. CASE ReadLine("PROXY") \/ StatementFails("PROXY")
  <2>1. LineLeft("PROXY")
    BY <1>8 DEF ReadLine, StatementFails
  <2>2. /\ \A n \in Names("PROXY") \ {Active} : r'[n].new = r[n].new
        /\ Listed("PROXY")' = Listed("PROXY") /\ d.at = "read"
        /\ d'.file = d.file /\ d'.offset = d.offset + 1
    BY <2>1, LineStep, LineRecords, ProxyServer
  <2>3. ASSUME Reading' PROVE Recovered(d.file, d.offset)' /\ BirthKept(d.file, d.offset)'
    <3>1. PICK k, m : k = d.file /\ m = d.offset
      OBVIOUS
    <3>2. Listed("PROXY") # Active
      BY <2>2, <2>3 DEF Active
    <3>3. Recovered(k, m) /\ BirthKept(k, m)
      BY <2>2, <3>1, <3>2 DEF RotatedRecovered
    <3>4. Recovered(k, m + 1)' /\ BirthKept(k, m + 1)'
      BY <1>8, <3>1, <3>3, LineRecovers
    <3>5. QED
      BY <2>2, <3>1, <3>4
  <2>4. QED
    BY <1>2, <2>2, <2>3
\* What was brought back is recorded.
<1>9. CASE SaveRecord("PROXY")
  <2>1. /\ d.at = "read" /\ d.offset = EndOf("PROXY", d.file)
        /\ UNCHANGED <<clients, files, sessions, failed, faults>>
        /\ \A n \in Names("PROXY") : n # Listed("PROXY") => r'[n] = r[n]
    BY <1>1, <1>9, ProxyServer DEF SaveRecord
  <2>2. d'.at = "next"
    BY <1>1, <1>9, ProxyServer DEF SaveRecord, NextFile, Idle
  <2>3. ASSUME NEW n \in Names("PROXY") \ {Active}, ~r'[n].new
        PROVE  Recovered(n, EndOf("PROXY", n))'
    <3>1. CASE n # Listed("PROXY")
      BY <1>1, <2>1, <2>3, <3>1, RecordsStay
    <3>2. CASE n = Listed("PROXY")
      <4>1. PICK m : m = d.offset
        OBVIOUS
      <4>2. n = d.file /\ n \in 1..Current("PROXY") /\ n # Current("PROXY")
            /\ m \in Nat /\ m <= Len(log["PROXY"])
        BY <2>1, <2>3, <3>2, <4>1, RotatedFiles
      <4>3. Recovered(n, m)
        BY <2>1, <2>3, <3>2, <4>1, <4>2 DEF RotatedRecovered
      <4>4. Recovered(n, m)'
        BY <1>1, <4>2, <4>3, RecoveredStays DEF Grows
      <4>5. EndOf("PROXY", n)' = m
        BY <1>1, <2>1, <4>1, <4>2 DEF Grows
      <4>6. QED
        BY <4>4, <4>5
    <3>3. QED
      BY <3>1, <3>2
  <2>4. Names("PROXY")' = Names("PROXY") /\ Active' = Active
    BY DEF Names, Active
  <2>5. QED
    BY <2>2, <2>3, <2>4 DEF RotatedRecovered
<1>10. CASE UNCHANGED vars
  BY <1>3, <1>10 DEF vars
<1>11. QED
  BY <1>4, <1>5, <1>6, <1>7, <1>8, <1>9, <1>10 DEF Next, Tick

\* Whatever fails or crashes, a rotated file that was read brings back every
\* login that lies in it and whose statements did not fail.
THEOREM RotationRecovers == Spec => []RecoveredByRotation
<1>1. Init => Shape /\ LogTrue /\ RotatedRecovered
  <2>1. ASSUME Init PROVE RotatedRecovered
    <3>1. \A n \in Names("PROXY") : logfiles["PROXY"][n].new
      BY <2>1, ProxyServer DEF Init, NoRecord
    <3>2. daemon["PROXY"].at = "idle"
      BY <2>1, ProxyServer DEF Init, Idle
    <3>3. QED
      BY <3>1, <3>2 DEF RotatedRecovered
  <2>2. QED
    BY <2>1, ShapeInit, LogTrueInit
<1>2. Shape /\ LogTrue /\ RotatedRecovered /\ [Next]_vars =>
        Shape' /\ LogTrue' /\ RotatedRecovered'
  BY ShapeNext, LogTrueNext, RotatedRecoveredNext
<1>3. Shape /\ LogTrue /\ RotatedRecovered => RecoveredByRotation
  <2> SUFFICES ASSUME Shape, LogTrue, RotatedRecovered,
                      NEW c \in Clients, NEW k \in 1..Current("PROXY") - 1,
                      audited[c], LoginLogged(c), ~logfiles["PROXY"][k].new,
                      \A i \in Time("PROXY") : log["PROXY"][i].cs = c =>
                        /\ i \in (begins["PROXY"][k] + 1)..EndOf("PROXY", k)
                        /\ <<"PROXY", i>> \notin failed
               PROVE  \E r \in sessions :
                        /\ r.source = "PROXY" /\ r.sess = c
                        /\ LinesOf("PROXY", c, {"COM_QUIT"}) # {} => r.closed
    BY DEF RecoveredByRotation
  <2>1. Current("PROXY") \in 1..MaxFiles["PROXY"] /\ MaxFiles["PROXY"] \in Nat
    BY ShapeParts, ProxyServer
  <2>2. k \in Names("PROXY") \ {Active} /\ k \in 1..Current("PROXY")
    BY <2>1 DEF Names, Active
  <2>3. PICK m : m = EndOf("PROXY", k) /\ Recovered(k, m) /\ m \in Nat /\ m <= Len(log["PROXY"])
    BY <2>2, RotatedFiles DEF RotatedRecovered
  <2>4. begins["PROXY"][k] \in Nat /\ Len(log["PROXY"]) \in Nat
    BY <2>2, ShapeParts, ProxyServer
  <2>5. \A i \in Time("PROXY") : log["PROXY"][i].cs = c => i \in Read(k, m)
    BY <2>3 DEF Read
  <2>6. \A i \in Read(k, m) : i \in Time("PROXY")
    BY <2>3, <2>4 DEF Read, Time
  <2>7. FreshIn(c, k)
    BY <2>4, <2>5 DEF Read, FreshIn
  <2>8. \E i \in Read(k, m) : IsLine(i, c, Decisive)
    <3>1. CASE phase[c] = "gone"
      <4>1. PICK i \in Time("PROXY") : IsLine(i, c, Closes)
        BY <3>1 DEF LogTrue, ClientLines
      <4>2. QED
        BY <2>5, <4>1 DEF IsLine, Closes, Decisive
    <3>2. CASE LinesOf("PROXY", c, {"update_cmd_stats"}) # {}
      BY <2>5, <3>2 DEF LinesOf, IsLine, Decisive
    <3>3. QED
      BY <3>1, <3>2 DEF LoginLogged
  <2>9. PICK r \in sessions : /\ r.source = "PROXY" /\ r.sess = c
                              /\ (\E i \in Read(k, m) : IsLine(i, c, Quits)) => r.closed
    BY <2>3, <2>6, <2>7, <2>8 DEF Recovered
  <2>10. LinesOf("PROXY", c, {"COM_QUIT"}) # {} => \E i \in Read(k, m) : IsLine(i, c, Quits)
    BY <2>5 DEF LinesOf, IsLine, Quits
  <2>11. QED
    BY <2>9, <2>10
<1>4. QED
  BY <1>1, <1>2, <1>3, PTL DEF Spec

-----------------------------------------------------------------------------
(* One row for each login.                                                 *)

\* A client is answered once.
AnsweredOnce ==
    \A i, j \in Time("PROXY") :
        /\ log["PROXY"][i].kind = "update_cmd_stats" /\ log["PROXY"][j].kind = "update_cmd_stats"
        /\ log["PROXY"][i].cs = log["PROXY"][j].cs
        => i = j

\* The address is known before a login can be reported.
IpKnown ==
    /\ daemon["PROXY"].parser.bornMap # {} => daemon["PROXY"].ip
    /\ daemon["SERVER"].at = "read" => daemon["SERVER"].ip

\* A client that the parser cannot confuse.
Plain(c) == ~BornAgain(c) /\ ~NamedInError(c)

\* The address of a row is known, and a PROXY row of a plain client comes from
\* its answer, or from its close if it was never answered.
RowPlaced(r) ==
    r.source = "SERVER" \/ Plain(r.sess) =>
        /\ r.ip /\ r.login \in Time(r.source)
        /\ r.source = "PROXY" =>
            \/ IsLine(r.login, r.sess, Answers)
            \/ /\ IsLine(r.login, r.sess, Closes)
               /\ \A j \in Time("PROXY") : ~IsLine(j, r.sess, Answers)

RowsPlaced == \A r \in sessions : RowPlaced(r)

\* uk_sess.
KeysUnique == \A r, q \in sessions : SameSess(r, q) => r = q

LEMMA AnsweredOnceNext ==
    ASSUME Shape, LogTrue, AnsweredOnce, [Next]_vars
    PROVE  AnsweredOnce'
<1>1. ClientsTyped /\ TypeOK
  BY DEF Shape, TypeOK, ClientsTyped, ServerSessions
<1>2. ASSUME NEW e \in Clients, NEW kind \in KindsOf("PROXY"), NEW ok \in BOOLEAN,
             ProxyStep(e, kind, ok)
      PROVE  AnsweredOnce'
  <2>1. PICK k : k = Len(log["PROXY"]) + 1
    OBVIOUS
  <2>2. Write("PROXY", kind, e, ok)
        /\ (kind = "update_cmd_stats" => answer[e] = "none")
    BY <1>2 DEF ProxyStep, Answers
  <2>3. /\ log'["PROXY"][k].kind = kind /\ log'["PROXY"][k].cs = e
        /\ \A i \in Time("PROXY")' : i \in Time("PROXY") \/ i = k
        /\ \A i \in Time("PROXY") : log'["PROXY"][i] = log["PROXY"][i]
    BY <1>1, <2>1, <2>2, NewLine, ProxyServer
  <2>4. ASSUME kind = "update_cmd_stats", NEW i \in Time("PROXY"),
               log["PROXY"][i].kind = "update_cmd_stats", log["PROXY"][i].cs = e
        PROVE  FALSE
    <3>1. LineTrue("PROXY", i)
      BY ProxyServer DEF LogTrue
    <3>2. answer[e] \in {"ok", "fail"}
      BY <2>4, <3>1 DEF LineTrue
    <3>3. QED
      BY <2>2, <2>4, <3>2
  <2>5. ASSUME NEW i \in Time("PROXY")', NEW j \in Time("PROXY")',
               log'["PROXY"][i].kind = "update_cmd_stats",
               log'["PROXY"][j].kind = "update_cmd_stats",
               log'["PROXY"][i].cs = log'["PROXY"][j].cs
        PROVE  i = j
    <3>1. CASE i \in Time("PROXY") /\ j \in Time("PROXY")
      BY <2>3, <2>5, <3>1 DEF AnsweredOnce
    <3>2. CASE i \in Time("PROXY") /\ j = k
      BY <2>3, <2>4, <2>5, <3>2
    <3>3. CASE i = k /\ j \in Time("PROXY")
      BY <2>3, <2>4, <2>5, <3>3
    <3>4. QED
      BY <2>3, <3>1, <3>2, <3>3
  <2>6. QED
    BY <2>5 DEF AnsweredOnce
<1>3. ASSUME NEW e \in Clients, NEW kind \in KindsOf("SERVER"), NEW ok \in BOOLEAN,
             ServerStep(e, kind, ok)
      PROVE  AnsweredOnce'
  <2>1. Write("SERVER", kind, e, ok)
    BY <1>3 DEF ServerStep
  <2>2. log'["PROXY"] = log["PROXY"] /\ Time("PROXY")' = Time("PROXY")
    <3>1. PICK k : k = Len(log["SERVER"]) + 1
      OBVIOUS
    <3>2. QED
      BY <1>1, <2>1, <3>1, NewLine, ProxyServer
  <2>3. QED
    BY <2>2 DEF AnsweredOnce
<1>4. ASSUME log' = log PROVE AnsweredOnce'
  BY <1>4 DEF AnsweredOnce, Time
<1>5. ASSUME NEW e \in Clients, ClientStep(e) PROVE AnsweredOnce'
  <2>1. LogStep(e)
    BY <1>1, <1>5, ClientStepEffect DEF LogTrue
  <2>2. QED
    BY <1>2, <1>3, <2>1 DEF LogStep
<1>6. ASSUME NEW s \in Sources,
             Rotate(s) \/ Tick(s) \/ StatementFails(s) \/ FileFails(s) \/ Crash(s)
      PROVE  AnsweredOnce'
  <2>1. log' = log
    BY <1>6 DEF Rotate, Tick, List, Open, ReadLine, StatementFails, LineLeft, SaveRecord,
                FileFails, EndTick, Crash, files
  <2>2. QED
    BY <1>4, <2>1
<1>7. CASE UNCHANGED vars
  BY <1>4, <1>7 DEF vars, files
<1>8. QED
  BY <1>5, <1>6, <1>7 DEF Next, World, ClientStep
LEMMA LineIp ==
    ASSUME Shape, NEW s \in Sources, LineLeft(s)
    PROVE  daemon'[s].ip = (daemon[s].ip \/ FindsIp(s))
<1>1. /\ DOMAIN daemon = Sources /\ daemon[s] \in Daemons(s)
  BY LineStep, ShapeParts
<1> DEFINE ip == daemon[s].ip \/ FindsIp(s)
           o == daemon[s].offset + 1
           q == Parsed(s, daemon[s].parser, NextLine(s)).parser
<1>2. daemon'[s] = [daemon[s] EXCEPT !.offset = o, !.ip = ip, !.parser = q]
  BY <1>1 DEF LineLeft
<1> HIDE DEF ip, o, q
<1>3. daemon'[s].ip = ip
  BY <1>1, <1>2 DEF Daemons
<1>4. QED
  BY <1>3 DEF ip

LEMMA OpenIp ==
    ASSUME Shape, Open("SERVER")
    PROVE  daemon'["SERVER"].ip
<1>1. DOMAIN daemon = Sources /\ daemon["SERVER"] \in Daemons("SERVER")
  BY ShapeParts, ProxyServer DEF SourceTypeOK
<1> DEFINE k == FileNamed("SERVER", Listed("SERVER"))
           r == logfiles["SERVER"][Listed("SERVER")]
           o == IF r.file = k THEN r.offset ELSE begins["SERVER"][k]
<1>2. daemon'["SERVER"] = [daemon["SERVER"] EXCEPT !.at = "read", !.file = k, !.offset = o,
                                                   !.ip = r.ip \/ "SERVER" = "SERVER"]
  BY <1>1, ProxyServer DEF Open
<1> HIDE DEF k, o, r
<1>3. QED
  BY <1>1, <1>2 DEF Daemons

\* A birth that is remembered was read when the address was known or found.
LEMMA IpKnownNext ==
    ASSUME Shape, ParserTrue, IpKnown, [Next]_vars
    PROVE  IpKnown'
<1>1. /\ DOMAIN daemon = Sources
      /\ \A s \in Sources : daemon[s] \in Daemons(s)
  BY ShapeParts, ProxyServer DEF SourceTypeOK
<1>2. NewParser.bornMap = {}
  BY DEF NewParser
<1>3. ASSUME daemon' = daemon PROVE IpKnown'
  BY <1>3 DEF IpKnown
<1>4. CASE World \/ UNCHANGED vars
  BY <1>3, <1>4, WorldGrows DEF vars, Shape
<1>5. ASSUME NEW s \in Sources, List(s) PROVE IpKnown'
  <2>1. daemon' = [daemon EXCEPT ![s].at = "next",
                                 ![s].todo = {name \in 0..Current(s) - 1 : HasNews(s, name)}]
    BY <1>5 DEF List
  <2>2. \A t \in Sources : daemon'[t].ip = daemon[t].ip /\ daemon'[t].parser = daemon[t].parser
                           /\ (daemon'[t].at = daemon[t].at \/ daemon'[t].at # "read")
    BY <1>1, <2>1 DEF Daemons
  <2>3. QED
    BY <2>2, ProxyServer DEF IpKnown
<1>6. ASSUME NEW s \in Sources, Open(s) PROVE IpKnown'
  <2>1. daemon'[s].parser = daemon[s].parser /\ \A t \in Sources \ {s} : daemon'[t] = daemon[t]
    BY <1>6, OpenAt
  <2>2. CASE s = "PROXY"
    <3>1. daemon["PROXY"].parser = NewParser
      BY <1>6, <2>2 DEF Open, ParserTrue
    <3>2. daemon'["SERVER"] = daemon["SERVER"]
      BY <2>1, <2>2, ProxyServer
    <3>3. QED
      BY <1>2, <2>1, <2>2, <3>1, <3>2 DEF IpKnown
  <2>3. CASE s = "SERVER"
    <3>1. daemon'["PROXY"] = daemon["PROXY"]
      BY <2>1, <2>3, ProxyServer
    <3>2. QED
      BY <1>6, <2>3, <3>1, OpenIp DEF IpKnown
  <2>4. QED
    BY <2>2, <2>3 DEF Sources
<1>7. ASSUME NEW s \in Sources, LineLeft(s) PROVE IpKnown'
  <2>1. /\ daemon[s].at = "read" /\ \A t \in Sources \ {s} : daemon'[t] = daemon[t]
        /\ daemon'[s].ip = (daemon[s].ip \/ FindsIp(s))
    BY <1>7, LineStep, LineIp
  <2>2. CASE s = "PROXY"
    <3>1. PICK p, q, line :
            p = daemon["PROXY"].parser /\ line = NextLine("PROXY") /\ q = Parse(p, line).parser
      OBVIOUS
    <3>2. line = log["PROXY"][daemon["PROXY"].offset + 1]
      BY <3>1 DEF NextLine
    <3>3. line \in LogLines /\ line.kind \in KindsOf("PROXY") /\ p \in Parsers("PROXY")
      BY <1>7, <2>2, <3>1, <3>2, EventOfLine
    <3>4. daemon'["PROXY"].parser = q
      BY <1>7, <2>2, <3>1, <3>2, LineStep DEF Parsed
    <3>5. \A c \in q.bornMap : c \in p.bornMap \/ line.kind \in Births
      BY <3>1, <3>3, ParserAfterLine
    <3>6. line.kind \in Births => daemon["PROXY"].ip \/ FindsIp("PROXY")
      BY <3>1 DEF FindsIp, Births
    <3>7. q.bornMap # {} => daemon["PROXY"].ip \/ FindsIp("PROXY")
      BY <3>1, <3>5, <3>6 DEF IpKnown
    <3>8. daemon'["SERVER"] = daemon["SERVER"]
      BY <2>1, <2>2, ProxyServer
    <3>9. QED
      BY <2>1, <2>2, <3>4, <3>7, <3>8 DEF IpKnown
  <2>3. CASE s = "SERVER"
    <3>1. daemon'["PROXY"] = daemon["PROXY"]
      BY <2>1, <2>3, ProxyServer
    <3>2. daemon["SERVER"].ip
      BY <2>1, <2>3 DEF IpKnown
    <3>3. QED
      BY <2>1, <2>3, <3>1, <3>2 DEF IpKnown
  <2>4. QED
    BY <2>2, <2>3 DEF Sources
<1>8. ASSUME NEW s \in Sources, SaveRecord(s) \/ FileFails(s) \/ EndTick(s) \/ Crash(s)
      PROVE  IpKnown'
  <2>1. daemon' = [daemon EXCEPT ![s] = NextFile(s)] \/ daemon' = [daemon EXCEPT ![s] = Idle]
    BY <1>8 DEF SaveRecord, FileFails, EndTick, Crash
  <2>2. /\ NextFile(s).parser = NewParser /\ NextFile(s).at # "read"
        /\ Idle.parser = NewParser /\ Idle.at # "read"
    BY DEF NextFile, Idle
  <2>3. /\ daemon'[s].parser = NewParser /\ daemon'[s].at # "read"
        /\ \A t \in Sources \ {s} : daemon'[t] = daemon[t]
    BY <1>1, <2>1, <2>2
  <2>4. CASE s = "PROXY"
    <3>1. daemon'["SERVER"] = daemon["SERVER"]
      BY <2>3, <2>4, ProxyServer
    <3>2. QED
      BY <1>2, <2>3, <2>4, <3>1 DEF IpKnown
  <2>5. CASE s = "SERVER"
    <3>1. daemon'["PROXY"] = daemon["PROXY"]
      BY <2>3, <2>5, ProxyServer
    <3>2. QED
      BY <2>3, <2>5, <3>1 DEF IpKnown
  <2>6. QED
    BY <2>4, <2>5 DEF Sources
<1>9. QED
  BY <1>4, <1>5, <1>6, <1>7, <1>8 DEF Next, Tick, ReadLine, StatementFails
\* A login is reported by its answer, or by its close if none came.
LEMMA ProxyLoginEvent ==
    ASSUME NEW p \in Parsers("PROXY"), NEW line \in LogLines, line.kind \in KindsOf("PROXY"),
           FailOf(p, line.cs) = {}, NEW e, e = Parse(p, line).event,
           e.type \in {"LOGIN_OK", "LOGIN_FAIL"}
    PROVE  /\ e.cs = line.cs /\ e.time = line.time /\ line.cs \in p.bornMap
           /\ line.kind \in Answers \/ line.kind \in Closes
<1>1. CASE line.kind = "server session born" \/ line.kind = "error_transfer"
  BY <1>1 DEF Parse, Remembered, NoEvent
<1>2. CASE line.kind = "update_cmd_stats"
  BY <1>2 DEF Parse, HandleLoginCmdStats, Remembered, Event, NoEvent, Answers
<1>3. CASE line.kind = "client session do_io_close"
  <2>1. e = (IF line.cs \in p.bornMap THEN Event("LOGIN_FAIL", line, line.time) ELSE NoEvent)
    BY <1>3 DEF Parse, HandleDoClose, Remembered
  <2>2. line.cs \in p.bornMap /\ e = Event("LOGIN_FAIL", line, line.time)
    BY <2>1 DEF NoEvent
  <2>3. e.cs = line.cs /\ e.time = line.time
    BY <2>2 DEF Event
  <2>4. line.kind \in Closes
    BY <1>3 DEF Closes
  <2>5. QED
    BY <2>2, <2>3, <2>4
<1>4. CASE line.kind = "COM_QUIT"
  BY <1>4 DEF Parse, HandleLogoff, Remembered, Event, NoEvent
<1>5. QED
  BY <1>1, <1>2, <1>3, <1>4, KindsOfLogs

\* The close of a client whose birth is remembered: no answer came before it,
\* and none comes after it.
LEMMA NeverAnswered ==
    ASSUME Shape, NEW c \in Clients, ~BornAgain(c), ClientLines(c), NEW m \in Nat,
           m + 1 \in Time("PROXY"), BornTrue(c, m), IsLine(m + 1, c, Closes)
    PROVE  \A j \in Time("PROXY") : ~IsLine(j, c, Answers)
<1> SUFFICES ASSUME NEW j \in Time("PROXY"), IsLine(j, c, Answers)
             PROVE  FALSE
  OBVIOUS
<1>1. PICK i \in 1..m : IsLine(i, c, Births) /\ \A n \in i..m : ~IsLine(n, c, Answers)
  BY DEF BornTrue
<1>2. log["PROXY"][j].cs = c /\ ~IsLine(m + 1, c, Answers) /\ j \in Nat
  <2>1. j \in Nat
    BY DEF Time
  <2>2. log["PROXY"][j].cs = c /\ ~IsLine(m + 1, c, Answers)
    BY DEF IsLine, Closes, Answers
  <2>3. QED
    BY <2>1, <2>2
<1>3. i \in Time("PROXY")
  BY ShapeParts, ProxyServer DEF Time
<1>4. i <= j /\ j <= m + 1
  <2>1. ~(j < i)
    BY <1>1, <1>2, <1>3, LaterBirth
  <2>2. i \in Nat
    BY <1>3 DEF Time
  <2>3. j <= m + 1
    BY <1>2 DEF ClientLines
  <2>4. QED
    BY <1>2, <2>1, <2>2, <2>3
<1>5. j # m + 1
  BY <1>2
<1>6. j \in i..m
  BY <1>2, <1>4, <1>5
<1>7. QED
  BY <1>1, <1>6

LEMMA ProxyRowPlaced ==
    ASSUME Shape, LogTrue, ParserTrue, IpKnown, LineLeft("PROXY"),
           NEW e, e = EventOf("PROXY"), e # NoEvent, e.type \in {"LOGIN_OK", "LOGIN_FAIL"}
    PROVE  RowPlaced(Row("PROXY", e, daemon["PROXY"].ip \/ FindsIp("PROXY")))
<1>1. PICK m, p, line :
        m = daemon["PROXY"].offset /\ p = daemon["PROXY"].parser /\ line = log["PROXY"][m + 1]
  OBVIOUS
<1>2. /\ m + 1 \in Time("PROXY") /\ line \in LogLines /\ line.kind \in KindsOf("PROXY")
      /\ line.cs \in Clients /\ p \in Parsers("PROXY") /\ e = Parse(p, line).event
      /\ line.time = m + 1
  BY <1>1, EventOfLine, ProxyServer
<1>3. m \in Nat /\ \A i \in 1..m : i \in Time("PROXY")
  BY <1>1, <1>2, LineStep, ProxyServer DEF Daemons, Time
<1>4. PICK x : x = Row("PROXY", e, daemon["PROXY"].ip \/ FindsIp("PROXY"))
  OBVIOUS
<1> SUFFICES ASSUME Plain(x.sess) PROVE RowPlaced(x)
  BY <1>4, ProxyServer DEF RowPlaced, Row
<1>5. /\ e.cs = line.cs /\ e.time = m + 1 /\ line.cs \in p.bornMap
      /\ line.kind \in Answers \/ line.kind \in Closes
  <2>1. x.sess = line.cs
    BY <1>2, <1>4, ProxyEvent DEF Row
  <2>2. ASSUME NEW f \in FailOf(p, line.cs) PROVE FALSE
    <3>1. f \in p.failMap /\ f.cs = line.cs
      BY DEF FailOf
    <3>2. \E n \in 1..m : log["PROXY"][n].sm = f.cs /\ log["PROXY"][n].kind = "error_transfer"
      BY <1>1, <3>1 DEF ParserTrue, FailTrue
    <3>3. NamedInError(x.sess)
      BY <1>3, <2>1, <3>1, <3>2 DEF NamedInError
    <3>4. QED
      BY <3>3 DEF Plain
  <2>3. FailOf(p, line.cs) = {}
    BY <2>2
  <2>4. QED
    BY <1>2, <2>3, ProxyLoginEvent
<1>6. daemon["PROXY"].ip
  BY <1>1, <1>5 DEF IpKnown
<1>7. BornTrue(line.cs, m) /\ ClientLines(line.cs)
  BY <1>1, <1>2, <1>5 DEF ParserTrue, LogTrue
<1>8. line.kind \in Closes =>
        IsLine(m + 1, line.cs, Closes) /\ \A j \in Time("PROXY") : ~IsLine(j, line.cs, Answers)
  <2>1. line.kind \in Closes => IsLine(m + 1, line.cs, Closes)
    BY <1>1 DEF IsLine
  <2>2. ~BornAgain(line.cs)
    BY <1>4, <1>5 DEF Plain, Row
  <2>3. QED
    BY <1>2, <1>3, <1>7, <2>1, <2>2, NeverAnswered
<1>9. line.kind \in Answers => IsLine(m + 1, line.cs, Answers)
  BY <1>1 DEF IsLine
<1>10. x.source = "PROXY" /\ x.ip /\ x.sess = line.cs /\ x.login = m + 1
  BY <1>4, <1>5, <1>6 DEF Row
<1>11. QED
  BY <1>1, <1>2, <1>5, <1>8, <1>9, <1>10, ProxyServer DEF RowPlaced

LEMMA ServerRowPlaced ==
    ASSUME Shape, IpKnown, LineLeft("SERVER"),
           NEW e, e = EventOf("SERVER"), e.type \in {"LOGIN_OK", "LOGIN_FAIL"}
    PROVE  RowPlaced(Row("SERVER", e, daemon["SERVER"].ip \/ FindsIp("SERVER")))
<1>1. PICK m, line : m = daemon["SERVER"].offset /\ line = log["SERVER"][m + 1]
  OBVIOUS
<1>2. /\ m + 1 \in Time("SERVER") /\ line \in LogLines /\ line.cs \in Clients
      /\ e = ParseObServerLine(line) /\ line.time = m + 1
  BY <1>1, EventOfLine, ProxyServer
<1>3. e.cs = line.cs /\ e.time = line.time /\ line.kind = "MySQL LOGIN"
  <2>1. NoEvent.type = "none"
    BY DEF NoEvent
  <2>2. line.kind = "MySQL LOGIN" /\ line.audited
    BY <1>2, <2>1, ServerEvent
  <2>3. PICK type : e = Event(type, line, line.time)
    BY <1>2, <2>2 DEF ParseObServerLine
  <2>4. e.cs = line.cs /\ e.time = line.time
    BY <2>3 DEF Event
  <2>5. QED
    BY <2>2, <2>4
<1>4. daemon["SERVER"].ip
  BY LineStep, ProxyServer DEF IpKnown
<1>5. PICK x : x = Row("SERVER", e, daemon["SERVER"].ip \/ FindsIp("SERVER"))
  OBVIOUS
<1>6. x.source = "SERVER" /\ x.ip /\ x.sess = line.cs /\ x.login = m + 1
  BY <1>2, <1>3, <1>4, <1>5 DEF Row
<1>7. RowPlaced(x)
  BY <1>1, <1>2, <1>3, <1>6, ProxyServer DEF RowPlaced
<1>8. QED
  BY <1>5, <1>7
\* A close comes last, so that no answer can follow the row it brought.
LEMMA RowStaysPlaced ==
    ASSUME Shape, LogTrue', World, NEW r \in sessions, RowPlaced(r)
    PROVE  RowPlaced(r)'
<1> SUFFICES ASSUME r.source = "SERVER" \/ Plain(r.sess)'
             PROVE  RowPlaced(r)'
  BY DEF RowPlaced
<1>0. r.source = "SERVER" \/ Plain(r.sess)
  <2>1. PICK c \in Clients : c = r.sess
    BY SessClients
  <2>2. /\ BornAgain(c) => BornAgain(c)'
        /\ NamedInError(c) => NamedInError(c)'
    BY ExcusesStay
  <2>3. Plain(c)' => Plain(c)
    BY <2>2 DEF Plain
  <2>4. Plain(r.sess)' => Plain(c)'
    BY <2>1 DEF Plain, BornAgain, NamedInError, LinesOf
  <2>5. QED
    BY <2>1, <2>3, <2>4
<1>1. PICK c, s, k :
        /\ c = r.sess /\ s = r.source /\ k = r.login
        /\ c \in Clients /\ s \in Sources /\ k \in Time(s)
  BY <1>0, SessClients DEF RowPlaced
<1>2. ASSUME NEW t \in Sources
      PROVE  Time(t) \subseteq Time(t)' /\ \A i \in Time(t) : log'[t][i] = log[t][i]
  BY LogGrows
<1>3. k \in Time(s)' /\ log'[s][k] = log[s][k]
  BY <1>1, <1>2
<1>4. r.ip
  BY <1>0 DEF RowPlaced
<1>5. CASE s = "SERVER"
  BY <1>1, <1>3, <1>4, <1>5 DEF RowPlaced
<1>6. CASE s = "PROXY" /\ IsLine(k, c, Answers)
  <2>1. IsLine(k, c, Answers)'
    BY <1>3, <1>6 DEF IsLine
  <2>2. QED
    BY <1>1, <1>3, <1>4, <1>6, <2>1 DEF RowPlaced
<1>7. CASE s = "PROXY" /\ IsLine(k, c, Closes) /\ \A j \in Time("PROXY") : ~IsLine(j, c, Answers)
  <2>1. IsLine(k, c, Closes)' /\ ClientLines(c)'
    BY <1>1, <1>3, <1>7 DEF IsLine, LogTrue
  <2>2. ASSUME NEW j \in Time("PROXY")', IsLine(j, c, Answers)' PROVE FALSE
    <3>1. log'["PROXY"][j].cs = c
      BY <2>2 DEF IsLine
    <3>2. j <= k
      BY <1>3, <1>7, <2>1, <3>1 DEF ClientLines
    <3>3. j \in Time("PROXY")
      <4>1. j \in 1..Len(log'["PROXY"]) /\ k \in 1..Len(log["PROXY"])
        BY <1>1, <1>7 DEF Time
      <4>2. Len(log["PROXY"]) \in Nat
        BY ShapeParts, ProxyServer
      <4>3. QED
        BY <3>2, <4>1, <4>2 DEF Time
    <3>4. log'["PROXY"][j] = log["PROXY"][j]
      BY <1>2, <3>3, ProxyServer
    <3>5. IsLine(j, c, Answers)
      BY <2>2, <3>4 DEF IsLine
    <3>6. QED
      BY <1>7, <3>3, <3>5
  <2>3. QED
    BY <1>1, <1>3, <1>4, <1>7, <2>1, <2>2 DEF RowPlaced
<1>8. QED
  BY <1>0, <1>1, <1>5, <1>6, <1>7 DEF RowPlaced, Sources

LEMMA RowsPlacedNext ==
    ASSUME Shape, LogTrue, LogTrue', ParserTrue, IpKnown, RowsPlaced, [Next]_vars
    PROVE  RowsPlaced'
<1>1. CASE World
  BY <1>1, ClientsStay, RowStaysPlaced DEF RowsPlaced
<1>2. ASSUME UNCHANGED files, \A x \in sessions' : RowPlaced(x)
      PROVE  RowsPlaced'
  <2>1. log' = log
    BY <1>2 DEF files
  <2>2. ASSUME NEW x, RowPlaced(x) PROVE RowPlaced(x)'
    BY <2>1, <2>2 DEF RowPlaced, Plain, BornAgain, NamedInError, LinesOf, IsLine, Time
  <2>3. QED
    BY <1>2, <2>2 DEF RowsPlaced
<1>3. ASSUME NEW s \in Sources, ReadLine(s) PROVE RowsPlaced'
  <2>1. PICK e : \E b \in BOOLEAN : e = EventOf(s) /\ b = (daemon[s].ip \/ FindsIp(s))
    OBVIOUS
  <2>2. PICK b \in BOOLEAN : e = EventOf(s) /\ b = (daemon[s].ip \/ FindsIp(s))
    BY <2>1
  <2>3. LineLeft(s) /\ sessions' = Handle(s, e, b) /\ UNCHANGED files
    BY <1>3, <2>2 DEF ReadLine, LineLeft
  <2>4. ASSUME NEW x \in sessions' PROVE RowPlaced(x)
    <3>1. \/ x \in sessions
          \/ e.type \in {"LOGIN_OK", "LOGIN_FAIL"} /\ e # NoEvent /\ x = Row(s, e, b)
          \/ \E r \in sessions : x = [r EXCEPT !.closed = TRUE]
      <4>1. x \in Handle(s, e, b)
        BY <2>3, <2>4
      <4>2. PICK a \in BOOLEAN : a = b
        BY <2>2
      <4>3. PICK ev : ev = e /\ ev = EventOf(s)
        BY <2>2
      <4>4. \/ x \in sessions
            \/ ev.type \in {"LOGIN_OK", "LOGIN_FAIL"} /\ ev # NoEvent /\ x = Row(s, ev, a)
            \/ ev.type = "LOGOFF" /\ ev # NoEvent
               /\ \E r \in sessions : r.sess = ev.cs /\ x = [r EXCEPT !.closed = TRUE]
        BY <2>3, <4>1, <4>2, <4>3, RowsAfterLine
      <4>5. QED
        BY <4>2, <4>3, <4>4
    <3>2. CASE x \in sessions
      BY <3>2 DEF RowsPlaced
    <3>3. CASE e.type \in {"LOGIN_OK", "LOGIN_FAIL"} /\ e # NoEvent /\ x = Row(s, e, b)
      <4>1. CASE s = "PROXY"
        BY <2>2, <2>3, <3>3, <4>1, ProxyRowPlaced
      <4>2. CASE s = "SERVER"
        BY <2>2, <2>3, <3>3, <4>2, ServerRowPlaced
      <4>3. QED
        BY <4>1, <4>2 DEF Sources
    <3>4. CASE \E r \in sessions : x = [r EXCEPT !.closed = TRUE]
      <4>1. PICK r \in sessions : x = [r EXCEPT !.closed = TRUE]
        BY <3>4
      <4>2. x.source = r.source /\ x.sess = r.sess /\ x.ip = r.ip /\ x.login = r.login
        BY <4>1, SessClients DEF Rows
      <4>3. RowPlaced(r)
        BY DEF RowsPlaced
      <4>4. QED
        BY <4>2, <4>3 DEF RowPlaced
    <3>5. QED
      BY <3>1, <3>2, <3>3, <3>4
  <2>5. QED
    BY <1>2, <2>3, <2>4
<1>4. ASSUME NEW s \in Sources, EndTick(s) PROVE RowsPlaced'
  <2>1. sessions' = SyncFailed(sessions) /\ UNCHANGED files
    BY <1>4 DEF EndTick
  <2>2. ASSUME NEW x \in sessions' PROVE RowPlaced(x)
    <3>1. PICK r \in sessions : x = r \/ x = [r EXCEPT !.closed = TRUE, !.ok = FALSE]
      BY <2>1 DEF SyncFailed
    <3>2. x.source = r.source /\ x.sess = r.sess /\ x.ip = r.ip /\ x.login = r.login
      BY <3>1, SessClients DEF Rows
    <3>3. RowPlaced(r)
      BY DEF RowsPlaced
    <3>4. QED
      BY <3>2, <3>3 DEF RowPlaced
  <2>3. QED
    BY <1>2, <2>1, <2>2
<1>5. ASSUME UNCHANGED <<files, sessions>> PROVE RowsPlaced'
  BY <1>2, <1>5 DEF RowsPlaced
<1>6. ASSUME NEW s \in Sources,
             List(s) \/ Open(s) \/ SaveRecord(s) \/ StatementFails(s) \/ FileFails(s) \/ Crash(s)
      PROVE  RowsPlaced'
  BY <1>5, <1>6 DEF List, Open, SaveRecord, StatementFails, LineLeft, FileFails, Crash
<1>7. CASE UNCHANGED vars
  BY <1>5, <1>7 DEF vars
<1>8. QED
  BY <1>1, <1>3, <1>4, <1>6, <1>7 DEF Next, Tick

\* Every statement keeps uk_sess: an insert by IGNORE, an update by leaving
\* the columns of the key alone.
LEMMA KeysUniqueNext ==
    ASSUME Shape, KeysUnique, [Next]_vars
    PROVE  KeysUnique'
<1>1. ASSUME sessions' = sessions PROVE KeysUnique'
  BY <1>1 DEF KeysUnique, SameSess
<1>2. \A r \in sessions : r \in Rows
  BY SessClients
<1>3. ASSUME NEW s \in Sources, ReadLine(s) PROVE KeysUnique'
  <2>1. PICK e, b : sessions' = Handle(s, e, b)
    BY <1>3 DEF ReadLine
  <2>2. CASE e.type \in {"LOGIN_OK", "LOGIN_FAIL"}
    <3>1. PICK row : sessions' = InsertLogin(sessions, row)
      BY <2>1, <2>2 DEF Handle
    <3>2. QED
      BY <3>1 DEF InsertLogin, KeysUnique, SameSess
  <2>3. CASE e.type = "LOGOFF"
    <3>1. sessions' = UpdateLogoff(sessions, e.cs)
      BY <2>1, <2>3 DEF Handle
    <3>2. PICK c : c = e.cs
      OBVIOUS
    <3>3. ASSUME NEW x \in sessions', NEW y \in sessions', SameSess(x, y) PROVE x = y
      <4>1. PICK r \in sessions :
                x = IF r.sess = c /\ ~r.closed THEN [r EXCEPT !.closed = TRUE] ELSE r
        BY <3>1, <3>2 DEF UpdateLogoff
      <4>2. PICK q \in sessions :
                y = IF q.sess = c /\ ~q.closed THEN [q EXCEPT !.closed = TRUE] ELSE q
        BY <3>1, <3>2 DEF UpdateLogoff
      <4>3. x.source = r.source /\ x.ip = r.ip /\ x.sess = r.sess /\ x.login = r.login
        BY <1>2, <4>1 DEF Rows
      <4>4. y.source = q.source /\ y.ip = q.ip /\ y.sess = q.sess /\ y.login = q.login
        BY <1>2, <4>2 DEF Rows
      <4>5. r = q
        BY <3>3, <4>3, <4>4 DEF SameSess, KeysUnique
      <4>6. QED
        BY <4>1, <4>2, <4>5
    <3>4. QED
      BY <3>3 DEF KeysUnique, SameSess
  <2>4. CASE e.type \notin {"LOGIN_OK", "LOGIN_FAIL", "LOGOFF"}
    BY <1>1, <2>1, <2>4 DEF Handle
  <2>5. QED
    BY <2>2, <2>3, <2>4
<1>4. ASSUME NEW s \in Sources, EndTick(s) PROVE KeysUnique'
  <2>1. sessions' = SyncFailed(sessions)
    BY <1>4 DEF EndTick
  <2> DEFINE refused(r) ==
        /\ r.source = "PROXY" /\ ~r.closed
        /\ \E q \in sessions : q.source = "SERVER" /\ q.sess = r.sess /\ ~q.ok /\ q.closed
  <2>2. ASSUME NEW x \in sessions', NEW y \in sessions', SameSess(x, y) PROVE x = y
    <3>1. PICK r \in sessions :
            x = IF refused(r) THEN [r EXCEPT !.closed = TRUE, !.ok = FALSE] ELSE r
      BY <2>1 DEF SyncFailed
    <3>2. PICK q \in sessions :
            y = IF refused(q) THEN [q EXCEPT !.closed = TRUE, !.ok = FALSE] ELSE q
      BY <2>1 DEF SyncFailed
    <3> HIDE DEF refused
    <3>3. x.source = r.source /\ x.ip = r.ip /\ x.sess = r.sess /\ x.login = r.login
      BY <1>2, <3>1 DEF Rows
    <3>4. y.source = q.source /\ y.ip = q.ip /\ y.sess = q.sess /\ y.login = q.login
      BY <1>2, <3>2 DEF Rows
    <3>5. r = q
      BY <2>2, <3>3, <3>4 DEF SameSess, KeysUnique
    <3>6. QED
      BY <3>1, <3>2, <3>5
  <2>3. QED
    BY <2>2 DEF KeysUnique, SameSess
<1>5. ASSUME NEW s \in Sources,
             List(s) \/ Open(s) \/ SaveRecord(s) \/ StatementFails(s) \/ FileFails(s) \/ Crash(s)
      PROVE  KeysUnique'
  BY <1>1, <1>5 DEF List, Open, SaveRecord, StatementFails, FileFails, Crash
<1>6. CASE World \/ UNCHANGED vars
  BY <1>1, <1>6, WorldGrows DEF vars, Shape
<1>7. QED
  BY <1>3, <1>4, <1>5, <1>6 DEF Next, Tick

\* A login line leaves at most one SERVER row, and a client with one server
\* session that no error_transfer names at most one PROXY row: crashes, rotations
\* and files that are read again find the row that is there, because a line keeps
\* its time and the address is known before a login can be reported, and an
\* answer and a close never report the same login.
THEOREM OneRow == Spec => []OneRowPerLogin
<1> DEFINE Inv == /\ Shape /\ LogTrue /\ ParserTrue
                  /\ AnsweredOnce /\ IpKnown /\ RowsPlaced /\ KeysUnique
<1>1. Init => Inv
  <2> SUFFICES ASSUME Init PROVE Inv
    OBVIOUS
  <2>1. \A s \in Sources : log[s] = <<>> /\ daemon[s] = Idle
    BY DEF Init
  <2>2. Time("PROXY") = {} /\ Time("SERVER") = {}
    BY <2>1, ProxyServer DEF Time
  <2>3. Idle.at = "idle" /\ Idle.parser.bornMap = {}
    BY DEF Idle, NewParser
  <2>4. AnsweredOnce /\ IpKnown
    BY <2>1, <2>2, <2>3, ProxyServer DEF AnsweredOnce, IpKnown
  <2>5. RowsPlaced /\ KeysUnique
    BY DEF Init, RowsPlaced, KeysUnique
  <2>6. QED
    BY <2>4, <2>5, ShapeInit, LogTrueInit, ParserTrueInit
<1>2. Inv /\ [Next]_vars => Inv'
  BY ShapeNext, LogTrueNext, ParserTrueNext, AnsweredOnceNext, IpKnownNext, RowsPlacedNext,
     KeysUniqueNext
<1>3. Inv => OneRowPerLogin
  <2> SUFFICES ASSUME Inv, NEW r \in sessions, NEW q \in sessions,
                      r.source = q.source, r.sess = q.sess,
                      r.source = "SERVER" => r.login = q.login,
                      r.source = "PROXY" => Plain(r.sess)
               PROVE  r = q
    BY DEF OneRowPerLogin, Plain
  <2>1. RowPlaced(r) /\ RowPlaced(q)
    BY DEF RowsPlaced
  <2>2. r.ip \in BOOLEAN /\ q.ip \in BOOLEAN /\ r.source \in Sources /\ r.sess \in Clients
    BY SessClients DEF Rows
  <2>0. r.source = "SERVER" \/ Plain(r.sess)
    BY <2>2 DEF Sources
  <2>3. r.login = q.login
    <3>1. CASE r.source = "SERVER"
      BY <3>1
    <3>2. CASE r.source = "PROXY"
      <4>1. PICK c \in Clients, i \in Time("PROXY"), j \in Time("PROXY") :
                c = r.sess /\ i = r.login /\ j = q.login
        BY <2>0, <2>1, <2>2, <3>2 DEF RowPlaced
      <4>2. CASE IsLine(i, c, Answers) /\ IsLine(j, c, Answers)
        BY <4>1, <4>2 DEF IsLine, Answers, AnsweredOnce
      <4>3. CASE IsLine(i, c, Closes) /\ IsLine(j, c, Closes)
        <5>1. i \in Nat /\ j \in Nat
          BY DEF Time
        <5>2. log["PROXY"][i].cs = c /\ log["PROXY"][j].cs = c
          BY <4>3 DEF IsLine
        <5>3. i <= j /\ j <= i
          BY <4>3, <5>2 DEF LogTrue, ClientLines
        <5>4. QED
          BY <4>1, <5>1, <5>3
      <4>4. QED
        BY <2>0, <2>1, <3>2, <4>1, <4>2, <4>3 DEF RowPlaced
    <3>3. QED
      BY <2>2, <3>1, <3>2 DEF Sources
  <2>4. r.ip = q.ip
    BY <2>0, <2>1, <2>2 DEF RowPlaced
  <2>5. SameSess(r, q)
    BY <2>3, <2>4 DEF SameSess
  <2>6. QED
    BY <2>5 DEF KeysUnique
<1>4. QED
  BY <1>1, <1>2, <1>3, PTL DEF Spec
=============================================================================
