--------------------------- MODULE LogIngest_proof ---------------------------
(***************************************************************************)
(* Proofs about LogIngest, for any number of lines, files, session ids and *)
(* faults.                                                                 *)
(***************************************************************************)
EXTENDS LogIngest, SequenceTheorems, TLAPS

-----------------------------------------------------------------------------
(* The files.                                                              *)

\* The files divide the log: each begins where its predecessor ends, and every
\* line is in one of them.
FilesDivideLog ==
    /\ \A k \in 1..Current : begins[k] <= Len(log)
    /\ \A k \in 1..Current, m \in 1..Current : k <= m => begins[k] <= begins[m]
    /\ \A i \in 1..Len(log) : \E k \in 1..Current : begins[k] < i /\ i <= begins[k] + LinesOf(k)
    /\ tail = 1 => Len(log) < MaxLines

\* A name that was listed as a rotated file's is one still, and a file is open
\* only while its name is the next to do.
NamesListed ==
    /\ \A j \in 1..Len(proc.todo) : proc.todo[j].name = Active \/ proc.todo[j].name < Current
    /\ proc.at \in {"open", "read"} => proc.todo # <<>>

\* The lines and bytes of a file, within the bounds of the log.
LEMMA FileBounds ==
    ASSUME TypeOK, FilesDivideLog, NEW k \in 1..Current
    PROVE  /\ begins[k] \in 0..MaxLines
           /\ LinesOf(k) \in 0..MaxLines
           /\ begins[k] + LinesOf(k) <= Len(log)
           /\ Bytes(k) \in 0..2 * MaxLines
           /\ 2 * LinesOf(k) <= Bytes(k) /\ Bytes(k) <= 2 * LinesOf(k) + 1
           /\ k # Current => LinesOf(k) = begins[k + 1] - begins[k]
           /\ k = Current => LinesOf(k) = Len(log) - begins[k]
<1> USE LogIngestAssumption
<1>1. /\ Current \in Nat /\ Len(log) \in 0..MaxLines /\ tail \in {0, 1}
      /\ \A m \in 1..Current : begins[m] \in 0..MaxLines
  BY DEF TypeOK, Current
<1>2. CASE k = Current
  <2>1. LinesOf(k) = Len(log) - begins[k] /\ Bytes(k) = 2 * LinesOf(k) + tail
    BY <1>2 DEF LinesOf, Bytes
  <2>2. begins[k] <= Len(log) /\ (tail = 1 => Len(log) < MaxLines)
    BY DEF FilesDivideLog
  <2>3. QED
    BY <1>1, <1>2, <2>1, <2>2
<1>3. CASE k # Current
  <2>1. k + 1 \in 1..Current
    BY <1>1, <1>3
  <2>2. begins[k] <= begins[k + 1] /\ begins[k + 1] <= Len(log)
    BY <1>1, <2>1 DEF FilesDivideLog
  <2>3. LinesOf(k) = begins[k + 1] - begins[k] /\ Bytes(k) = 2 * LinesOf(k) + 0
    BY <1>3 DEF LinesOf, Bytes
  <2>4. QED
    BY <1>1, <1>3, <2>1, <2>2, <2>3
<1>4. QED
  BY <1>2, <1>3

\* What a step of the observer does to lines and files that exist.
LEMMA WorldGrows ==
    ASSUME TypeOK, FilesDivideLog, Observer
    PROVE  /\ Current' \in {Current, Current + 1}
           /\ Len(log') \in {Len(log), Len(log) + 1}
           /\ \A i \in 1..Len(log) : log'[i] = log[i]
           /\ Len(log') # Len(log) => Current' = Current
           /\ Current' # Current => begins'[Current'] = Len(log')
           /\ \A k \in 1..Current :
                /\ begins'[k] = begins[k]
                /\ LinesOf(k)' \in {LinesOf(k), LinesOf(k) + 1}
                /\ k # Current => LinesOf(k)' = LinesOf(k)
           /\ UNCHANGED <<logfiles, sessions, proc, handled, failed, faults>>
<1> USE LogIngestAssumption
<1>1. /\ Current \in Nat \ {0} /\ Len(log) \in Nat /\ tail \in {0, 1}
      /\ \A m \in 1..Current : begins[m] \in Nat
  BY DEF TypeOK, Current
<1>2. CASE BeginLine
  BY <1>1, <1>2 DEF BeginLine, LinesOf, Current
<1>3. ASSUME NEW line \in Lines, EndLine(line)
      PROVE  /\ begins' = begins /\ log' = Append(log, line)
             /\ UNCHANGED <<logfiles, sessions, proc, handled, failed, faults>>
  BY <1>3 DEF EndLine
<1>4. ASSUME NEW line \in Lines, EndLine(line)
      PROVE  /\ Len(log') = Len(log) + 1
             /\ \A i \in 1..Len(log) : log'[i] = log[i]
  <2>1. log \in Seq(Lines) /\ log' = Append(log, line)
    BY <1>3, <1>4 DEF TypeOK
  <2>2. QED
    BY <2>1, AppendProperties
<1>5. CASE Rotate
  <2>1. /\ log' = log /\ begins' = Append(begins, Len(log))
        /\ UNCHANGED <<logfiles, sessions, proc, handled, failed, faults>>
    BY <1>5 DEF Rotate
  <2>2. /\ Current' = Current + 1 /\ begins'[Current + 1] = Len(log)
        /\ \A k \in 1..Current : begins'[k] = begins[k]
    BY <1>1, <2>1 DEF TypeOK, Current
  <2>3. ASSUME NEW k \in 1..Current PROVE LinesOf(k)' = LinesOf(k)
    <3>1. CASE k = Current
      BY <1>1, <2>1, <2>2, <3>1 DEF LinesOf
    <3>2. CASE k # Current
      <4>1. k + 1 \in 1..Current /\ k # Current'
        BY <1>1, <2>2, <3>2
      <4>2. begins'[k + 1] = begins[k + 1] /\ begins'[k] = begins[k]
        BY <2>2, <4>1
      <4>3. QED
        BY <3>2, <4>1, <4>2 DEF LinesOf
    <3>3. QED
      BY <3>1, <3>2
  <2>4. QED
    BY <1>1, <2>1, <2>2, <2>3
<1>6. ASSUME NEW line \in Lines, EndLine(line), NEW k \in 1..Current
      PROVE  /\ LinesOf(k)' \in {LinesOf(k), LinesOf(k) + 1}
             /\ k # Current => LinesOf(k)' = LinesOf(k)
  BY <1>1, <1>3, <1>4, <1>6 DEF LinesOf, Current
<1>7. QED
  BY <1>1, <1>2, <1>3, <1>4, <1>5, <1>6 DEF Observer, Current

-----------------------------------------------------------------------------
(* Type correctness.                                                       *)

ListedFiles == [name : Names, size : 0..2 * MaxLines]

ProcStates ==
    [at : {"idle", "next", "open", "read"}, todo : Seq(ListedFiles),
     ip : BOOLEAN, file : 0..MaxFiles, offset : 0..MaxLines]

Records ==
    [new : BOOLEAN, size : 0..2 * MaxLines, offset : 0..MaxLines, ip : BOOLEAN, file : 0..MaxFiles]

Rows == [ip : BOOLEAN, sess : Sessids, login : 1..MaxLines, logoff : 0..MaxLines]

Shape == TypeOK /\ FilesDivideLog /\ NamesListed

\* The name and size of the file that is next to do.
Name == Head(proc.todo).name

LEMMA TodoHead ==
    ASSUME Shape, proc.todo # <<>>
    PROVE  /\ Head(proc.todo) \in ListedFiles
           /\ Name \in Names
           /\ FileNamed(Name) \in 1..Current
           /\ Name # Active => Name < Current /\ FileNamed(Name) = Name
           /\ Tail(proc.todo) \in Seq(ListedFiles)
           /\ \A j \in 1..Len(Tail(proc.todo)) :
                Tail(proc.todo)[j].name = Active \/ Tail(proc.todo)[j].name < Current
<1> DEFINE todo == proc.todo
<1>1. todo \in Seq(ListedFiles) /\ Current \in 1..MaxFiles
  BY DEF Shape, TypeOK, ListedFiles
<1>2. /\ Head(todo) \in ListedFiles /\ Head(todo) = todo[1] /\ Len(todo) \in Nat \ {0}
      /\ Tail(todo) \in Seq(ListedFiles) /\ Len(Tail(todo)) = Len(todo) - 1
      /\ \A j \in 1..Len(Tail(todo)) : Tail(todo)[j] = todo[j + 1]
  BY <1>1, HeadTailProperties, EmptySeq
<1>3. \A j \in 1..Len(todo) : todo[j].name = Active \/ todo[j].name < Current
  BY DEF Shape, NamesListed
<1>4. Name \in Names /\ (Name = Active \/ Name < Current)
  BY <1>2, <1>3 DEF Name, ListedFiles
<1>5. \A j \in 1..Len(Tail(todo)) : Tail(todo)[j].name = Active \/ Tail(todo)[j].name < Current
  <2>1. \A j \in 1..Len(Tail(todo)) : j + 1 \in 1..Len(todo)
    BY <1>2
  <2>2. QED
    BY <1>2, <1>3, <2>1
<1>6. FileNamed(Name) \in 1..Current /\ (Name # Active => FileNamed(Name) = Name)
  BY <1>1, <1>4, LogIngestAssumption DEF FileNamed, Names, Active
<1>7. QED
  BY <1>2, <1>4, <1>5, <1>6

LEMMA IdleTyped == Idle \in ProcStates /\ Idle.todo = <<>> /\ Idle.at = "idle"
<1>1. <<>> \in Seq(ListedFiles)
  BY EmptySeq
<1>2. QED
  BY <1>1, LogIngestAssumption DEF Idle, ProcStates

LEMMA NextFileTyped ==
    ASSUME Shape, proc.todo # <<>>
    PROVE  NextFile \in ProcStates /\ NextFile.todo = Tail(proc.todo) /\ NextFile.at = "next"
<1>1. Tail(proc.todo) \in Seq(ListedFiles)
  BY TodoHead
<1>2. QED
  BY <1>1, IdleTyped DEF NextFile, ProcStates

\* A step of the loop keeps the types if its own data are well typed.
LEMMA LoopStep ==
    ASSUME Shape, UNCHANGED world, proc' \in ProcStates, logfiles' \in [Names -> Records],
           sessions' \subseteq Rows, handled' \subseteq DOMAIN log, failed' \subseteq DOMAIN log,
           faults' \in 0..MaxFaults,
           proc'.at = "read" =>
                proc'.file \in 1..Current /\ proc'.offset \in 0..LinesOf(proc'.file),
           \A j \in 1..Len(proc'.todo) : proc'.todo[j].name = Active \/ proc'.todo[j].name < Current,
           proc'.at \in {"open", "read"} => proc'.todo # <<>>
    PROVE  Shape'
<1>1. TypeOK'
  BY DEF Shape, TypeOK, world, ProcStates, ListedFiles, Records, Rows, LinesOf, Current
<1>2. FilesDivideLog'
  BY DEF Shape, FilesDivideLog, world, LinesOf, Current
<1>3. NamesListed'
  BY DEF Shape, NamesListed, world, Current
<1>4. QED
  BY <1>1, <1>2, <1>3 DEF Shape

\* The observer keeps the files in order.
LEMMA ObserverShape ==
    ASSUME Shape, Observer
    PROVE  Shape'
<1>1. /\ TypeOK /\ FilesDivideLog
      /\ Current \in 1..MaxFiles /\ Len(log) \in 0..MaxLines /\ tail \in {0, 1}
      /\ log \in Seq(Lines) /\ begins \in Seq(0..MaxLines)
      /\ DOMAIN log = 1..Len(log)
  BY DEF Shape, TypeOK
<1>2. /\ Current' \in {Current, Current + 1}
      /\ Len(log') \in {Len(log), Len(log) + 1}
      /\ \A k \in 1..Current :
            /\ begins'[k] = begins[k]
            /\ LinesOf(k)' \in {LinesOf(k), LinesOf(k) + 1}
      /\ UNCHANGED <<logfiles, sessions, proc, handled, failed, faults>>
  BY <1>1, WorldGrows
<1>3. /\ log' \in Seq(Lines) /\ Len(log') \in 0..MaxLines /\ tail' \in {0, 1}
      /\ begins' \in Seq(0..MaxLines) /\ Current' \in 1..MaxFiles
      /\ tail' = 1 => Len(log') < MaxLines
  <2>1. CASE BeginLine
    BY <1>1, <2>1, LogIngestAssumption DEF BeginLine, Current
  <2>2. ASSUME NEW line \in Lines, EndLine(line)
        PROVE  /\ log' \in Seq(Lines) /\ Len(log') \in 0..MaxLines /\ tail' = 0
               /\ begins' = begins
    <3>1. Len(log) < MaxLines
      BY <2>2 DEF EndLine, Shape, FilesDivideLog
    <3>2. log' \in Seq(Lines) /\ Len(log') = Len(log) + 1 /\ tail' = 0 /\ begins' = begins
      BY <1>1, <2>2, AppendProperties DEF EndLine
    <3>3. QED
      BY <1>1, <3>1, <3>2, LogIngestAssumption
  <2>3. CASE Rotate
    <3>1. begins' = Append(begins, Len(log)) /\ log' = log /\ tail' = 0 /\ Current < MaxFiles
      BY <2>3 DEF Rotate
    <3>2. begins' \in Seq(0..MaxLines) /\ Current' = Current + 1
      BY <1>1, <3>1, AppendProperties DEF Current
    <3>3. QED
      BY <1>1, <3>1, <3>2, LogIngestAssumption
  <2>4. QED
    BY <1>1, <2>1, <2>2, <2>3 DEF Observer, Current
<1>4. TypeOK'
  <2>1. proc.at = "read" => proc.file \in 1..Current' /\ proc.offset \in 0..LinesOf(proc.file)'
    <3>1. SUFFICES ASSUME proc.at = "read"
                   PROVE  proc.file \in 1..Current' /\ proc.offset \in 0..LinesOf(proc.file)'
      OBVIOUS
    <3>2. proc.file \in 1..Current /\ proc.offset \in 0..LinesOf(proc.file)
      BY <1>1, <3>1 DEF TypeOK
    <3>3. LinesOf(proc.file) \in Nat
      BY <1>1, <3>2, FileBounds, LogIngestAssumption
    <3>4. PICK k : k = proc.file /\ k = proc'.file
      BY <1>2
    <3>5. LinesOf(k)' \in {LinesOf(k), LinesOf(k) + 1}
      BY <1>2, <3>2, <3>4
    <3>6. LinesOf(k)' = LinesOf(proc.file)' /\ LinesOf(k) = LinesOf(proc.file)
      BY <3>4 DEF LinesOf
    <3>7. QED
      BY <1>1, <1>2, <3>2, <3>3, <3>5, <3>6, LogIngestAssumption
  <2>2. DOMAIN log \subseteq DOMAIN log'
    BY <1>1, <1>2, <1>3
  <2>3. handled' \subseteq DOMAIN log' /\ failed' \subseteq DOMAIN log'
    BY <1>1, <1>2, <2>2 DEF TypeOK
  <2>4. logfiles' \in [Names -> Records] /\ sessions' \subseteq Rows /\ proc' \in ProcStates
        /\ faults' \in 0..MaxFaults
    BY <1>1, <1>2 DEF TypeOK, Records, Rows, ProcStates, ListedFiles
  <2>5. proc' = proc
    BY <1>2
  <2>6. QED
    BY <1>3, <2>1, <2>3, <2>4, <2>5 DEF TypeOK, Records, Rows, ProcStates, ListedFiles
<1>5. FilesDivideLog'
  <2>1. /\ \A k \in 1..Current : begins[k] \in Nat /\ begins[k] <= Len(log)
        /\ \A k \in 1..Current, m \in 1..Current : k <= m => begins[k] <= begins[m]
        /\ \A i \in 1..Len(log) :
            \E k \in 1..Current : begins[k] < i /\ i <= begins[k] + LinesOf(k)
    BY <1>1, LogIngestAssumption DEF FilesDivideLog, Current
  <2>2. /\ Len(log') # Len(log) => Current' = Current
        /\ Current' # Current => begins'[Current'] = Len(log')
    BY <1>1, WorldGrows
  <2>3. \A k \in 1..Current' : begins'[k] \in Nat /\ begins'[k] <= Len(log')
    BY <1>1, <1>2, <1>3, <2>1, <2>2
  <2>4. \A k \in 1..Current', m \in 1..Current' : k <= m => begins'[k] <= begins'[m]
    BY <1>1, <1>2, <1>3, <2>1, <2>2
  <2>5. ASSUME NEW i \in 1..Len(log')
        PROVE  \E k \in 1..Current' : begins'[k] < i /\ i <= begins'[k] + LinesOf(k)'
    <3>1. CASE i \in 1..Len(log)
      <4>1. PICK k \in 1..Current : begins[k] < i /\ i <= begins[k] + LinesOf(k)
        BY <2>1, <3>1
      <4>2. LinesOf(k) \in Nat
        BY <1>1, FileBounds, LogIngestAssumption
      <4>3. begins'[k] = begins[k] /\ LinesOf(k)' \in {LinesOf(k), LinesOf(k) + 1} /\ k \in 1..Current'
        BY <1>1, <1>2
      <4>4. QED
        BY <2>1, <3>1, <4>1, <4>2, <4>3
    <3>2. CASE i \notin 1..Len(log)
      <4>1. i = Len(log') /\ Len(log') = Len(log) + 1 /\ Current' = Current
        BY <1>1, <1>2, <2>2, <3>2
      <4>2. LinesOf(Current)' = Len(log') - begins'[Current]
        BY <4>1 DEF LinesOf
      <4>3. PICK k : k = Current /\ k \in 1..Current' /\ LinesOf(k)' = Len(log') - begins'[k]
        BY <1>1, <4>1 DEF LinesOf
      <4>4. begins'[k] < i /\ begins'[k] \in Nat
        BY <1>1, <1>2, <2>1, <4>1, <4>3
      <4>5. QED
        BY <1>3, <4>1, <4>3, <4>4
    <3>3. QED
      BY <3>1, <3>2
  <2>6. QED
    BY <1>3, <2>3, <2>4, <2>5 DEF FilesDivideLog
<1>6. NamesListed'
  <2>1. \A j \in 1..Len(proc.todo) : proc.todo[j].name \in Nat
    <3>1. proc.todo \in Seq(ListedFiles)
      BY <1>1 DEF TypeOK, ListedFiles
    <3>2. \A j \in 1..Len(proc.todo) : proc.todo[j] \in ListedFiles
      BY <3>1, ElementOfSeq
    <3>3. QED
      BY <3>2, LogIngestAssumption DEF ListedFiles, Names
  <2>2. QED
    BY <1>1, <1>2, <2>1 DEF Shape, NamesListed
<1>7. QED
  BY <1>4, <1>5, <1>6 DEF Shape

\* The steps of the loop, its failures included.
Loop == Tick \/ StatementFails \/ FileFails \/ Crash

\* A statement on sessions keeps the rows well typed.
LEMMA HandleTyped ==
    ASSUME Shape, NEW i \in 1..Len(log), NEW ip \in BOOLEAN
    PROVE  Handle(sessions, i, ip) \subseteq Rows
<1>1. /\ sessions \subseteq Rows /\ i \in 1..MaxLines /\ log[i] \in Lines
  <2>1. log \in Seq(Lines) /\ Len(log) \in 0..MaxLines /\ sessions \subseteq Rows
    BY DEF Shape, TypeOK, Rows
  <2>2. QED
    BY <2>1, ElementOfSeq, LogIngestAssumption
<1>2. CASE log[i].kind = "LOGIN"
  <2>1. log[i].sess \in Sessids
    BY <1>1, <1>2 DEF Lines
  <2>2. [ip |-> ip, sess |-> log[i].sess, login |-> i, logoff |-> 0] \in Rows
    BY <1>1, <2>1, LogIngestAssumption DEF Rows
  <2>3. QED
    BY <1>1, <1>2, <2>2 DEF Handle, InsertLogin
<1>3. CASE log[i].kind = "LOGOFF"
  <2>1. \A r \in sessions : [r EXCEPT !.logoff = i] \in Rows
    BY <1>1, LogIngestAssumption DEF Rows
  <2>2. QED
    BY <1>1, <1>3, <2>1 DEF Handle, UpdateLogoffDirect
<1>4. CASE log[i].kind \notin {"LOGIN", "LOGOFF"}
  BY <1>1, <1>4 DEF Handle
<1>5. QED
  BY <1>2, <1>3, <1>4

\* Every step of the loop keeps the types: no file is read beyond its end,
\* whatever was renamed between listing, opening and saving.
LEMMA LoopShape ==
    ASSUME Shape, Loop
    PROVE  Shape'
<1> USE LogIngestAssumption
<1>1. /\ proc \in ProcStates /\ logfiles \in [Names -> Records] /\ sessions \subseteq Rows
      /\ handled \subseteq DOMAIN log /\ failed \subseteq DOMAIN log /\ faults \in 0..MaxFaults
      /\ Current \in 1..MaxFiles /\ DOMAIN log = 1..Len(log) /\ Len(log) \in 0..MaxLines
      /\ TypeOK /\ FilesDivideLog
      /\ \A j \in 1..Len(proc.todo) : proc.todo[j].name = Active \/ proc.todo[j].name < Current
      /\ proc.at \in {"open", "read"} => proc.todo # <<>>
  BY DEF Shape, TypeOK, ProcStates, ListedFiles, Records, Rows, NamesListed
<1>2. CASE List
  <2> DEFINE todo == [k \in 1..Current |->
            [name |-> IF k = Current THEN Active ELSE k, size |-> Bytes(k)]]
             to == [Idle EXCEPT !.at = "next", !.todo = todo]
  <2>1. \A k \in 1..Current : todo[k] \in ListedFiles /\ (todo[k].name = Active \/ todo[k].name < Current)
    BY <1>1, FileBounds DEF ListedFiles, Names, Active
  <2>2. todo \in Seq(ListedFiles) /\ Len(todo) = Current
    BY <1>1, <2>1, IsASeq
  <2>3. proc' = to
    BY <1>2 DEF List
  <2> HIDE DEF todo
  <2>4. to \in ProcStates /\ to.todo = todo /\ to.at = "next"
    BY <2>2, IdleTyped DEF ProcStates
  <2> HIDE DEF to
  <2>5. \A j \in 1..Len(proc'.todo) : proc'.todo[j].name = Active \/ proc'.todo[j].name < Current
    BY <2>1, <2>2, <2>3, <2>4
  <2>6. QED
    BY <1>1, <1>2, <2>3, <2>4, <2>5, LoopStep DEF List
<1>3. ASSUME proc' = Idle, UNCHANGED <<world, logfiles, sessions, handled, failed>>,
             faults' \in 0..MaxFaults
      PROVE  Shape'
  <2>1. Len(Idle.todo) = 0
    BY DEF Idle
  <2>2. QED
    BY <1>1, <1>3, <2>1, IdleTyped, LoopStep
<1>4. ASSUME proc.todo # <<>>, proc' = NextFile, UNCHANGED <<world, sessions, handled, failed>>,
             logfiles' \in [Names -> Records], faults' \in 0..MaxFaults
      PROVE  Shape'
  BY <1>1, <1>4, NextFileTyped, TodoHead, LoopStep
<1>5. CASE EndTick
  BY <1>1, <1>3, <1>5 DEF EndTick
<1>6. CASE SkipFile
  BY <1>1, <1>4, <1>6 DEF SkipFile
<1>7. CASE ReadServerIp
  <2>1. StartOffset(Head(proc.todo)) \in 0..MaxLines
    <3>1. Head(proc.todo).name \in Names
      BY <1>7, TodoHead DEF ReadServerIp, ListedFiles
    <3>2. logfiles[Head(proc.todo).name].offset \in 0..MaxLines
      BY <1>1, <3>1 DEF Records
    <3>3. QED
      BY <3>2 DEF StartOffset
  <2>2. PICK ip \in BOOLEAN : proc' = [proc EXCEPT !.at = "open",
                                  !.offset = StartOffset(Head(proc.todo)), !.ip = ip]
    BY <1>7 DEF ReadServerIp
  <2>3. proc' \in ProcStates /\ proc'.todo = proc.todo /\ proc'.at = "open"
    BY <1>1, <2>1, <2>2 DEF ProcStates
  <2>4. proc.todo # <<>> /\ UNCHANGED <<world, logfiles, sessions, handled, failed, faults>>
    BY <1>7 DEF ReadServerIp
  <2>5. QED
    BY <1>1, <2>3, <2>4, LoopStep
<1>8. CASE Open
  <2> DEFINE k == FileNamed(Name)
             offset == SeekTo(proc.offset, k)
  <2>1. proc.todo # <<>> /\ UNCHANGED <<world, logfiles, sessions, handled, failed, faults>>
        /\ proc' = [proc EXCEPT !.at = "read", !.file = k, !.offset = offset]
    BY <1>1, <1>8 DEF Open, Name
  <2>2. k \in 1..Current
    BY <2>1, TodoHead
  <2>3. offset \in 0..LinesOf(k) /\ offset \in 0..MaxLines
    <3>1. /\ LinesOf(k) \in 0..MaxLines /\ Bytes(k) \in Nat /\ Bytes(k) <= 2 * LinesOf(k) + 1
          /\ proc.offset \in 0..MaxLines
      BY <1>1, <2>2, FileBounds DEF ProcStates
    <3> HIDE DEF k
    <3>2. CASE 2 * proc.offset <= Bytes(k)
      BY <3>1, <3>2 DEF SeekTo
    <3>3. CASE ~(2 * proc.offset <= Bytes(k))
      BY <3>1, <3>3 DEF SeekTo
    <3>4. QED
      BY <3>2, <3>3
  <2> HIDE DEF k, offset
  <2>4. /\ proc' \in ProcStates /\ proc'.todo = proc.todo
        /\ proc'.at = "read" /\ proc'.file = k /\ proc'.offset = offset
    <3>1. k \in 0..MaxFiles
      BY <1>1, <2>2
    <3>2. QED
      BY <1>1, <2>1, <2>3, <3>1 DEF ProcStates
  <2>5. QED
    BY <1>1, <2>1, <2>2, <2>3, <2>4, LoopStep
<1>9. ASSUME LineLeft, sessions' \subseteq Rows, handled' \subseteq DOMAIN log,
             failed' \subseteq DOMAIN log, faults' \in 0..MaxFaults
      PROVE  Shape'
  <2>1. /\ proc.at = "read" /\ proc.offset < LinesOf(proc.file) /\ UNCHANGED <<world, logfiles>>
        /\ proc' = [proc EXCEPT !.offset = @ + 1]
    BY <1>9 DEF LineLeft
  <2>2. proc.file \in 1..Current /\ LinesOf(proc.file) \in 0..MaxLines
    BY <1>1, <2>1, FileBounds DEF TypeOK
  <2>3. proc.offset + 1 \in 0..LinesOf(proc.file) /\ proc.offset + 1 \in 0..MaxLines
    BY <1>1, <2>1, <2>2 DEF ProcStates
  <2>4. /\ proc' \in ProcStates /\ proc'.todo = proc.todo
        /\ proc'.at = "read" /\ proc'.file = proc.file /\ proc'.offset = proc.offset + 1
    BY <1>1, <2>1, <2>3 DEF ProcStates
  <2>5. QED
    BY <1>1, <1>9, <2>1, <2>2, <2>3, <2>4, LoopStep
<1>10. ASSUME LineLeft PROVE NextLine \in 1..Len(log)
  <2>1. proc.file \in 1..Current /\ proc.offset < LinesOf(proc.file) /\ proc.offset \in Nat
    BY <1>1, <1>10 DEF LineLeft, TypeOK, ProcStates
  <2>2. /\ begins[proc.file] \in Nat /\ LinesOf(proc.file) \in Nat
        /\ begins[proc.file] + LinesOf(proc.file) <= Len(log)
    BY <1>1, <2>1, FileBounds
  <2>3. QED
    BY <1>1, <2>1, <2>2 DEF NextLine
<1>11. CASE ReadLine
  <2>1. LineLeft /\ NextLine \in 1..Len(log)
    BY <1>10, <1>11 DEF ReadLine
  <2>2. sessions' \subseteq Rows
    BY <1>1, <1>11, <2>1, HandleTyped DEF ReadLine, ProcStates
  <2>3. QED
    BY <1>1, <1>9, <1>11, <2>1, <2>2 DEF ReadLine
<1>12. CASE StatementFails
  BY <1>1, <1>9, <1>10, <1>12 DEF StatementFails, Fault
<1>13. CASE SaveRecord
  <2>1. proc.at = "read" /\ proc.todo # <<>>
    BY <1>1, <1>13 DEF SaveRecord
  <2>2. Head(proc.todo).size \in 0..2 * MaxLines
    BY <2>1, TodoHead DEF ListedFiles
  <2>3. [new |-> FALSE, size |-> Head(proc.todo).size, offset |-> proc.offset,
         ip |-> proc.ip, file |-> proc.file] \in Records
    BY <1>1, <2>2 DEF Records, ProcStates
  <2>4. logfiles' \in [Names -> Records]
    BY <1>1, <1>13, <2>3 DEF SaveRecord, EndOffset
  <2>5. QED
    BY <1>1, <1>4, <1>13, <2>1, <2>4 DEF SaveRecord
<1>14. CASE FileFails
  BY <1>1, <1>4, <1>14 DEF FileFails, Fault
<1>15. CASE Crash
  BY <1>1, <1>3, <1>15 DEF Crash, Fault
<1>16. QED
  BY <1>2, <1>5, <1>6, <1>7, <1>8, <1>11, <1>12, <1>13, <1>14, <1>15 DEF Loop, Tick

LEMMA InitShape == Init => Shape
<1> SUFFICES ASSUME Init PROVE Shape
  OBVIOUS
<1> USE LogIngestAssumption
<1>1. /\ Len(log) = 0 /\ log \in Seq(Lines) /\ Current = 1 /\ begins \in Seq(0..MaxLines)
      /\ begins[1] = 0
  <2>1. <<>> \in Seq(Lines) /\ Len(<<>>) = 0 /\ <<0>> \in Seq(0..MaxLines) /\ Len(<<0>>) = 1
    OBVIOUS
  <2>2. QED
    BY <2>1 DEF Init, Current
<1>2. /\ proc \in ProcStates /\ proc.todo = <<>> /\ proc.at = "idle"
  BY IdleTyped DEF Init
<1>3. logfiles \in [Names -> Records]
  BY DEF Init, NoRecord, Records
<1>4. TypeOK
  BY <1>1, <1>2, <1>3 DEF Init, TypeOK, ProcStates, ListedFiles, Records
<1>5. FilesDivideLog
  BY <1>1 DEF FilesDivideLog, Init
<1>6. NamesListed
  BY <1>2 DEF NamesListed
<1>7. QED
  BY <1>4, <1>5, <1>6 DEF Shape

LEMMA NextShape == Shape /\ [Next]_vars => Shape'
<1>1. CASE UNCHANGED vars
  BY <1>1 DEF vars, world, Shape, TypeOK, FilesDivideLog, NamesListed, LinesOf, Current
<1>2. QED
  BY <1>1, ObserverShape, LoopShape DEF Next, Loop

LEMMA AlwaysShape == Spec => []Shape
BY InitShape, NextShape, PTL DEF Spec

\* Every reachable state is well typed: no file is read beyond its end and no
\* record points beyond one, whatever was renamed in the meantime.
THEOREM IngestTypeCorrect == Spec => []TypeOK
<1>1. Shape => TypeOK
  BY DEF Shape
<1>2. QED
  BY <1>1, AlwaysShape, PTL

-----------------------------------------------------------------------------
(* What has been read.                                                     *)

\* The first m lines of file k were executed, or their statements have failed.
WasRead(k, m) == \A i \in begins[k] + 1 .. begins[k] + m : i \in handled \cup failed

\* The record of a rotated file, if there is one, says that it was read to its
\* end, and a rotated file that is being read was read so far.
RotatedRead ==
    /\ \A n \in Names \ {Active} :
        IF logfiles[n].new
        THEN logfiles[n].offset = 0
        ELSE n < Current /\ logfiles[n].offset = LinesOf(n) /\ WasRead(n, LinesOf(n))
    /\ proc.at = "open" /\ Name # Active => proc.offset = logfiles[Name].offset
    /\ proc.at = "read" /\ Name # Active => proc.file = Name /\ WasRead(Name, proc.offset)

\* The step of the loop that takes it from one line to the next.
LineTaken ==
    /\ proc.at = "read" /\ proc'.at = "read" /\ proc'.todo = proc.todo
    /\ proc'.file = proc.file /\ proc'.offset = proc.offset + 1 /\ proc'.ip = proc.ip
    /\ proc.offset < LinesOf(proc.file)
    /\ NextLine \in handled' \cup failed'

\* The steps that leave no file open.
LEMMA LoopLeaves ==
    ASSUME Shape
    PROVE  /\ List \/ EndTick \/ Crash => proc'.at \in {"idle", "next"}
           /\ SkipFile \/ FileFails \/ SaveRecord => proc'.at = "next"
<1>1. proc.at \in {"open", "read"} => proc.todo # <<>>
  BY DEF Shape, NamesListed
<1>2. Crash \/ EndTick => proc'.at = "idle"
  BY DEF EndTick, Crash, Idle
<1>3. ASSUME NEW todo PROVE [Idle EXCEPT !.at = "next", !.todo = todo].at = "next"
  BY DEF Idle
<1>4. List => proc'.at = "next"
  BY <1>3 DEF List
<1>5. SkipFile \/ FileFails \/ SaveRecord => proc'.at = "next"
  BY <1>1, NextFileTyped DEF SkipFile, FileFails, SaveRecord
<1>6. QED
  BY <1>2, <1>4, <1>5

\* What each step of the loop does to the reading.
LEMMA LoopCases ==
    ASSUME Shape, Loop
    PROVE  /\ UNCHANGED world /\ handled \subseteq handled' /\ failed \subseteq failed'
           /\ ~SaveRecord => logfiles' = logfiles
           /\ \/ proc'.at \in {"idle", "next"}
              \/ ReadServerIp
              \/ Open
              \/ LineTaken
           /\ SaveRecord => proc'.at = "next" /\ proc.at = "read"
<1>1. proc \in ProcStates /\ (proc.at \in {"open", "read"} => proc.todo # <<>>)
  BY DEF Shape, TypeOK, NamesListed, ProcStates, ListedFiles
<1>2. UNCHANGED world /\ handled \subseteq handled' /\ failed \subseteq failed'
  BY DEF Loop, Tick, List, EndTick, SkipFile, ReadServerIp, Open, ReadLine, LineLeft, SaveRecord,
         StatementFails, FileFails, Crash
<1>3. ~SaveRecord => logfiles' = logfiles
  BY DEF Loop, Tick, List, EndTick, SkipFile, ReadServerIp, Open, ReadLine, LineLeft,
         StatementFails, FileFails, Crash
<1>4. List \/ EndTick \/ Crash => proc'.at \in {"idle", "next"}
  BY LoopLeaves
<1>5. SkipFile \/ FileFails \/ SaveRecord => proc'.at = "next"
  BY LoopLeaves
<1>6. ReadLine \/ StatementFails => LineTaken
  BY <1>1 DEF ReadLine, StatementFails, LineLeft, LineTaken, ProcStates
<1>7. SaveRecord => proc.at = "read"
  BY DEF SaveRecord
<1>8. QED
  BY <1>2, <1>3, <1>4, <1>5, <1>6, <1>7 DEF Loop, Tick

\* Where a step that opens or reads a file leaves the loop.
LEMMA LoopAt ==
    ASSUME Shape
    PROVE  /\ ReadServerIp => proc'.at = "open"
           /\ Open => proc'.at = "read"
           /\ LineTaken => proc'.at = "read"
<1>1. proc \in ProcStates
  BY DEF Shape, TypeOK, ProcStates, ListedFiles
<1>2. QED
  BY <1>1 DEF ReadServerIp, Open, LineTaken, ProcStates

\* What was read stays read, and the next line is read too.
LEMMA ReadGoesOn ==
    ASSUME Shape, Loop, NEW k \in 1..Current
    PROVE  /\ \A m : WasRead(k, m) => WasRead(k, m)'
           /\ LineTaken /\ k = proc.file /\ WasRead(k, proc.offset) => WasRead(k, proc.offset)'
<1>1. UNCHANGED world /\ handled \subseteq handled' /\ failed \subseteq failed'
  BY LoopCases
<1>2. ASSUME NEW m, WasRead(k, m) PROVE WasRead(k, m)'
  BY <1>1, <1>2 DEF WasRead, world
<1>3. ASSUME LineTaken, k = proc.file, WasRead(k, proc.offset) PROVE WasRead(k, proc.offset)'
  <2>1. begins[k] \in Nat /\ proc.offset \in Nat /\ begins' = begins
    <3>1. begins[k] \in 0..MaxLines
      BY FileBounds DEF Shape
    <3>2. proc.offset \in 0..MaxLines
      BY DEF Shape, TypeOK
    <3>3. QED
      BY <1>1, <3>1, <3>2, LogIngestAssumption DEF world
  <2>2. begins[k] + proc.offset + 1 \in handled' \cup failed' /\ proc'.offset = proc.offset + 1
    BY <1>3 DEF LineTaken, NextLine
  <2>3. \A i \in begins[k] + 1 .. begins[k] + (proc.offset + 1) : i \in handled' \cup failed'
    BY <1>1, <1>3, <2>1, <2>2 DEF WasRead
  <2>4. QED
    BY <2>1, <2>2, <2>3 DEF WasRead
<1>4. QED
  BY <1>2, <1>3

LEMMA ObserverRotatedRead ==
    ASSUME Shape, RotatedRead, Observer
    PROVE  RotatedRead'
<1>1. /\ Current' \in {Current, Current + 1}
      /\ \A k \in 1..Current : begins'[k] = begins[k] /\ (k # Current => LinesOf(k)' = LinesOf(k))
      /\ UNCHANGED <<logfiles, proc, handled, failed>>
  BY WorldGrows DEF Shape
<1>2. Current \in Nat \ {0} /\ (proc.todo # <<>> \/ proc.at \notin {"open", "read"})
  BY LogIngestAssumption DEF Shape, TypeOK, NamesListed
<1>3. ASSUME NEW n \in Names \ {Active}, ~logfiles[n].new
      PROVE  n < Current' /\ logfiles'[n].offset = LinesOf(n)' /\ WasRead(n, LinesOf(n))'
  <2>1. n \in 1..Current /\ n < Current
    BY <1>3, LogIngestAssumption DEF RotatedRead, Names, Active, Shape, TypeOK
  <2>2. LinesOf(n)' = LinesOf(n) /\ begins'[n] = begins[n]
    BY <1>1, <2>1, LogIngestAssumption DEF Shape, TypeOK
  <2>3. QED
    BY <1>1, <1>3, <2>1, <2>2, LogIngestAssumption DEF RotatedRead, WasRead, Shape, TypeOK
<1>4. ASSUME proc.at = "read", Name # Active
      PROVE  proc.file = Name /\ WasRead(Name, proc.offset)'
  <2>1. Name \in 1..Current
    BY <1>4, TodoHead, LogIngestAssumption DEF Shape, NamesListed
  <2>2. QED
    BY <1>1, <1>4, <2>1 DEF RotatedRead, WasRead, Name
<1>5. QED
  BY <1>1, <1>3, <1>4 DEF RotatedRead, Name

LEMMA LoopRotatedRead ==
    ASSUME Shape, RotatedRead, Loop
    PROVE  RotatedRead'
<1> USE LogIngestAssumption
<1>1. /\ UNCHANGED world /\ Current' = Current
      /\ \A k : LinesOf(k)' = LinesOf(k)
  BY LoopCases DEF world, LinesOf, Current
<1>2. /\ logfiles \in [Names -> Records] /\ proc \in ProcStates /\ Current \in 1..MaxFiles
      /\ proc.at \in {"open", "read"} => proc.todo # <<>>
      /\ TypeOK /\ FilesDivideLog
  BY DEF Shape, TypeOK, NamesListed, ProcStates, ListedFiles, Records
<1>3. ASSUME NEW n \in Names \ {Active}
      PROVE  IF logfiles'[n].new
             THEN logfiles'[n].offset = 0
             ELSE n < Current' /\ logfiles'[n].offset = LinesOf(n)' /\ WasRead(n, LinesOf(n))'
  <2>1. ASSUME n < Current, WasRead(n, LinesOf(n)) PROVE WasRead(n, LinesOf(n))'
    <3>1. n \in 1..Current
      BY <1>2, <2>1 DEF Names, Active
    <3>2. PICK m : m = LinesOf(n)
      OBVIOUS
    <3>3. WasRead(n, m)' /\ m = LinesOf(n)'
      BY <1>1, <2>1, <3>1, <3>2, ReadGoesOn
    <3>4. QED
      BY <3>3 DEF WasRead
  <2>2. CASE logfiles'[n] = logfiles[n]
    BY <1>1, <2>1, <2>2 DEF RotatedRead
  <2>3. CASE SaveRecord /\ n = Name
    <3>1. /\ proc.file = n /\ WasRead(n, proc.offset) /\ proc.offset = LinesOf(n) /\ n < Current
      BY <1>2, <2>3, TodoHead DEF SaveRecord, RotatedRead
    <3>2. ~logfiles'[n].new /\ logfiles'[n].offset = proc.offset
      BY <1>2, <2>3 DEF SaveRecord, EndOffset, Name
    <3>3. QED
      BY <1>1, <2>1, <3>1, <3>2
  <2>4. SaveRecord /\ n # Name => logfiles'[n] = logfiles[n]
    BY <1>2 DEF SaveRecord, Name
  <2>5. ~SaveRecord => logfiles'[n] = logfiles[n]
    BY LoopCases
  <2>6. QED
    BY <2>2, <2>3, <2>4, <2>5
<1>4. ASSUME proc'.at = "open", Name' # Active
      PROVE  proc'.offset = logfiles'[Name'].offset
  <2>1. ReadServerIp
    BY <1>4, LoopCases, LoopAt
  <2>2. /\ proc.todo # <<>> /\ proc'.todo = proc.todo /\ logfiles' = logfiles
        /\ proc'.offset = StartOffset(Head(proc.todo))
    BY <1>2, <2>1 DEF ReadServerIp, ProcStates
  <2>3. QED
    BY <1>4, <2>2 DEF StartOffset, ShouldResetToStart, Name
<1>5. ASSUME proc'.at = "read", Name' # Active
      PROVE  proc'.file = Name' /\ WasRead(Name, proc.offset)'
  <2>1. CASE Open
    <3>1. /\ proc.todo # <<>> /\ proc'.todo = proc.todo /\ logfiles' = logfiles
          /\ proc'.file = FileNamed(Name) /\ proc'.offset = SeekTo(proc.offset, FileNamed(Name))
          /\ proc.at = "open"
      BY <1>2, <2>1 DEF Open, ProcStates, Name
    <3>2. PICK n : n = Name
      OBVIOUS
    <3>3. n = Name' /\ n \in Names \ {Active} /\ n < Current /\ FileNamed(Name) = n
      BY <1>5, <3>1, <3>2, TodoHead DEF Name
    <3>4. proc.offset = logfiles[n].offset
      BY <1>5, <3>1, <3>2, <3>3 DEF RotatedRead
    <3>5. n \in 1..Current /\ begins[n] \in Nat
      BY <1>2, <3>3, FileBounds DEF Names, Active
    <3>6. CASE proc'.offset = 0
      BY <1>1, <3>1, <3>3, <3>5, <3>6 DEF WasRead, world
    <3>7. CASE proc'.offset # 0
      <4>1. proc'.offset = logfiles[n].offset /\ logfiles[n].offset # 0
        BY <3>1, <3>3, <3>4, <3>7 DEF SeekTo
      <4>2. logfiles[n].offset = LinesOf(n) /\ WasRead(n, LinesOf(n))
        BY <3>3, <4>1 DEF RotatedRead
      <4>3. PICK m : m = LinesOf(n)
        OBVIOUS
      <4>4. WasRead(n, m)'
        BY <3>5, <4>2, <4>3, ReadGoesOn
      <4>5. QED
        BY <3>1, <3>3, <4>1, <4>2, <4>3, <4>4 DEF WasRead
    <3>8. QED
      BY <3>6, <3>7
  <2>2. CASE LineTaken
    <3>1. /\ proc'.todo = proc.todo /\ proc.at = "read" /\ proc'.file = proc.file
          /\ proc.todo # <<>>
      BY <1>2, <2>2 DEF LineTaken
    <3>2. PICK n : n = Name
      OBVIOUS
    <3>3. n = Name' /\ n \in 1..Current /\ proc.file = n /\ WasRead(n, proc.offset)
      BY <1>2, <1>5, <3>1, <3>2, TodoHead DEF Name, RotatedRead, Names, Active
    <3>4. WasRead(n, proc.offset)'
      BY <2>2, <3>3, ReadGoesOn
    <3>5. QED
      BY <3>1, <3>3, <3>4 DEF WasRead
  <2>3. QED
    BY <1>5, <2>1, <2>2, LoopCases, LoopAt
<1>6. QED
  BY <1>3, <1>4, <1>5 DEF RotatedRead

\* If the file read was rotated, its successor is still so short that both the
\* size and the offset tell.
Outgrown(file, offset, size) ==
    file < Current /\ Bytes(Current) > 0 => Bytes(Current) < size /\ Bytes(Current) < 2 * offset

\* The record of the active name tells how far a file was read that bore the
\* name, and so does the loop while it reads one.
ActiveRead ==
    LET r == logfiles[Active] IN
    /\ ~r.new => r.file \in 1..Current
    /\ r.offset > 0 =>
        /\ ~r.new
        /\ r.offset <= LinesOf(r.file)
        /\ WasRead(r.file, r.offset)
        /\ Outgrown(r.file, r.offset, r.size)
    /\ proc.at = "open" /\ Name = Active => proc.offset \in {0, r.offset}
    /\ proc.at = "read" /\ Name = Active =>
        /\ WasRead(proc.file, proc.offset)
        /\ Outgrown(proc.file, proc.offset, Head(proc.todo).size)

\* What holds of the lines of file k that were read stays true while the
\* observer writes and renames.
LEMMA ObserverKeepsRead ==
    ASSUME Shape, Observer, NEW k \in 1..Current, NEW m
    PROVE  WasRead(k, m)' <=> WasRead(k, m)
<1>1. begins'[k] = begins[k] /\ handled' = handled /\ failed' = failed
  BY WorldGrows DEF Shape
<1>2. QED
  BY <1>1 DEF WasRead

\* The active file grows byte by byte and its successor is empty.
LEMMA ActiveGrows ==
    ASSUME Shape, Observer
    PROVE  \/ /\ Current' = Current /\ Detectable(Bytes(Current) + 1)
              /\ Bytes(Current)' = Bytes(Current) + 1
           \/ Current' = Current + 1 /\ Bytes(Current)' = 0
<1>1. Current \in Nat \ {0} /\ Len(log) \in Nat /\ begins[Current] \in Nat
      /\ log \in Seq(Lines) /\ begins \in Seq(0..MaxLines)
  <2>1. Current \in 1..Current /\ Current \in Nat \ {0} /\ TypeOK
    BY LogIngestAssumption DEF Shape, TypeOK
  <2>2. begins[Current] \in 0..MaxLines
    BY <2>1, FileBounds DEF Shape
  <2>3. QED
    BY <2>1, <2>2, LogIngestAssumption DEF TypeOK
<1>2. Bytes(Current) = 2 * (Len(log) - begins[Current]) + tail
      /\ Bytes(Current)' = 2 * (Len(log') - begins'[Current']) + tail'
  BY DEF Bytes, LinesOf
<1>3. CASE BeginLine
  <2>1. /\ tail = 0 /\ tail' = 1 /\ log' = log /\ begins' = begins
        /\ Current' = Current /\ Detectable(Bytes(Current) + 1)
    BY <1>3 DEF BeginLine, Current
  <2>2. QED
    BY <1>1, <1>2, <2>1
<1>4. CASE \E line \in Lines : EndLine(line)
  <2>1. PICK line \in Lines : EndLine(line)
    BY <1>4
  <2>2. /\ tail = 1 /\ tail' = 0 /\ Len(log') = Len(log) + 1 /\ begins' = begins
        /\ Current' = Current /\ Detectable(Bytes(Current) + 1)
    BY <1>1, <2>1, AppendProperties DEF EndLine, Current
  <2>3. PICK n \in Int : n = Len(log) - begins[Current]
    BY <1>1
  <2>4. Len(log') - begins'[Current'] = n + 1
    BY <1>1, <2>2, <2>3
  <2>5. Bytes(Current) = 2 * n + 1 /\ Bytes(Current)' = 2 * (n + 1)
    BY <1>1, <1>2, <2>2, <2>3, <2>4
  <2>6. QED
    BY <2>2, <2>5
<1>5. CASE Rotate
  <2>1. /\ tail' = 0 /\ log' = log
        /\ Current' = Current + 1 /\ begins'[Current + 1] = Len(log)
    BY <1>1, <1>5, AppendProperties DEF Rotate, Current
  <2>2. QED
    BY <1>1, <1>2, <2>1
<1>6. QED
  BY <1>3, <1>4, <1>5 DEF Observer

LEMMA ObserverActiveRead ==
    ASSUME RotationSeen, Shape, ActiveRead, Observer
    PROVE  ActiveRead'
<1> DEFINE r == logfiles[Active]
<1>1. /\ Current \in Nat \ {0} /\ Current' \in {Current, Current + 1}
      /\ proc \in ProcStates /\ r \in Records /\ r' = r
      /\ UNCHANGED <<logfiles, proc>>
      /\ proc.at = "read" => proc.file \in 1..Current
      /\ proc.at = "read" => proc.todo # <<>>
  <2>1. TypeOK /\ Current \in 1..MaxFiles /\ Active \in Names
    BY LogIngestAssumption DEF Shape, TypeOK, Active, Names
  <2>2. r \in Records /\ proc \in ProcStates
    BY <2>1 DEF TypeOK, Records, ProcStates, ListedFiles
  <2>3. Current' \in {Current, Current + 1} /\ UNCHANGED <<logfiles, proc>>
    BY WorldGrows DEF Shape
  <2>4. QED
    BY <2>1, <2>2, <2>3, LogIngestAssumption DEF Shape, TypeOK, NamesListed
<1>2. ASSUME NEW file \in 1..Current, NEW offset \in Nat, NEW size \in Nat,
             Outgrown(file, offset, size),
             Detectable(Bytes(Current) + 1) /\ file < Current =>
                Bytes(Current) + 1 < size /\ Bytes(Current) + 1 < 2 * offset
      PROVE  Outgrown(file, offset, size)'
  BY <1>1, <1>2, ActiveGrows DEF Outgrown
<1>3. ASSUME r.offset > 0
      PROVE  r.offset <= LinesOf(r.file)' /\ WasRead(r.file, r.offset)'
             /\ Outgrown(r.file, r.offset, r.size)'
  <2>1. PICK k, m : k = r.file /\ m = r.offset
    OBVIOUS
  <2>2. /\ k \in 1..Current /\ m <= LinesOf(k) /\ WasRead(k, m) /\ Outgrown(k, m, r.size)
        /\ m \in Nat /\ r.size \in Nat
    BY <1>1, <1>3, <2>1, LogIngestAssumption DEF ActiveRead, Records
  <2>3. LinesOf(k)' \in {LinesOf(k), LinesOf(k) + 1} /\ LinesOf(k) \in Nat
    <3>1. LinesOf(k) \in 0..MaxLines
      BY <2>2, FileBounds DEF Shape
    <3>2. QED
      BY <2>2, <3>1, WorldGrows, LogIngestAssumption DEF Shape
  <2>4. WasRead(k, m)'
    BY <2>2, ObserverKeepsRead
  <2>5. Outgrown(k, m, r.size)'
    BY <1>1, <1>2, <1>3, <2>1, <2>2 DEF Detectable
  <2>6. m <= LinesOf(k)'
    BY <2>2, <2>3
  <2>7. k = r'.file /\ m = r'.offset
    BY <1>1, <2>1
  <2>8. QED
    BY <1>1, <2>4, <2>5, <2>6, <2>7 DEF WasRead, Outgrown
<1>4. ASSUME proc.at = "read", Name = Active
      PROVE  /\ WasRead(proc.file, proc.offset)'
             /\ Outgrown(proc.file, proc.offset, Head(proc.todo).size)'
  <2>1. PICK k, m, size : k = proc.file /\ m = proc.offset /\ size = Head(proc.todo).size
    OBVIOUS
  <2>2. /\ k \in 1..Current /\ WasRead(k, m) /\ Outgrown(k, m, size)
        /\ m \in Nat /\ size \in Nat
    BY <1>1, <1>4, <2>1, TodoHead, LogIngestAssumption DEF ActiveRead, ProcStates, ListedFiles
  <2>3. WasRead(k, m)'
    BY <2>2, ObserverKeepsRead
  <2>4. Outgrown(k, m, size)'
    BY <1>1, <1>2, <1>4, <2>1, <2>2 DEF Detectable, Name
  <2>5. k = proc'.file /\ m = proc'.offset /\ size = Head(proc'.todo).size
    BY <1>1, <2>1
  <2>6. QED
    BY <2>3, <2>4, <2>5 DEF WasRead, Outgrown
<1>5. QED
  BY <1>1, <1>3, <1>4 DEF ActiveRead, Name

LEMMA LoopActiveRead ==
    ASSUME Shape, ActiveRead, Loop
    PROVE  ActiveRead'
<1> DEFINE r == logfiles[Active]
<1>1. /\ UNCHANGED world /\ Current' = Current
      /\ \A k : LinesOf(k)' = LinesOf(k) /\ Bytes(k)' = Bytes(k)
      /\ \A file, offset, size : Outgrown(file, offset, size)' = Outgrown(file, offset, size)
  <2>1. UNCHANGED world /\ Current' = Current /\ \A k : LinesOf(k)' = LinesOf(k)
    BY LoopCases DEF world, LinesOf, Current
  <2>2. \A k : Bytes(k)' = Bytes(k)
    BY <2>1 DEF Bytes, world
  <2>3. Bytes(Current)' = Bytes(Current)
    BY <2>1, <2>2 DEF Bytes
  <2>4. QED
    BY <2>1, <2>2, <2>3 DEF Outgrown
<1>2. /\ logfiles \in [Names -> Records] /\ proc \in ProcStates /\ Current \in 1..MaxFiles
      /\ proc.at \in {"open", "read"} => proc.todo # <<>>
      /\ TypeOK /\ FilesDivideLog /\ Active \in Names /\ r \in Records
      /\ proc.at = "read" => proc.file \in 1..Current /\ proc.offset \in 0..LinesOf(proc.file)
  <2>1. /\ logfiles \in [Names -> Records] /\ proc \in ProcStates
        /\ TypeOK /\ FilesDivideLog /\ Current \in 1..MaxFiles
        /\ proc.at = "read" =>
            proc.file \in 1..Current /\ proc.offset \in 0..LinesOf(proc.file)
    BY DEF Shape, TypeOK, ProcStates, ListedFiles, Records
  <2>2. Active \in Names
    BY LogIngestAssumption DEF Names, Active
  <2>3. QED
    BY <2>1, <2>2 DEF Shape, NamesListed
<1>3. ASSUME r' = r
      PROVE  /\ ~r'.new => r'.file \in 1..Current'
             /\ r'.offset > 0 => /\ ~r'.new /\ r'.offset <= LinesOf(r.file)'
                                 /\ WasRead(r.file, r.offset)'
                                 /\ Outgrown(r.file, r.offset, r.size)'
  <2>1. PICK k, m : k = r.file /\ m = r.offset
    OBVIOUS
  <2>2. m > 0 => k \in 1..Current /\ WasRead(k, m)'
    BY <2>1, ReadGoesOn DEF ActiveRead
  <2>3. m > 0 => WasRead(r.file, r.offset)' /\ Outgrown(r.file, r.offset, r.size)'
    BY <1>1, <1>3, <2>1, <2>2 DEF ActiveRead, WasRead, Outgrown
  <2>4. QED
    BY <1>1, <1>3, <2>1, <2>3 DEF ActiveRead
<1>4. CASE SaveRecord /\ Name = Active
  <2>1. PICK k, m, size : k = proc.file /\ m = proc.offset /\ size = Head(proc.todo).size
    OBVIOUS
  <2>2. /\ k \in 1..Current /\ m = LinesOf(k) /\ m \in Nat
        /\ WasRead(k, m) /\ Outgrown(k, m, size)
    BY <1>2, <1>4, <2>1, LogIngestAssumption DEF SaveRecord, ActiveRead, ProcStates
  <2>3. /\ ~r'.new /\ r'.file = k /\ r'.offset = m /\ r'.size = size
        /\ proc'.at \notin {"open", "read"}
    BY <1>2, <1>4, <2>1, LoopCases DEF SaveRecord, Name, EndOffset
  <2>4. WasRead(k, m)' /\ Outgrown(k, m, size)' /\ m <= LinesOf(k)'
    BY <1>1, <2>2, ReadGoesOn
  <2>5. QED
    BY <1>1, <2>2, <2>3, <2>4 DEF ActiveRead, WasRead, Outgrown
<1>5. CASE ~(SaveRecord /\ Name = Active)
  <2>1. r' = r
    BY <1>2, <1>5, LoopCases DEF SaveRecord, Name
  <2>2. ASSUME proc'.at = "open", Name' = Active
        PROVE  proc'.offset \in {0, r'.offset}
    <3>1. ReadServerIp
      BY <2>2, LoopCases, LoopAt
    <3>2. proc'.todo = proc.todo /\ proc'.offset = StartOffset(Head(proc.todo))
      BY <1>2, <3>1 DEF ReadServerIp, ProcStates
    <3>3. QED
      BY <2>1, <2>2, <3>2 DEF StartOffset, Name
  <2>3. ASSUME proc'.at = "read", Name' = Active, Open
        PROVE  /\ WasRead(proc.file, proc.offset)'
               /\ Outgrown(proc.file, proc.offset, Head(proc.todo).size)'
    <3>1. /\ proc.at = "open" /\ proc'.todo = proc.todo /\ FileNamed(Name) = Current
          /\ proc'.file = Current /\ proc'.offset = SeekTo(proc.offset, Current)
      BY <1>2, <2>3 DEF Open, ProcStates, Name, FileNamed
    <3>2. proc.offset \in {0, r.offset} /\ r.offset \in Nat
      BY <1>2, <2>3, <3>1, LogIngestAssumption DEF ActiveRead, Name, Records
    <3>3. PICK k : k = Current /\ k \in 1..Current
      BY <1>2
    <3>4. Bytes(Current) \in Nat /\ begins[k] \in Nat /\ begins' = begins
      BY <1>1, <1>2, <3>3, FileBounds, LogIngestAssumption DEF world
    <3>5. WasRead(k, 0)'
      BY <3>4 DEF WasRead
    <3>6. ASSUME proc'.offset # 0 PROVE WasRead(k, r.offset) /\ proc'.offset = r.offset
      <4>1. /\ proc'.offset = r.offset /\ r.offset > 0 /\ 2 * r.offset <= Bytes(Current)
        BY <3>1, <3>2, <3>6 DEF SeekTo
      <4>2. /\ WasRead(r.file, r.offset) /\ Outgrown(r.file, r.offset, r.size)
            /\ r.file \in 1..Current
        BY <4>1 DEF ActiveRead
      <4>3. ~(r.file < Current)
        BY <1>2, <3>2, <3>4, <4>1, <4>2 DEF Outgrown, Records
      <4>4. r.file = k
        BY <1>2, <3>3, <4>2, <4>3
      <4>5. QED
        BY <4>1, <4>2, <4>4
    <3>7. PICK m : m = r.offset
      OBVIOUS
    <3>8. proc'.offset # 0 => WasRead(k, m)' /\ proc'.offset = m
      BY <3>3, <3>6, <3>7, ReadGoesOn
    <3>9. WasRead(proc.file, proc.offset)'
      BY <3>1, <3>3, <3>5, <3>8 DEF WasRead
    <3>10. QED
      BY <1>1, <1>2, <3>1, <3>9 DEF Outgrown
  <2>4. ASSUME proc'.at = "read", Name' = Active, LineTaken
        PROVE  /\ WasRead(proc.file, proc.offset)'
               /\ Outgrown(proc.file, proc.offset, Head(proc.todo).size)'
    <3>1. PICK k, m, size : k = proc.file /\ m = proc.offset /\ size = Head(proc.todo).size
      OBVIOUS
    <3>2. /\ proc.at = "read" /\ proc'.todo = proc.todo /\ proc'.file = k
          /\ proc'.offset = m + 1 /\ k \in 1..Current /\ m \in Nat
      BY <1>2, <2>4, <3>1, LogIngestAssumption DEF LineTaken, ProcStates
    <3>3. WasRead(k, m) /\ Outgrown(k, m, size)
      BY <2>4, <3>1, <3>2 DEF ActiveRead, Name
    <3>4. WasRead(k, proc.offset)'
      BY <2>4, <3>1, <3>2, <3>3, ReadGoesOn
    <3>5. Outgrown(k, m + 1, size)
      <4>1. Current \in 1..Current /\ Bytes(Current) \in 0..2 * MaxLines
        BY <1>2, FileBounds
      <4>2. QED
        BY <3>2, <3>3, <4>1, LogIngestAssumption DEF Outgrown
    <3>6. QED
      BY <1>1, <3>1, <3>2, <3>4, <3>5 DEF WasRead, Outgrown
  <2>5. QED
    BY <1>3, <2>1, <2>2, <2>3, <2>4, LoopCases, LoopAt DEF ActiveRead
<1>6. QED
  BY <1>4, <1>5

Reading == Shape /\ RotatedRead

LEMMA AlwaysReading == Spec => []Reading
<1>1. Init => Reading
  <2>1. Init => RotatedRead
    BY IdleTyped DEF Init, RotatedRead, NoRecord
  <2>2. QED
    BY <2>1, InitShape DEF Reading
<1>2. Reading /\ [Next]_vars => Reading'
  <2>1. SUFFICES ASSUME Reading, [Next]_vars PROVE RotatedRead'
    BY NextShape DEF Reading
  <2>2. CASE UNCHANGED vars
    BY <2>1, <2>2 DEF vars, world, Reading, RotatedRead, WasRead, LinesOf, Current, Name
  <2>3. QED
    BY <2>1, <2>2, ObserverRotatedRead, LoopRotatedRead DEF Next, Loop, Reading
<1>3. QED
  BY <1>1, <1>2, PTL DEF Spec

\* If a new log file stays shorter than the record of its predecessor until a
\* tick has read it, no complete line is ever left behind: whenever it was
\* renamed, listed, opened or saved and whatever failed in between, the line
\* was handed to the handler or readAndProcess and shouldResetToStart will come
\* to it.
THEOREM NoLineIsSkipped ==
    ASSUME RotationSeen
    PROVE  Spec => []NothingSkipped
<1>1. Init => ActiveRead
  BY IdleTyped, LogIngestAssumption DEF Init, ActiveRead, NoRecord, Names, Active
<1>2. Reading /\ ActiveRead /\ [Next]_vars => ActiveRead'
  <2>1. SUFFICES ASSUME Reading, ActiveRead, [Next]_vars PROVE ActiveRead'
    OBVIOUS
  <2>2. CASE UNCHANGED vars
    BY <2>1, <2>2
    DEF vars, world, ActiveRead, WasRead, Outgrown, LinesOf, Bytes, Current, Name
  <2>3. QED
    BY <2>1, <2>2, ObserverActiveRead, LoopActiveRead DEF Next, Loop, Reading
<1>3. Reading /\ ActiveRead => NothingSkipped
  <2>1. SUFFICES ASSUME Reading, ActiveRead, NEW i \in DOMAIN log, i \notin handled \cup failed
                 PROVE  WillBeRead(i)
    BY DEF NothingSkipped
  <2>2. /\ i \in 1..Len(log) /\ Current \in 1..MaxFiles /\ logfiles \in [Names -> Records]
        /\ TypeOK /\ FilesDivideLog
    BY <2>1 DEF Reading, Shape, TypeOK, Records
  <2> DEFINE k == FileOf(i)
  <2>3. k \in 1..Current /\ begins[k] < i /\ i <= begins[k] + LinesOf(k)
    BY <2>2 DEF FilesDivideLog, FileOf
  <2>4. /\ begins[k] \in 0..MaxLines /\ LinesOf(k) \in 0..MaxLines
        /\ 2 * LinesOf(k) <= Bytes(k) /\ Bytes(k) \in 0..2 * MaxLines
    BY <2>2, <2>3, FileBounds
  <2> HIDE DEF k
  <2>5. ASSUME NEW m \in Nat, m >= i - begins[k], WasRead(k, m) PROVE FALSE
    BY <2>1, <2>2, <2>3, <2>4, <2>5, LogIngestAssumption DEF WasRead
  <2>6. CASE k # Current
    <3>1. NameOf(k) = k /\ k \in Names \ {Active}
      BY <2>2, <2>3, <2>6, LogIngestAssumption DEF NameOf, Names, Active
    <3>2. logfiles[k].new \/ WasRead(k, LinesOf(k))
      BY <2>1, <3>1 DEF Reading, RotatedRead
    <3>3. logfiles[k].new
      BY <2>2, <2>3, <2>4, <2>5, <3>2, LogIngestAssumption
    <3>4. QED
      BY <3>1, <3>3 DEF WillBeRead, k
  <2>7. CASE k = Current
    <3> DEFINE r == logfiles[Active]
    <3>1. NameOf(k) = Active /\ r \in Records
      BY <2>2, <2>7, LogIngestAssumption DEF NameOf, Names, Active
    <3>2. CASE r.new \/ r.offset < i - begins[k]
      BY <3>1, <3>2 DEF WillBeRead, k
    <3>3. CASE ~r.new /\ ~(r.offset < i - begins[k])
      <4>1. r.offset \in Nat /\ r.offset >= i - begins[k] /\ r.offset > 0
        BY <2>2, <2>3, <2>4, <3>1, <3>3, LogIngestAssumption DEF Records
      <4>2. /\ r.file \in 1..Current /\ WasRead(r.file, r.offset)
            /\ Outgrown(r.file, r.offset, r.size)
        BY <2>1, <4>1 DEF ActiveRead
      <4>3. r.file # k
        BY <2>5, <4>1, <4>2
      <4>4. Bytes(k) > 0
        BY <2>2, <2>3, <2>4, LogIngestAssumption
      <4>5. Bytes(k) < r.size
        BY <2>2, <2>7, <4>2, <4>3, <4>4 DEF Outgrown
      <4>6. QED
        BY <2>7, <3>1, <4>5 DEF WillBeRead, k
    <3>4. QED
      BY <3>2, <3>3
  <2>8. QED
    BY <2>6, <2>7
<1>4. QED
  BY <1>1, <1>2, <1>3, AlwaysReading, PTL DEF Spec

-----------------------------------------------------------------------------
(* What has been closed.                                                   *)

\* Every row is that of an executed login, and every executed login has one.
RowsOfLogins ==
    /\ proc.at \in {"open", "read"} => proc.ip
    /\ \A r \in sessions :
        /\ r.login \in handled /\ log[r.login].kind = "LOGIN" /\ r.sess = log[r.login].sess
        /\ r.ip
    /\ \A i \in handled : log[i].kind = "LOGIN" => \E r \in sessions : r.login = i

\* What a line read does to the rows: those there are stay, closed ones closed,
\* a logoff closes every row of its session, and only the login of a line not
\* handled before makes a new one.
RowsFollow(i) ==
    /\ \A r \in sessions' :
        \/ \E q \in sessions :
            /\ r.login = q.login /\ r.sess = q.sess /\ r.ip = q.ip
            /\ q.logoff # 0 => r.logoff # 0
            /\ log[i].kind = "LOGOFF" /\ q.sess = log[i].sess => r.logoff # 0
        \/ /\ r.login = i /\ i \notin handled /\ r.ip /\ r.sess = log[i].sess
           /\ log[i].kind = "LOGIN"
    /\ \A q \in sessions : \E r \in sessions' : r.login = q.login
    /\ log[i].kind = "LOGIN" => \E r \in sessions' : r.login = i

LEMMA HandleFollows ==
    ASSUME Shape, RowsOfLogins, NEW i \in 1..Len(log), sessions' = Handle(sessions, i, TRUE)
    PROVE  RowsFollow(i)
<1>1. sessions \subseteq Rows /\ log[i] \in Lines /\ i # 0
  <2>1. log \in Seq(Lines) /\ Len(log) \in Nat /\ sessions \subseteq Rows
    BY LogIngestAssumption DEF Shape, TypeOK, Rows
  <2>2. QED
    BY <2>1, ElementOfSeq
<1>2. CASE log[i].kind = "LOGIN"
  <2> DEFINE row == [ip |-> TRUE, sess |-> log[i].sess, login |-> i, logoff |-> 0]
  <2>1. CASE \E r \in sessions : r.ip = TRUE /\ r.sess = log[i].sess /\ r.login = i
    <3>1. sessions' = sessions
      BY <1>2, <2>1 DEF Handle, InsertLogin
    <3>2. QED
      BY <1>2, <2>1, <3>1 DEF RowsFollow
  <2>2. CASE ~\E r \in sessions : r.ip = TRUE /\ r.sess = log[i].sess /\ r.login = i
    <3>1. sessions' = sessions \cup {row}
      BY <1>2, <2>2 DEF Handle, InsertLogin
    <3>2. i \notin handled
      BY <1>2, <2>2 DEF RowsOfLogins
    <3>3. row.login = i /\ row.ip /\ row.sess = log[i].sess
      OBVIOUS
    <3> HIDE DEF row
    <3>4. QED
      BY <1>2, <3>1, <3>2, <3>3 DEF RowsFollow
  <2>3. QED
    BY <2>1, <2>2
<1>3. CASE log[i].kind = "LOGOFF"
  <2> DEFINE after(r) == IF r.ip /\ r.sess = log[i].sess /\ r.logoff = 0
                         THEN [r EXCEPT !.logoff = i] ELSE r
  <2>1. sessions' = {after(r) : r \in sessions}
    BY <1>3 DEF Handle, UpdateLogoffDirect
  <2>2. ASSUME NEW q \in sessions
        PROVE  /\ after(q).login = q.login /\ after(q).sess = q.sess /\ after(q).ip = q.ip
               /\ q.logoff # 0 => after(q).logoff # 0
               /\ q.sess = log[i].sess => after(q).logoff # 0
    <3>1. q \in Rows /\ q.ip
      BY <1>1 DEF RowsOfLogins
    <3>2. QED
      BY <1>1, <3>1 DEF Rows
  <2> HIDE DEF after
  <2>3. QED
    BY <1>3, <2>1, <2>2 DEF RowsFollow
<1>4. CASE log[i].kind \notin {"LOGIN", "LOGOFF"}
  <2>1. sessions' = sessions
    BY <1>4 DEF Handle
  <2>2. QED
    BY <1>4, <2>1 DEF RowsFollow
<1>5. QED
  BY <1>2, <1>3, <1>4

\* The line that is next to read is a complete one.
LEMMA NextLineWritten ==
    ASSUME Shape, proc.at = "read", proc.offset < LinesOf(proc.file)
    PROVE  /\ NextLine \in 1..Len(log)
           /\ proc.file \in 1..Current
           /\ log[NextLine] \in Lines
<1> USE LogIngestAssumption
<1>1. /\ proc.file \in 1..Current /\ proc.offset \in 0..MaxLines
      /\ log \in Seq(Lines) /\ Len(log) \in Nat
  BY DEF Shape, TypeOK
<1>2. /\ begins[proc.file] \in 0..MaxLines /\ LinesOf(proc.file) \in 0..MaxLines
      /\ begins[proc.file] + LinesOf(proc.file) <= Len(log)
  BY <1>1, FileBounds DEF Shape
<1>3. NextLine \in 1..Len(log)
  BY <1>1, <1>2 DEF NextLine
<1>4. QED
  BY <1>1, <1>3, ElementOfSeq

\* A loop that knows the address hands every line on with it.
LEMMA ReadLineFollows ==
    ASSUME HeaderAtOnce, Shape, RowsOfLogins, ReadLine
    PROVE  /\ NextLine \in 1..Len(log)
           /\ sessions' = Handle(sessions, NextLine, TRUE)
           /\ RowsFollow(NextLine)
           /\ handled' = handled \cup {NextLine}
           /\ UNCHANGED <<world, failed>>
<1>1. /\ proc.at = "read" /\ proc.offset < LinesOf(proc.file)
      /\ handled' = handled \cup {NextLine} /\ UNCHANGED <<world, failed>>
  BY DEF ReadLine, LineLeft
<1>2. proc.ip = TRUE
  BY <1>1 DEF RowsOfLogins, Shape, TypeOK
<1>3. NextLine \in 1..Len(log)
  BY <1>1, NextLineWritten
<1>4. sessions' = Handle(sessions, NextLine, TRUE)
  BY <1>2 DEF ReadLine
<1>5. QED
  BY <1>1, <1>3, <1>4, HandleFollows

\* Only reading a line changes the rows and the lines handled.
LEMMA RowsStay ==
    ASSUME Loop, ~ReadLine
    PROVE  UNCHANGED <<sessions, handled>>
BY DEF Loop, Tick, List, EndTick, SkipFile, ReadServerIp, Open, LineLeft, SaveRecord,
       StatementFails, FileFails, Crash

LEMMA AlwaysRowsOfLogins ==
    ASSUME HeaderAtOnce
    PROVE  Spec => [](Shape /\ RowsOfLogins)
<1>1. Init => RowsOfLogins
  BY IdleTyped DEF Init, RowsOfLogins
<1>2. ASSUME Shape, RowsOfLogins, Observer PROVE RowsOfLogins'
  <2>1. /\ \A i \in 1..Len(log) : log'[i] = log[i]
        /\ UNCHANGED <<sessions, proc, handled>>
        /\ handled \subseteq 1..Len(log)
    BY <1>2, WorldGrows DEF Shape, TypeOK
  <2>2. QED
    BY <1>2, <2>1 DEF RowsOfLogins
<1>3. ASSUME Shape, RowsOfLogins, Loop PROVE RowsOfLogins'
  <2>1. log' = log /\ proc \in ProcStates
    BY <1>3, LoopCases DEF world, Shape, TypeOK, ProcStates, ListedFiles
  <2>2. proc'.at \in {"open", "read"} => proc'.ip
    <3>1. ReadServerIp => proc'.ip
      BY <2>1 DEF ReadServerIp, ProcStates
    <3>2. Open => proc'.ip
      BY <1>3, <2>1 DEF Open, RowsOfLogins, ProcStates
    <3>3. LineTaken => proc'.ip
      BY <1>3 DEF LineTaken, RowsOfLogins
    <3>4. QED
      BY <1>3, <3>1, <3>2, <3>3, LoopCases
  <2>3. CASE ReadLine
    <3>1. PICK i : i = NextLine
      OBVIOUS
    <3>2. RowsFollow(i) /\ handled' = handled \cup {i}
      BY <1>3, <2>3, <3>1, ReadLineFollows
    <3>3. \A r \in sessions' :
            /\ r.login \in handled' /\ log[r.login].kind = "LOGIN" /\ r.sess = log[r.login].sess
            /\ r.ip
      BY <1>3, <3>2 DEF RowsFollow, RowsOfLogins
    <3>4. \A j \in handled' : log[j].kind = "LOGIN" => \E r \in sessions' : r.login = j
      BY <1>3, <3>2 DEF RowsFollow, RowsOfLogins
    <3>5. QED
      BY <2>1, <2>2, <3>3, <3>4 DEF RowsOfLogins
  <2>4. CASE ~ReadLine
    BY <1>3, <2>1, <2>2, <2>4, RowsStay DEF RowsOfLogins
  <2>5. QED
    BY <2>3, <2>4
<1>4. ASSUME UNCHANGED vars, RowsOfLogins PROVE RowsOfLogins'
  BY <1>4 DEF vars, world, RowsOfLogins
<1>5. Shape /\ RowsOfLogins /\ [Next]_vars => (Shape /\ RowsOfLogins)'
  BY <1>2, <1>3, <1>4, NextShape DEF Next, Loop
<1>6. QED
  BY <1>1, <1>5, InitShape, PTL DEF Spec

\* Where a log file never exists without its first line, reading the files
\* implements SessionTrail: over renames, files read again, failures and
\* restarts, a login brings one row at most, once, and a row changes only as a
\* LOGOFF that was written says (InsertLogin, UpdateLogoffDirect).
THEOREM ImplementsSessionTrail ==
    ASSUME HeaderAtOnce
    PROVE  Spec => SessionTrailSpec
<1> DEFINE seen(r) == [sess |-> r.sess, login |-> r.login, logoff |-> r.logoff]
           rows == {seen(r) : r \in sessions}
<1>1. Init => Trail!Init
  BY DEF Init, Trail!Init
<1>2. ASSUME Shape, Observer PROVE [Trail!Next]_Trail!vars
  <2>1. UNCHANGED <<sessions, handled>>
    BY <1>2, WorldGrows DEF Shape
  <2>2. CASE \E line \in Lines : EndLine(line)
    <3>1. PICK line \in Lines : EndLine(line)
      BY <2>2
    <3>2. Trail!Write(line)
      BY <2>1, <3>1 DEF EndLine, Trail!Write
    <3>3. QED
      BY <3>2 DEF Trail!Next
  <2>3. CASE BeginLine \/ Rotate
    BY <2>1, <2>3 DEF BeginLine, Rotate, Trail!vars
  <2>4. QED
    BY <1>2, <2>2, <2>3 DEF Observer
<1>3. ASSUME Shape, RowsOfLogins, ReadLine PROVE [Trail!Next]_Trail!vars
  <2>1. PICK i : i = NextLine
    OBVIOUS
  <2>2. /\ i \in 1..Len(log) /\ sessions' = Handle(sessions, i, TRUE)
        /\ handled' = handled \cup {i} /\ log' = log
    BY <1>3, <2>1, ReadLineFollows DEF world
  <2>3. i \in DOMAIN log /\ log[i].kind \in {"LOGIN", "LOGOFF", "noise"}
    <3>1. log \in Seq(Lines)
      BY <1>3 DEF Shape, TypeOK
    <3>2. log[i] \in Lines
      BY <2>2, <3>1, ElementOfSeq
    <3>3. QED
      BY <2>2, <3>1, <3>2 DEF Lines
  <2>4. CASE log[i].kind = "LOGIN" /\ i \notin handled
    <3> DEFINE row == [ip |-> TRUE, sess |-> log[i].sess, login |-> i, logoff |-> 0]
    <3>1. ~\E r \in sessions : r.ip = TRUE /\ r.sess = log[i].sess /\ r.login = i
      BY <1>3, <2>4 DEF RowsOfLogins
    <3>2. sessions' = sessions \cup {row}
      BY <2>2, <2>4, <3>1 DEF Handle, InsertLogin
    <3>3. seen(row) = [sess |-> log[i].sess, login |-> i, logoff |-> 0]
      OBVIOUS
    <3>4. {seen(r) : r \in sessions'} = rows \cup {seen(row)}
      <4> HIDE DEF seen, row
      <4>1. QED
        BY <3>2
    <3>5. Trail!Appear(i)
      BY <2>2, <2>4, <3>3, <3>4 DEF Trail!Appear
    <3>6. QED
      BY <2>3, <3>5 DEF Trail!Next
  <2>5. CASE log[i].kind = "LOGIN" /\ i \in handled
    <3>1. PICK r \in sessions : r.login = i
      BY <1>3, <2>5 DEF RowsOfLogins
    <3>2. r.sess = log[i].sess /\ r.ip = TRUE
      BY <1>3, <3>1 DEF RowsOfLogins, Shape, TypeOK
    <3>3. sessions' = sessions
      BY <2>2, <2>5, <3>1, <3>2 DEF Handle, InsertLogin
    <3>4. handled' = handled
      BY <2>2, <2>5
    <3>5. QED
      BY <2>2, <3>3, <3>4 DEF Trail!vars
  <2>6. CASE log[i].kind = "LOGOFF"
    <3> DEFINE after(r) == IF r.ip /\ r.sess = log[i].sess /\ r.logoff = 0
                           THEN [r EXCEPT !.logoff = i] ELSE r
               close(r) == IF r.sess = log[i].sess /\ r.logoff = 0
                           THEN [r EXCEPT !.logoff = i] ELSE r
    <3>1. sessions' = {after(r) : r \in sessions}
      BY <2>2, <2>6 DEF Handle, UpdateLogoffDirect
    <3>2. ASSUME NEW r \in sessions PROVE seen(after(r)) = close(seen(r))
      <4>1. r \in Rows /\ r.ip
        BY <1>3 DEF Shape, TypeOK, Rows, RowsOfLogins
      <4>2. CASE r.sess = log[i].sess /\ r.logoff = 0
        <5>1. after(r) = [r EXCEPT !.logoff = i]
          BY <4>1, <4>2
        <5>2. seen(after(r)) = [sess |-> r.sess, login |-> r.login, logoff |-> i]
          BY <4>1, <5>1 DEF Rows
        <5>3. close(seen(r)) = [sess |-> r.sess, login |-> r.login, logoff |-> i]
          BY <4>2
        <5>4. QED
          BY <5>2, <5>3
      <4>3. CASE ~(r.sess = log[i].sess /\ r.logoff = 0)
        BY <4>3
      <4>4. QED
        BY <4>2, <4>3
    <3>3. {seen(r) : r \in sessions'} = {close(q) : q \in rows}
      <4> HIDE DEF seen, after, close
      <4>1. QED
        BY <3>1, <3>2
    <3>4. Trail!Close(i)
      BY <2>2, <2>6, <3>3 DEF Trail!Close
    <3>5. QED
      BY <2>3, <3>4 DEF Trail!Next
  <2>7. CASE log[i].kind = "noise"
    <3>1. sessions' = sessions
      BY <2>2, <2>7 DEF Handle
    <3>2. Trail!Pass(i)
      BY <2>2, <2>7, <3>1 DEF Trail!Pass
    <3>3. QED
      BY <2>3, <3>2 DEF Trail!Next
  <2>8. QED
    BY <2>3, <2>4, <2>5, <2>6, <2>7
<1>4. ASSUME Shape, Loop, ~ReadLine PROVE UNCHANGED Trail!vars
  BY <1>4, LoopCases, RowsStay DEF Trail!vars, world
<1>5. ASSUME UNCHANGED vars PROVE UNCHANGED Trail!vars
  BY <1>5 DEF vars, world, Trail!vars
<1>6. Shape /\ RowsOfLogins /\ [Next]_vars => [Trail!Next]_Trail!vars
  BY <1>2, <1>3, <1>4, <1>5 DEF Next, Loop
<1>7. QED
  BY <1>1, <1>6, AlwaysRowsOfLogins, PTL DEF Spec, SessionTrailSpec, Trail!Spec

\* Every session that came and went within the first m lines of file k is closed.
Closed(k, m) ==
    \A i, j \in begins[k] + 1 .. begins[k] + m :
        (/\ log[i].kind = "LOGIN" /\ log[j].kind = "LOGOFF"
         /\ log[i].sess = log[j].sess /\ i < j
         /\ {i, j} \cap failed = {})
        => \A r \in sessions : r.login = i => r.logoff # 0


\* The lines of a file are complete ones.
LEMMA RangeWritten ==
    ASSUME Shape, NEW k \in 1..Current, NEW m \in Nat, m <= LinesOf(k)
    PROVE  begins[k] \in Nat /\ \A i \in begins[k] + 1 .. begins[k] + m : i \in 1..Len(log)
<1>1. /\ begins[k] \in 0..MaxLines /\ LinesOf(k) \in 0..MaxLines
      /\ begins[k] + LinesOf(k) <= Len(log) /\ Len(log) \in 0..MaxLines
  BY FileBounds DEF Shape, TypeOK
<1>2. QED
  BY <1>1, LogIngestAssumption

\* Lines read stay closed while the observer writes.
LEMMA ObserverKeepsClosed ==
    ASSUME Shape, Observer, NEW k \in 1..Current, NEW m \in Nat, m <= LinesOf(k), Closed(k, m)
    PROVE  Closed(k, m)'
<1>1. /\ \A i \in 1..Len(log) : log'[i] = log[i]
      /\ begins'[k] = begins[k] /\ UNCHANGED <<sessions, failed>>
  BY WorldGrows DEF Shape
<1>2. begins[k] \in Nat /\ \A i \in begins[k] + 1 .. begins[k] + m : i \in 1..Len(log)
  BY RangeWritten
<1>3. QED
  BY <1>1, <1>2 DEF Closed

\* And while the loop reads: a login that was read has its row already.
LEMMA LoopKeepsClosed ==
    ASSUME HeaderAtOnce, Shape, RowsOfLogins, Loop,
           NEW k \in 1..Current, NEW m, WasRead(k, m), Closed(k, m)
    PROVE  Closed(k, m)'
<1>1. UNCHANGED world /\ failed \subseteq failed'
  BY LoopCases
<1>2. CASE ReadLine
  <2>1. PICK n : n = NextLine
    OBVIOUS
  <2>2. RowsFollow(n)
    BY <1>2, <2>1, ReadLineFollows
  <2>3. SUFFICES ASSUME NEW i \in begins[k] + 1 .. begins[k] + m,
                        NEW j \in begins[k] + 1 .. begins[k] + m,
                        log[i].kind = "LOGIN", log[j].kind = "LOGOFF",
                        log[i].sess = log[j].sess, i < j, {i, j} \cap failed' = {},
                        NEW r \in sessions', r.login = i
                 PROVE  r.logoff # 0
    BY <1>1 DEF Closed, world
  <2>4. i \in handled /\ {i, j} \cap failed = {}
    BY <1>1, <2>3 DEF WasRead
  <2>5. PICK q \in sessions : q.login = i /\ (q.logoff # 0 => r.logoff # 0)
    BY <2>2, <2>3, <2>4 DEF RowsFollow
  <2>6. q.logoff # 0
    BY <2>3, <2>4, <2>5 DEF Closed
  <2>7. QED
    BY <2>5, <2>6
<1>3. CASE ~ReadLine
  <2>1. sessions' = sessions
    BY <1>3, RowsStay
  <2>2. QED
    BY <1>1, <2>1 DEF Closed, world
<1>4. QED
  BY <1>2, <1>3

\* The line that is read closes what it should.
LEMMA LineCloses ==
    ASSUME HeaderAtOnce, Shape, RowsOfLogins, Loop, LineTaken, NEW k \in 1..Current,
           k = proc.file, WasRead(k, proc.offset), Closed(k, proc.offset)
    PROVE  Closed(k, proc.offset)'
<1>1. PICK m : m = proc.offset
  OBVIOUS
<1>2. /\ m \in Nat /\ begins[k] \in Nat /\ proc'.offset = m + 1
      /\ UNCHANGED world /\ failed \subseteq failed'
      /\ NextLine = begins[k] + m + 1
  <2>1. m \in 0..MaxLines /\ begins[k] \in 0..MaxLines
    <3>1. m \in 0..MaxLines
      BY <1>1 DEF Shape, TypeOK
    <3>2. QED
      BY <3>1, FileBounds DEF Shape
  <2>2. QED
    BY <1>1, <2>1, LoopCases, LogIngestAssumption DEF LineTaken, NextLine
<1>3. Closed(k, m)'
  BY <1>1, LoopKeepsClosed
<1>4. SUFFICES ASSUME NEW i \in begins[k] + 1 .. begins[k] + (m + 1),
                      NEW j \in begins[k] + 1 .. begins[k] + (m + 1),
                      log[i].kind = "LOGIN", log[j].kind = "LOGOFF",
                      log[i].sess = log[j].sess, i < j, {i, j} \cap failed' = {},
                      NEW r \in sessions', r.login = i
               PROVE  r.logoff # 0
  BY <1>2 DEF Closed, world
<1>5. i \in begins[k] + 1 .. begins[k] + m
  BY <1>2, <1>4
<1>6. CASE j # begins[k] + m + 1
  <2>1. j \in begins[k] + 1 .. begins[k] + m
    BY <1>2, <1>4, <1>6
  <2>2. QED
    BY <1>2, <1>3, <1>4, <1>5, <2>1 DEF Closed, world
<1>7. CASE j = begins[k] + m + 1
  <2>1. j = NextLine /\ j \notin failed'
    BY <1>2, <1>4, <1>7
  <2>2. ~StatementFails /\ ReadLine
    <3>1. ReadLine \/ StatementFails
      <4>1. proc \in ProcStates /\ proc.at = "read" /\ proc'.at = "read"
        BY DEF Shape, TypeOK, ProcStates, ListedFiles, LineTaken
      <4>2. ~(SaveRecord \/ List \/ EndTick \/ Crash \/ SkipFile \/ FileFails)
        BY <4>1, LoopLeaves
      <4>3. ~(ReadServerIp \/ Open)
        BY <4>1 DEF ReadServerIp, Open
      <4>4. QED
        BY <4>2, <4>3 DEF Loop, Tick
    <3>2. StatementFails => NextLine \in failed'
      BY DEF StatementFails
    <3>3. QED
      BY <2>1, <3>1, <3>2
  <2>3. RowsFollow(j) /\ handled' = handled \cup {j}
    BY <2>1, <2>2, ReadLineFollows
  <2>4. PICK q \in sessions :
            /\ r.login = q.login /\ r.sess = q.sess
            /\ q.sess = log[j].sess => r.logoff # 0
    BY <1>4, <2>3 DEF RowsFollow
  <2>5. q.sess = log[i].sess
    BY <1>4, <2>4 DEF RowsOfLogins
  <2>6. QED
    BY <1>4, <2>4, <2>5
<1>8. QED
  BY <1>6, <1>7

RotatedClosed ==
    /\ \A n \in Names \ {Active} : ~logfiles[n].new => Closed(n, LinesOf(n))
    /\ proc.at = "read" /\ Name # Active => Closed(Name, proc.offset)
LEMMA InitRotatedClosed == Init => RotatedClosed
BY IdleTyped DEF Init, RotatedClosed, NoRecord

LEMMA ObserverRotatedClosed ==
    ASSUME Reading, RotatedClosed, Observer
    PROVE  RotatedClosed'
<1>1. /\ \A k \in 1..Current : begins'[k] = begins[k] /\ (k # Current => LinesOf(k)' = LinesOf(k))
      /\ UNCHANGED <<logfiles, proc>> /\ Current \in Nat /\ Names \subseteq Nat /\ Active = 0
  BY WorldGrows, LogIngestAssumption DEF Reading, Shape, TypeOK, Names, Active
<1>2. ASSUME NEW n \in Names \ {Active}, ~logfiles'[n].new
      PROVE  Closed(n, LinesOf(n))'
  <2>1. n \in 1..Current /\ n # Current /\ Closed(n, LinesOf(n))
    <3>1. n < Current /\ Closed(n, LinesOf(n))
      BY <1>1, <1>2 DEF Reading, RotatedRead, RotatedClosed
    <3>2. QED
      BY <1>1, <3>1, LogIngestAssumption DEF Names, Active
  <2>2. PICK m : m = LinesOf(n)
    OBVIOUS
  <2>3. m \in Nat /\ m = LinesOf(n)' /\ m <= LinesOf(n) /\ Closed(n, m)
    BY <1>1, <2>1, <2>2, FileBounds, LogIngestAssumption DEF Reading, Shape
  <2>4. Closed(n, m)'
    BY <2>1, <2>3, ObserverKeepsClosed DEF Reading
  <2>5. QED
    BY <2>3, <2>4 DEF Closed
<1>3. ASSUME proc'.at = "read", Name' # Active
      PROVE  Closed(Name, proc.offset)'
  <2>1. PICK n, m : n = Name /\ m = proc.offset
    OBVIOUS
  <2>2. proc.at = "read" /\ Name # Active /\ n = Name' /\ m = proc'.offset
    BY <1>1, <1>3, <2>1 DEF Name
  <2>3. n = proc.file /\ Closed(n, m)
    BY <2>1, <2>2 DEF Reading, RotatedRead, RotatedClosed
  <2>4. n \in 1..Current /\ m \in Nat /\ m <= LinesOf(n)
    BY <1>1, <2>1, <2>2, <2>3, FileBounds, LogIngestAssumption DEF Reading, Shape, TypeOK
  <2>5. Closed(n, m)'
    BY <2>3, <2>4, ObserverKeepsClosed DEF Reading
  <2>6. QED
    BY <2>2, <2>5 DEF Closed
<1>4. QED
  BY <1>2, <1>3 DEF RotatedClosed

LEMMA LoopRotatedClosed ==
    ASSUME HeaderAtOnce, Reading, RowsOfLogins, RotatedClosed, Loop
    PROVE  RotatedClosed'
<1> USE LogIngestAssumption
<1>1. /\ UNCHANGED world /\ Current' = Current
      /\ \A k : LinesOf(k)' = LinesOf(k)
  BY LoopCases DEF Reading, world, LinesOf, Current
<1>2. /\ logfiles \in [Names -> Records] /\ proc \in ProcStates /\ Current \in 1..MaxFiles
      /\ proc.at \in {"open", "read"} => proc.todo # <<>>
      /\ Shape /\ TypeOK /\ FilesDivideLog
  BY DEF Reading, Shape, TypeOK, NamesListed, ProcStates, ListedFiles, Records
<1>3. ASSUME NEW n \in 1..Current, WasRead(n, LinesOf(n)), Closed(n, LinesOf(n))
      PROVE  Closed(n, LinesOf(n))'
  <2>1. PICK m : m = LinesOf(n)
    OBVIOUS
  <2>2. Closed(n, m)'
    BY <1>2, <1>3, <2>1, LoopKeepsClosed
  <2>3. QED
    BY <1>1, <2>1, <2>2 DEF Closed
<1>4. ASSUME NEW n \in Names \ {Active}, ~logfiles'[n].new
      PROVE  Closed(n, LinesOf(n))'
  <2>1. CASE logfiles'[n] = logfiles[n]
    <3>1. n \in 1..Current /\ WasRead(n, LinesOf(n)) /\ Closed(n, LinesOf(n))
      BY <1>2, <1>4, <2>1 DEF Reading, RotatedRead, RotatedClosed, Names, Active
    <3>2. QED
      BY <1>3, <3>1
  <2>2. CASE SaveRecord /\ n = Name
    <3>1. proc.at = "read" /\ proc.todo # <<>> /\ proc.offset = LinesOf(proc.file)
      BY <1>2, <2>2 DEF SaveRecord
    <3>2. /\ proc.file = n /\ n \in 1..Current
          /\ WasRead(n, proc.offset) /\ Closed(n, proc.offset)
      BY <1>2, <2>2, <3>1, TodoHead DEF Reading, RotatedRead, RotatedClosed, Names, Active
    <3>3. QED
      BY <1>3, <3>1, <3>2
  <2>3. SaveRecord /\ n # Name => logfiles'[n] = logfiles[n]
    BY <1>2 DEF SaveRecord, Name
  <2>4. ~SaveRecord => logfiles'[n] = logfiles[n]
    BY <1>2, LoopCases
  <2>5. QED
    BY <2>1, <2>2, <2>3, <2>4
<1>5. ASSUME proc'.at = "read", Name' # Active
      PROVE  Closed(Name, proc.offset)'
  <2>1. CASE Open
    <3>1. /\ proc.todo # <<>> /\ proc'.todo = proc.todo /\ logfiles' = logfiles
          /\ proc'.offset = SeekTo(proc.offset, FileNamed(Name))
          /\ proc.at = "open"
      BY <1>2, <2>1 DEF Open, ProcStates, Name
    <3>2. PICK n : n = Name
      OBVIOUS
    <3>3. n = Name' /\ n \in Names \ {Active} /\ n \in 1..Current
      BY <1>2, <1>5, <3>1, <3>2, TodoHead DEF Name, Names, Active
    <3>4. proc.offset = logfiles[n].offset
      BY <1>5, <3>1, <3>2, <3>3 DEF Reading, RotatedRead, Name
    <3>5. begins[n] \in 0..MaxLines
      BY <1>2, <3>3, FileBounds
    <3>6. CASE proc'.offset = 0
      BY <1>1, <3>3, <3>5, <3>6 DEF Closed, world
    <3>7. CASE proc'.offset # 0
      <4>1. proc'.offset = logfiles[n].offset /\ logfiles[n].offset # 0
        BY <3>1, <3>4, <3>7 DEF SeekTo
      <4>2. /\ logfiles[n].offset = LinesOf(n) /\ WasRead(n, LinesOf(n))
            /\ Closed(n, LinesOf(n))
        BY <3>3, <4>1 DEF Reading, RotatedRead, RotatedClosed
      <4>3. Closed(n, LinesOf(n))'
        BY <1>3, <3>3, <4>2
      <4>4. QED
        BY <1>1, <3>3, <4>1, <4>2, <4>3 DEF Closed
    <3>8. QED
      BY <3>6, <3>7
  <2>2. CASE LineTaken
    <3>1. /\ proc'.todo = proc.todo /\ proc.at = "read" /\ proc.todo # <<>>
      BY <1>2, <2>2 DEF LineTaken
    <3>2. PICK n : n = Name
      OBVIOUS
    <3>3. /\ n = Name' /\ n \in 1..Current /\ n = proc.file
          /\ WasRead(n, proc.offset) /\ Closed(n, proc.offset)
      BY <1>2, <1>5, <3>1, <3>2, TodoHead
      DEF Name, Reading, RotatedRead, RotatedClosed, Names, Active
    <3>4. Closed(n, proc.offset)'
      BY <1>2, <2>2, <3>3, LineCloses
    <3>5. QED
      BY <3>3, <3>4 DEF Closed
  <2>3. QED
    BY <1>2, <1>5, <2>1, <2>2, LoopCases, LoopAt
<1>6. QED
  BY <1>4, <1>5 DEF RotatedClosed

\* Reading a rotated file as a whole closes every session that came and went
\* within it, unless one of its two statements failed.
THEOREM RotationCloses ==
    ASSUME HeaderAtOnce
    PROVE  Spec => []ClosedByRotation
<1> DEFINE Inv == Reading /\ RowsOfLogins
<1>1. Inv /\ RotatedClosed /\ [Next]_vars => RotatedClosed'
  <2>1. SUFFICES ASSUME Inv, RotatedClosed, [Next]_vars PROVE RotatedClosed'
    OBVIOUS
  <2>2. CASE UNCHANGED vars
    BY <2>1, <2>2 DEF vars, world, RotatedClosed, Closed, LinesOf, Current, Name
  <2>3. QED
    BY <2>1, <2>2, ObserverRotatedClosed, LoopRotatedClosed DEF Next, Loop
<1>2. Inv /\ RotatedClosed => ClosedByRotation
  <2>1. SUFFICES ASSUME Inv, RotatedClosed, NEW i \in DOMAIN log, NEW j \in DOMAIN log,
                        log[i].kind = "LOGIN", log[j].kind = "LOGOFF",
                        log[i].sess = log[j].sess, i < j,
                        FileOf(i) = FileOf(j), FileOf(i) < Current,
                        ~logfiles[FileOf(i)].new, {i, j} \cap failed = {},
                        NEW r \in sessions, r.login = i
                 PROVE  r.logoff # 0
    BY DEF ClosedByRotation
  <2> DEFINE k == FileOf(i)
  <2>2. /\ i \in 1..Len(log) /\ j \in 1..Len(log) /\ Current \in 1..MaxFiles
        /\ TypeOK /\ FilesDivideLog
    BY <2>1 DEF Reading, Shape, TypeOK
  <2>3. /\ k \in 1..Current /\ begins[k] < i /\ i <= begins[k] + LinesOf(k)
        /\ begins[k] < j /\ j <= begins[k] + LinesOf(k)
    <3>1. k \in 1..Current /\ begins[k] < i /\ i <= begins[k] + LinesOf(k)
      BY <2>2 DEF FilesDivideLog, FileOf
    <3>2. begins[FileOf(j)] < j /\ j <= begins[FileOf(j)] + LinesOf(FileOf(j))
      BY <2>2 DEF FilesDivideLog, FileOf
    <3>3. QED
      BY <2>1, <3>1, <3>2
  <2>4. begins[k] \in 0..MaxLines /\ LinesOf(k) \in 0..MaxLines
    BY <2>2, <2>3, FileBounds
  <2>5. k < Current /\ ~logfiles[k].new
    BY <2>1
  <2> HIDE DEF k
  <2>6. k \in Names \ {Active}
    BY <2>2, <2>3, <2>5, LogIngestAssumption DEF Names, Active
  <2>7. Closed(k, LinesOf(k))
    BY <2>1, <2>5, <2>6 DEF RotatedClosed
  <2>8. i \in begins[k] + 1 .. begins[k] + LinesOf(k) /\ j \in begins[k] + 1 .. begins[k] + LinesOf(k)
    BY <2>2, <2>3, <2>4, LogIngestAssumption
  <2>9. QED
    BY <2>1, <2>7, <2>8 DEF Closed
<1>3. QED
  BY <1>1, <1>2, InitRotatedClosed, AlwaysReading, AlwaysRowsOfLogins, PTL DEF Spec
=============================================================================
