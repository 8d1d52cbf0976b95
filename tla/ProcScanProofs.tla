----------------------------- MODULE ProcScanProofs -----------------------------
(***************************************************************************)
(* The walk through /proc for any processes and threads.                   *)
(*                                                                         *)
(* The argument: as long as no chdir has failed, the directories of the    *)
(* calls of printdir are each the parent of the next (Nested), so that     *)
(* ".." leads from the directory of a call to that of its caller.  A       *)
(* monitor that runs is then, until it is found, among what the walk has   *)
(* still to come to (Ahead): in the listing of /proc, or its command line  *)
(* in that of its own directory.                                           *)
(***************************************************************************)
EXTENDS ProcScan, SequenceTheorems, TLAPS

Frame == [dir : Dir, rest : SUBSET (Task \cup Name), stat : SUBSET Kind]

\* A call of printdir is under way, but before the first opendir and at the end.
Walking ==
    /\ pc \in {"chdir", "list", "next", "lstat", "fopen", "read", "eof", "up"}
           => stack # <<>>
    /\ pc \in {"return", "done"} => stack = <<>>
    /\ pc = "opendir" => entry # "." /\ (stack = <<>> => entry = "proc" /\ cwd = Root)

Nested ==
    ~astray =>
        /\ \A i \in 1 .. Len(stack) - 1 : stack[i].dir = Parent(stack[i + 1].dir)
        /\ pc = "chdir" /\ Len(stack) > 1 => cwd = stack[Len(stack) - 1].dir
        /\ pc # "chdir" /\ stack # <<>> => cwd = Top.dir

ScanInv == ScanTypeOK /\ Walking /\ Nested

-----------------------------------------------------------------------------

\* The directories, one shape after the other.
LEMMA DirCases ==
  ASSUME NEW d
  PROVE  d \in Dir <=>
           \/ d = Root
           \/ d = ProcDir
           \/ \E t \in Task : d = <<"proc", t>>
           \/ \E t \in Task : d = <<"proc", t, "task">>
           \/ \E t, u \in Task : d = <<"proc", t, "task", u>>
<1>1. d \in {Root, ProcDir} <=> d = Root \/ d = ProcDir
  OBVIOUS
<1>2. d \in {<<"proc", t>> : t \in Task} <=> \E t \in Task : d = <<"proc", t>>
  BY Zenon
<1>3. d \in {<<"proc", t, "task">> : t \in Task}
        <=> \E t \in Task : d = <<"proc", t, "task">>
  BY Zenon
<1>4. d \in {<<"proc", t, "task", u>> : t, u \in Task}
        <=> \E t, u \in Task : d = <<"proc", t, "task", u>>
  OBVIOUS
<1> QED
  BY <1>1, <1>2, <1>3, <1>4 DEF Dir

LEMMA DirIsSeq == Dir \subseteq Seq(Task \cup Name)
<1> SUFFICES ASSUME NEW d \in Dir PROVE d \in Seq(Task \cup Name)
  OBVIOUS
<1>1. Root \in Seq(Task \cup Name)
  BY DEF Root
<1>2. ProcDir \in Seq(Task \cup Name)
  BY DEF ProcDir, Name
<1>3. ASSUME NEW t \in Task, NEW u \in Task
      PROVE  /\ <<"proc", t>> \in Seq(Task \cup Name)
             /\ <<"proc", t, "task">> \in Seq(Task \cup Name)
             /\ <<"proc", t, "task", u>> \in Seq(Task \cup Name)
  BY DEF Name
<1>4. CASE \E t \in Task : d = <<"proc", t>>
  BY <1>3, <1>4
<1>5. CASE \E t \in Task : d = <<"proc", t, "task">>
  BY <1>3, <1>5
<1>6. CASE \E t, u \in Task : d = <<"proc", t, "task", u>>
  BY <1>3, <1>6
<1> QED
  BY <1>1, <1>2, <1>4, <1>5, <1>6, DirCases

\* ".." undoes a step down.
LEMMA ParentOfAppend ==
  ASSUME NEW S, NEW d \in Seq(S), NEW e \in S
  PROVE  Parent(Append(d, e)) = d
<1>1. /\ Append(d, e) \in Seq(S) /\ Len(Append(d, e)) = Len(d) + 1
      /\ \A i \in 1 .. Len(d) : Append(d, e)[i] = d[i]
  BY AppendProperties
<1>2. Append(d, e) # Root
  BY AppendProperties, Zenon DEF Root
<1>3. Parent(Append(d, e)) = SubSeq(Append(d, e), 1, Len(d))
  BY <1>1, <1>2 DEF Parent
<1>4. SubSeq(Append(d, e), 1, Len(d)) = d
  BY <1>1
<1> QED
  BY <1>3, <1>4

LEMMA ParentInDir ==
  ASSUME NEW d \in Dir
  PROVE  Parent(d) \in Dir
<1>0. "proc" \in Task \cup Name /\ "task" \in Task \cup Name
  BY DEF Name
<1>1. CASE d = Root
  BY <1>1, DirCases DEF Parent
<1>2. CASE d = ProcDir
  <2>1. d = Append(Root, "proc")
    BY <1>2 DEF ProcDir, Root
  <2>2. Root \in Seq(Task \cup Name)
    BY DEF Root
  <2>3. Parent(d) = Root
    BY <1>0, <2>1, <2>2, ParentOfAppend
  <2> QED
    BY <2>3, DirCases, Zenon
<1>3. ASSUME NEW t \in Task, d = <<"proc", t>>
      PROVE  Parent(d) \in Dir
  <2>1. d = Append(ProcDir, t) /\ ProcDir \in Seq(Task \cup Name)
    BY <1>0, <1>3 DEF ProcDir
  <2>2. Parent(d) = ProcDir
    BY <2>1, ParentOfAppend
  <2> QED
    BY <2>2, DirCases, Zenon
<1>4. ASSUME NEW t \in Task, d = <<"proc", t, "task">>
      PROVE  Parent(d) \in Dir
  <2>1. d = Append(<<"proc", t>>, "task") /\ <<"proc", t>> \in Seq(Task \cup Name)
    BY <1>0, <1>4
  <2>2. Parent(d) = <<"proc", t>>
    BY <1>0, <2>1, ParentOfAppend
  <2> QED
    BY <2>2, DirCases, Zenon
<1>5. ASSUME NEW t \in Task, NEW u \in Task, d = <<"proc", t, "task", u>>
      PROVE  Parent(d) \in Dir
  <2>1. /\ d = Append(<<"proc", t, "task">>, u)
        /\ <<"proc", t, "task">> \in Seq(Task \cup Name)
    BY <1>0, <1>5
  <2>2. Parent(d) = <<"proc", t, "task">>
    <3> DEFINE e == <<"proc", t, "task">>
    <3>1. d = Append(e, u) /\ e \in Seq(Task \cup Name) /\ u \in Task \cup Name
      BY <2>1
    <3> HIDE DEF e
    <3>2. Parent(d) = e
      BY <3>1, ParentOfAppend
    <3> QED
      BY <3>2 DEF e
  <2> QED
    BY <2>2, DirCases, Zenon
<1> QED
  BY <1>1, <1>2, <1>3, <1>4, <1>5, DirCases, Zenon

\* A directory that exists is one the scan knows.
LEMMA ExistsInDir ==
  ASSUME running \subseteq Task, NEW d, DirExists(d)
  PROVE  d \in Dir
<1>1. CASE d \in {Root, ProcDir}
  BY <1>1, DirCases
<1>2. ASSUME NEW t \in running,
             \/ d \in {<<"proc", t>>, <<"proc", t, "task">>}
             \/ \E u \in TasksOf(t) : d = <<"proc", t, "task", u>>
      PROVE  d \in Dir
  <2>1. t \in Task /\ TasksOf(t) \subseteq Task
    BY DEF TasksOf
  <2>2. d = <<"proc", t>> \/ d = <<"proc", t, "task">>
          \/ \E u \in Task : d = <<"proc", t, "task", u>>
    BY <1>2, <2>1
  <2> QED
    BY <2>1, <2>2, DirCases, Zenon
<1> QED
  BY <1>1, <1>2, Zenon DEF DirExists

LEMMA EntriesAreNames ==
  ASSUME running \subseteq Task, NEW d
  PROVE  Entries(d) \in SUBSET (Task \cup Name)
  BY DEF Entries, TasksOf, Name

\* A frame pushed and a frame popped.
LEMMA Pushed ==
  ASSUME NEW s \in Seq(Frame), NEW f \in Frame
  PROVE  /\ Append(s, f) \in Seq(Frame)
         /\ Len(Append(s, f)) = Len(s) + 1
         /\ Append(s, f) # <<>>
         /\ \A i \in 1 .. Len(s) : Append(s, f)[i] = s[i]
         /\ Append(s, f)[Len(s) + 1] = f
  BY AppendProperties

LEMMA Popped ==
  ASSUME NEW s \in Seq(Frame), s # <<>>
  PROVE  /\ Len(s) \in Nat \ {0}
         /\ SubSeq(s, 1, Len(s) - 1) \in Seq(Frame)
         /\ Len(SubSeq(s, 1, Len(s) - 1)) = Len(s) - 1
         /\ \A i \in 1 .. Len(s) - 1 : SubSeq(s, 1, Len(s) - 1)[i] = s[i]
         /\ SubSeq(s, 1, Len(s) - 1) = <<>> <=> Len(s) = 1
<1> DEFINE n == Len(s)
           r == SubSeq(s, 1, n - 1)
<1>1. n \in Nat \ {0}
  BY EmptySeq
<1>2. \A i \in 1 .. n - 1 : s[i] \in Frame
  BY <1>1, ElementOfSeq
<1>3. /\ r \in Seq(Frame)
      /\ Len(r) = IF 1 <= n - 1 THEN (n - 1) - 1 + 1 ELSE 0
      /\ \A i \in 1 .. (n - 1) - 1 + 1 : r[i] = s[1 + i - 1]
  BY <1>1, <1>2, SubSeqProperties
<1>4. Len(<<>>) = 0 /\ (r # <<>> => Len(r) \in Nat \ {0})
  BY <1>3, EmptySeq
<1> HIDE DEF n, r
<1>5. Len(r) = n - 1
  BY <1>1, <1>3
<1>6. \A i \in 1 .. n - 1 : r[i] = s[i]
  BY <1>1, <1>3
<1>7. r = <<>> <=> n = 1
  <2>1. ASSUME r = <<>> PROVE n = 1
    <3>1. Len(r) = 0
      BY <1>4, <2>1, Zenon
    <3> QED
      BY <1>1, <1>5, <3>1
  <2>2. ASSUME n = 1 PROVE r = <<>>
    BY <1>4, <1>5, <2>2
  <2> QED
    BY <2>1, <2>2
<1> QED
  BY <1>1, <1>3, <1>5, <1>6, <1>7 DEF n, r

LEMMA TopIsFrame ==
  ASSUME stack \in Seq(Frame), stack # <<>>
  PROVE  Top \in Frame /\ Len(stack) \in Nat \ {0}
  BY EmptySeq, ElementOfSeq DEF Top

LEMMA ScanInvInit == ScanInit => ScanInv
<1> SUFFICES ASSUME ScanInit PROVE ScanInv
  OBVIOUS
<1>1. cwd \in Dir
  BY DirCases DEF ScanInit
<1>2. stack \in Seq(Frame) /\ Len(stack) = 0
  BY DEF ScanInit
<1>3. ScanTypeOK
  BY <1>1, <1>2 DEF ScanInit, ScanTypeOK, Name, Frame
<1>4. Walking
  BY DEF ScanInit, Walking
<1>5. Nested
  BY <1>2 DEF ScanInit, Nested
<1> QED
  BY <1>3, <1>4, <1>5 DEF ScanInv

-----------------------------------------------------------------------------

\* The frame of the innermost call replaced by one of the same directory.
LEMMA Retopped ==
  ASSUME stack \in Seq(Frame), stack # <<>>,
         NEW f \in Frame, f.dir = Top.dir, setTop(f)
  PROVE  /\ stack' \in Seq(Frame) /\ Len(stack') = Len(stack) /\ stack' # <<>>
         /\ \A i \in 1 .. Len(stack) : stack'[i].dir = stack[i].dir
         /\ \A i \in 1 .. Len(stack) - 1 : stack'[i] = stack[i]
         /\ stack'[Len(stack)] = f
<1>1. Len(stack) \in Nat \ {0} /\ stack \in [1 .. Len(stack) -> Frame]
  BY TopIsFrame, LenProperties
<1>2. stack' = [stack EXCEPT ![Len(stack)] = f]
  BY DEF setTop
<1>3. stack' \in Seq(Frame) /\ Len(stack') = Len(stack)
  BY <1>1, <1>2, ExceptSeq
<1>4. stack' # <<>>
  BY <1>1, <1>3, EmptySeq
<1>5. \A i \in 1 .. Len(stack) : stack'[i].dir = stack[i].dir
  BY <1>1, <1>2 DEF Top
<1>6. /\ \A i \in 1 .. Len(stack) - 1 : stack'[i] = stack[i]
      /\ stack'[Len(stack)] = f
  <2>1. \A j \in 1 .. Len(stack) : stack'[j] = IF j = Len(stack) THEN f ELSE stack[j]
    BY <1>1, <1>2, ExceptSeq
  <2>2. \A n \in Nat \ {0} : /\ n \in 1 .. n
                             /\ \A i \in 1 .. n - 1 : i \in 1 .. n /\ i # n
    OBVIOUS
  <2> QED
    BY <1>1, <2>1, <2>2, Zenon
<1> QED
  BY <1>3, <1>4, <1>5, <1>6

\* A step that moves neither the working directory nor the recursion.
LEMMA StaysNested ==
  ASSUME ScanInv, stack' \in Seq(Frame), Len(stack') = Len(stack),
         \A i \in 1 .. Len(stack) : stack'[i].dir = stack[i].dir,
         cwd' = cwd, astray' = astray, pc # "chdir", pc' # "chdir"
  PROVE  Nested'
<1>0. stack \in Seq(Frame)
  BY DEF ScanInv, ScanTypeOK, Frame
<1>1. Len(stack) \in Nat
  BY <1>0, LenProperties
<1> SUFFICES ASSUME ~astray
             PROVE  /\ \A i \in 1 .. Len(stack') - 1 :
                           stack'[i].dir = Parent(stack'[i + 1].dir)
                    /\ stack' # <<>> => cwd' = stack'[Len(stack')].dir
  BY DEF Nested, Top
<1>2. /\ \A i \in 1 .. Len(stack) - 1 : stack[i].dir = Parent(stack[i + 1].dir)
      /\ stack # <<>> => cwd = stack[Len(stack)].dir
  BY DEF ScanInv, Nested, Top
<1>3. \A i \in 1 .. Len(stack') - 1 : stack'[i].dir = Parent(stack'[i + 1].dir)
  BY <1>1, <1>2
<1>4. ASSUME stack' # <<>> PROVE cwd' = stack'[Len(stack')].dir
  <2>1. Len(stack) \in Nat \ {0} /\ stack # <<>>
    BY <1>0, <1>1, <1>4, EmptySeq
  <2> QED
    BY <1>2, <2>1
<1> QED
  BY <1>3, <1>4

\* The conjuncts of ScanInv in the forms the steps use.
LEMMA ScanInvFacts ==
  ASSUME ScanInv
  PROVE  /\ stack \in Seq(Frame) /\ cwd \in Dir /\ entry \in Task \cup Name
         /\ result \in {0, -1} /\ running \subseteq Task /\ astray \in BOOLEAN
         /\ pc \in {"chdir", "list", "next", "lstat", "fopen", "read", "eof", "up"}
                => stack # <<>>
         /\ pc \in {"return", "done"} => stack = <<>>
         /\ pc = "opendir" =>
                entry # "." /\ (stack = <<>> => entry = "proc" /\ cwd = Root)
  BY DEF ScanInv, ScanTypeOK, Walking, Frame

LEMMA OpenDirKeeps == ScanInv /\ OpenDir => ScanInv'
<1> SUFFICES ASSUME ScanInv, OpenDir PROVE ScanInv'
  OBVIOUS
<1>0. /\ pc = "opendir" /\ stack \in Seq(Frame) /\ cwd \in Dir /\ entry # "."
      /\ stack = <<>> => entry = "proc" /\ cwd = Root
      /\ entry \in Task \cup Name /\ running \subseteq Task
      /\ UNCHANGED <<cwd, entry, result, running, astray>>
  BY ScanInvFacts DEF OpenDir, at
<1>1. Path(entry) = Append(cwd, entry)
  BY <1>0 DEF Path
<1>2. CASE DirExists(Path(entry))
  <2> DEFINE d == Path(entry)
             f == [dir |-> d, rest |-> {}, stat |-> Kind]
  <2>1. pc' = "chdir" /\ stack' = Append(stack, f)
    BY <1>2 DEF OpenDir, at
  <2>2. d \in Dir
    BY <1>0, <1>2, ExistsInDir
  <2>3. f \in Frame /\ f.dir = d
    BY <2>2 DEF Frame
  <2>4. Parent(d) = cwd
    <3>1. cwd \in Seq(Task \cup Name)
      BY <1>0, DirIsSeq
    <3> QED
      BY <1>0, <1>1, <3>1, ParentOfAppend
  <2> HIDE DEF d, f
  <2>5. /\ stack' \in Seq(Frame) /\ Len(stack') = Len(stack) + 1 /\ stack' # <<>>
        /\ \A i \in 1 .. Len(stack) : stack'[i] = stack[i]
        /\ stack'[Len(stack) + 1] = f
    BY <1>0, <2>1, <2>3, Pushed
  <2>6. Len(stack) \in Nat
    BY <1>0, LenProperties
  <2>7. ScanTypeOK'
    BY <1>0, <2>1, <2>5 DEF ScanInv, ScanTypeOK, Frame
  <2>8. Walking'
    BY <2>1, <2>5 DEF Walking
  <2>9. Nested'
    <3> SUFFICES ASSUME ~astray
                 PROVE  /\ \A i \in 1 .. Len(stack') - 1 :
                               stack'[i].dir = Parent(stack'[i + 1].dir)
                        /\ Len(stack') > 1 => cwd' = stack'[Len(stack') - 1].dir
      BY <1>0, <2>1 DEF Nested
    <3>1. /\ \A i \in 1 .. Len(stack) - 1 : stack[i].dir = Parent(stack[i + 1].dir)
          /\ stack # <<>> => cwd = stack[Len(stack)].dir
      BY <1>0 DEF ScanInv, Nested, Top
    <3>2. Len(stack) > 0 => cwd = stack[Len(stack)].dir
      BY <3>1, EmptySeq
    <3>3. ASSUME Len(stack') > 1 PROVE cwd' = stack'[Len(stack') - 1].dir
      BY <1>0, <2>5, <2>6, <3>2, <3>3
    <3>4. ASSUME NEW i \in 1 .. Len(stack') - 1
          PROVE  stack'[i].dir = Parent(stack'[i + 1].dir)
      <4>1. CASE i < Len(stack)
        BY <2>5, <2>6, <3>1, <3>4, <4>1
      <4>2. CASE i = Len(stack)
        <5>1. stack'[i] = stack[i] /\ stack'[i + 1] = f /\ stack[i].dir = cwd
          BY <2>5, <2>6, <3>2, <3>4, <4>2
        <5> QED
          BY <2>3, <2>4, <5>1
      <4> QED
        BY <2>5, <2>6, <3>4, <4>1, <4>2
    <3> QED
      BY <3>3, <3>4
  <2> QED
    BY <2>7, <2>8, <2>9 DEF ScanInv
<1>3. CASE ~DirExists(Path(entry))
  <2>1. pc' = "next" /\ stack' = stack
    BY <1>3 DEF OpenDir, at
  <2>2. stack # <<>>
    <3>1. Append(<<>>, "proc") = <<"proc">>
      OBVIOUS
    <3>2. ASSUME stack = <<>> PROVE Path(entry) = ProcDir
      BY <1>0, <1>1, <3>1, <3>2 DEF ProcDir, Root
    <3>3. DirExists(ProcDir)
      BY DEF DirExists
    <3> QED
      BY <1>3, <3>2, <3>3
  <2>3. ScanTypeOK' /\ Walking'
    BY <1>0, <2>1, <2>2 DEF ScanInv, ScanTypeOK, Walking
  <2>4. Nested'
    BY <1>0, <2>1, StaysNested
  <2> QED
    BY <2>3, <2>4 DEF ScanInv
<1> QED
  BY <1>2, <1>3

LEMMA ChDirKeeps == ScanInv /\ ChDir => ScanInv'
<1> SUFFICES ASSUME ScanInv, ChDir PROVE ScanInv'
  OBVIOUS
<1>0. /\ pc = "chdir" /\ pc' = "list" /\ stack \in Seq(Frame) /\ stack # <<>>
      /\ cwd \in Dir /\ astray \in BOOLEAN
      /\ UNCHANGED <<stack, entry, result, running>>
      /\ cwd' = (IF DirExists(Top.dir) THEN Top.dir ELSE cwd)
      /\ astray' = (astray \/ ~DirExists(Top.dir))
  BY ScanInvFacts DEF ChDir, at
<1>1. Top.dir \in Dir
  BY <1>0, TopIsFrame DEF Frame
<1>2. ScanTypeOK'
  BY <1>0, <1>1 DEF ScanInv, ScanTypeOK
<1>3. Walking'
  BY <1>0 DEF Walking
<1>4. Nested'
  BY <1>0 DEF ScanInv, Nested, Top
<1> QED
  BY <1>2, <1>3, <1>4 DEF ScanInv

\* Steps that only replace the innermost frame.
LEMMA FrameStepKeeps ==
  ASSUME ScanInv, NEW f \in Frame, f.dir = Top.dir, setTop(f), stack # <<>>,
         pc # "chdir", pc' \in {"next", "lstat", "opendir", "fopen"},
         entry' \in Task \cup Name, pc' = "opendir" => entry' # ".",
         UNCHANGED <<cwd, result, running, astray>>
  PROVE  ScanInv'
<1>1. stack \in Seq(Frame)
  BY ScanInvFacts
<1>2. /\ stack' \in Seq(Frame) /\ Len(stack') = Len(stack) /\ stack' # <<>>
      /\ \A i \in 1 .. Len(stack) : stack'[i].dir = stack[i].dir
  BY <1>1, Retopped
<1>3. ScanTypeOK'
  BY <1>2 DEF ScanInv, ScanTypeOK, Frame
<1>4. Walking'
  BY <1>2 DEF Walking
<1>5. Nested'
  BY <1>2, StaysNested
<1> QED
  BY <1>3, <1>4, <1>5 DEF ScanInv

\* The variants of the innermost frame.
LEMMA TopChanged ==
  ASSUME Top \in Frame, NEW names \in SUBSET (Task \cup Name), NEW kinds \in SUBSET Kind
  PROVE  /\ [Top EXCEPT !.rest = names] \in Frame
         /\ [Top EXCEPT !.rest = names].dir = Top.dir
         /\ [Top EXCEPT !.stat = kinds] \in Frame
         /\ [Top EXCEPT !.stat = kinds].dir = Top.dir
  BY DEF Frame

LEMMA ListKeeps == ScanInv /\ List => ScanInv'
<1> SUFFICES ASSUME ScanInv, List PROVE ScanInv'
  OBVIOUS
<1> DEFINE names == IF DirExists(Top.dir) THEN Entries(Top.dir) ELSE {}
           f == [Top EXCEPT !.rest = names]
<1>0. /\ pc = "list" /\ pc' = "next" /\ stack # <<>> /\ stack \in Seq(Frame)
      /\ entry \in Task \cup Name /\ running \subseteq Task
      /\ UNCHANGED <<cwd, entry, result, running, astray>>
      /\ setTop(f)
  BY ScanInvFacts DEF List, at
<1>1. names \in SUBSET (Task \cup Name)
  BY <1>0, EntriesAreNames
<1>2. Top \in Frame
  BY <1>0, TopIsFrame
<1> HIDE DEF names
<1>3. f \in Frame /\ f.dir = Top.dir
  BY <1>1, <1>2, TopChanged
<1> HIDE DEF f
<1> QED
  BY <1>0, <1>3, FrameStepKeeps

LEMMA NextEntryKeeps == ScanInv /\ NextEntry => ScanInv'
<1> SUFFICES ASSUME ScanInv, NextEntry PROVE ScanInv'
  OBVIOUS
<1>0. /\ pc = "next" /\ pc' = "lstat" /\ stack # <<>> /\ stack \in Seq(Frame)
      /\ UNCHANGED <<cwd, result, running, astray>>
  BY ScanInvFacts DEF NextEntry, at
<1>1. PICK e \in Top.rest : entry' = e /\ setTop([Top EXCEPT !.rest = @ \ {e}])
  BY DEF NextEntry
<1>2. Top \in Frame
  BY <1>0, TopIsFrame
<1>3. e \in Task \cup Name /\ Top.rest \ {e} \in SUBSET (Task \cup Name)
  BY <1>2 DEF Frame
<1> DEFINE f == [Top EXCEPT !.rest = @ \ {e}]
<1>4. f \in Frame /\ f.dir = Top.dir
  BY <1>2, <1>3 DEF Frame
<1>5. setTop(f)
  BY <1>1
<1> HIDE DEF f
<1> QED
  BY <1>0, <1>1, <1>3, <1>4, <1>5, FrameStepKeeps

LEMMA LstatKeeps == ScanInv /\ Lstat => ScanInv'
<1> SUFFICES ASSUME ScanInv, Lstat PROVE ScanInv'
  OBVIOUS
<1> DEFINE kinds == IF DirExists(Path(entry)) THEN {"dir"}
                    ELSE IF FileExists(Path(entry)) THEN {"file"} ELSE Top.stat
           f == [Top EXCEPT !.stat = kinds]
<1>0. /\ pc = "lstat" /\ stack # <<>> /\ stack \in Seq(Frame)
      /\ entry \in Task \cup Name
      /\ UNCHANGED <<cwd, entry, result, running, astray>>
      /\ setTop(f)
      /\ \/ pc' = (IF entry = "." THEN "next" ELSE "opendir")
         \/ pc' = (IF entry = "cmdline" THEN "fopen" ELSE "next")
  BY ScanInvFacts DEF Lstat, at
<1>1. Top \in Frame
  BY <1>0, TopIsFrame
<1>2. kinds \in SUBSET Kind
  BY <1>1 DEF Frame, Kind
<1> HIDE DEF kinds
<1>3. f \in Frame /\ f.dir = Top.dir
  BY <1>1, <1>2, TopChanged
<1> HIDE DEF f
<1>4. pc' \in {"next", "opendir", "fopen"} /\ (pc' = "opendir" => entry # ".")
  BY <1>0
<1> QED
  BY <1>0, <1>3, <1>4, FrameStepKeeps

\* ".." leads from the directory of the innermost call to that of its caller,
\* or has failed.
LEMMA UpKeeps == ScanInv /\ Up => ScanInv'
<1> SUFFICES ASSUME ScanInv, Up PROVE ScanInv'
  OBVIOUS
<1>0. /\ pc = "up" /\ stack # <<>> /\ stack \in Seq(Frame) /\ cwd \in Dir
      /\ astray \in BOOLEAN
      /\ UNCHANGED <<entry, result, running>>
      /\ stack' = SubSeq(stack, 1, Len(stack) - 1)
      /\ pc' = (IF Len(stack) = 1 THEN "return" ELSE IF result = 0 THEN "up" ELSE "next")
  BY ScanInvFacts DEF Up, at
<1>1. PICK works \in BOOLEAN : /\ cwd' = (IF works THEN Parent(cwd) ELSE cwd)
                               /\ astray' = (astray \/ ~works)
  BY DotDotAssumption DEF Up
<1>2. /\ Len(stack) \in Nat \ {0} /\ stack' \in Seq(Frame)
      /\ Len(stack') = Len(stack) - 1
      /\ \A i \in 1 .. Len(stack) - 1 : stack'[i] = stack[i]
      /\ stack' = <<>> <=> Len(stack) = 1
  BY <1>0, Popped
<1>3. cwd' \in Dir
  BY <1>0, <1>1, ParentInDir
<1>4. ScanTypeOK'
  BY <1>0, <1>1, <1>2, <1>3 DEF ScanInv, ScanTypeOK, Frame
<1>5. Walking'
  BY <1>0, <1>2 DEF Walking
<1>6. Nested'
  <2> SUFFICES ASSUME ~astray, works
               PROVE  /\ \A i \in 1 .. Len(stack') - 1 :
                             stack'[i].dir = Parent(stack'[i + 1].dir)
                      /\ stack' # <<>> => cwd' = stack'[Len(stack')].dir
    BY <1>0, <1>1 DEF Nested, Top
  <2>1. /\ \A i \in 1 .. Len(stack) - 1 : stack[i].dir = Parent(stack[i + 1].dir)
        /\ cwd = stack[Len(stack)].dir
    BY <1>0 DEF ScanInv, Nested, Top
  <2>2. ASSUME NEW i \in 1 .. Len(stack') - 1
        PROVE  stack'[i].dir = Parent(stack'[i + 1].dir)
    BY <1>2, <2>1, <2>2
  <2>3. ASSUME stack' # <<>> PROVE cwd' = stack'[Len(stack')].dir
    <3>1. Len(stack) - 1 \in 1 .. Len(stack) - 1
      BY <1>2, <2>3
    <3>2. stack[Len(stack) - 1].dir = Parent(stack[Len(stack)].dir)
      BY <1>2, <2>1, <3>1
    <3> QED
      BY <1>1, <1>2, <2>1, <3>1, <3>2
  <2> QED
    BY <2>2, <2>3
<1> QED
  BY <1>4, <1>5, <1>6 DEF ScanInv

\* Steps that move neither the recursion nor the working directory, and the
\* end of a process or a thread.
LEMMA QuietStepKeeps ==
  ASSUME ScanInv, \/ LastEntry \/ FOpen \/ ReadLine \/ ReadEnd
                  \/ \E t \in running : Ends(t)
                  \/ UNCHANGED scanVars
  PROVE  ScanInv'
<1>0. /\ stack \in Seq(Frame)
      /\ pc \in {"chdir", "list", "next", "lstat", "fopen", "read", "eof", "up"}
             => stack # <<>>
  BY ScanInvFacts
<1>1. CASE \/ LastEntry \/ FOpen \/ ReadLine \/ ReadEnd
  <2>1. /\ pc \in {"next", "fopen", "read", "eof"}
        /\ pc' \in {"next", "up", "read", "eof"} /\ result' \in {0, result}
        /\ UNCHANGED <<stack, cwd, entry, running, astray>>
    BY <1>1 DEF LastEntry, FOpen, ReadLine, ReadEnd, at
  <2>2. ScanTypeOK'
    BY <2>1 DEF ScanInv, ScanTypeOK
  <2>3. Walking'
    BY <1>0, <2>1 DEF Walking
  <2>4. Nested'
    BY <1>0, <2>1, StaysNested
  <2> QED
    BY <2>2, <2>3, <2>4 DEF ScanInv
<1>2. CASE (\E t \in running : Ends(t)) \/ UNCHANGED scanVars
  <2>1. /\ UNCHANGED <<pc, stack, cwd, entry, result, astray>>
        /\ running' \subseteq running
    BY <1>2 DEF Ends, scanVars
  <2> QED
    BY <2>1 DEF ScanInv, ScanTypeOK, Walking, Nested, Top
<1> QED
  BY <1>1, <1>2

LEMMA ReturnKeeps == ScanInv /\ ProcIsExistReturns => ScanInv'
<1> SUFFICES ASSUME ScanInv, ProcIsExistReturns PROVE ScanInv'
  OBVIOUS
<1>0. /\ pc = "return" /\ pc' = "done" /\ stack = <<>> /\ cwd' = Root
      /\ UNCHANGED <<stack, entry, result, running, astray>>
  BY ScanInvFacts DEF ProcIsExistReturns, at
<1>1. Root \in Dir
  BY DirCases
<1>2. ScanTypeOK'
  BY <1>0, <1>1 DEF ScanInv, ScanTypeOK
<1>3. Walking'
  BY <1>0 DEF Walking
<1>4. Nested'
  BY <1>0, EmptySeq DEF Nested
<1> QED
  BY <1>2, <1>3, <1>4 DEF ScanInv

\* The invariant of the walk, for any processes, threads and interleaving.
THEOREM ScanInvariant == ScanSpec => []ScanInv
<1>1. ScanInit => ScanInv
  BY ScanInvInit
<1>2. ScanInv /\ [ScanNext]_scanVars => ScanInv'
  BY OpenDirKeeps, ChDirKeeps, ListKeeps, NextEntryKeeps, LstatKeeps, UpKeeps,
     QuietStepKeeps, ReturnKeeps DEF ScanNext, ScanStep
<1> QED
  BY <1>1, <1>2, PTL DEF ScanSpec

\* The variables of the scan keep their types.
THEOREM ScanTypeCorrect == ScanSpec => []ScanTypeOK
<1>1. ScanInv => ScanTypeOK
  BY DEF ScanInv
<1> QED
  BY <1>1, ScanInvariant, PTL

\* printdir looks every relative name up in the directory it has read it from,
\* unless a chdir has failed: however deep the recursion is, whatever ends.
THEOREM ScanLooksInOpenDirectory == ScanSpec => []InOpenDirectory
<1>1. ScanInv => InOpenDirectory
  BY DEF ScanInv, Nested, InOpenDirectory
<1> QED
  BY <1>1, ScanInvariant, PTL

-----------------------------------------------------------------------------
(* The monitor that runs is found *)

FromProc == Len(stack) >= 1 => stack[1].dir = ProcDir

\* The walk leaves a directory with entries to come only after a hit.
Exhausted == pc = "up" /\ result # 0 => Top.rest = {}

\* The call for the directory of m has its command line still to look into.
Inside(m) ==
    /\ Len(stack) >= 2
    /\ stack[2].dir = <<"proc", m>>
    /\ \/ Len(stack) = 2 /\ pc \in {"chdir", "list", "fopen", "read"}
       \/ Len(stack) = 2 /\ pc = "lstat" /\ entry = "cmdline"
       \/ "cmdline" \in stack[2].rest

\* The walk has m still to come to, or is at it.
Ahead(m) ==
    \/ Len(stack) = 0 /\ pc = "opendir"
    \/ Len(stack) = 1 /\ pc \in {"chdir", "list"}
    \/ Len(stack) = 1 /\ pc \in {"lstat", "opendir"} /\ entry = m
    \/ Len(stack) >= 1 /\ m \in stack[1].rest
    \/ Inside(m)

FoundOrAhead ==
    result # 0 /\ ~astray => \A m \in Monitor \cap running : Ahead(m)

SearchInv == FromProc /\ Exhausted /\ FoundOrAhead

LEMMA MonitorFacts ==
  ASSUME NEW m \in Monitor
  PROVE  m \in Task /\ Leader[m] = m /\ m \notin Name
  BY TaskAssumption, LeaderAssumption, MonitorAssumption

\* What the walk meets of a process that runs.
LEMMA RunningIsSeen ==
  ASSUME running \subseteq Task, NEW m \in Monitor, m \in running
  PROVE  /\ m \in Entries(ProcDir)
         /\ DirExists(<<"proc", m>>)
         /\ "cmdline" \in Entries(<<"proc", m>>)
         /\ FileExists(<<"proc", m, "cmdline">>)
         /\ ~DirExists(<<"proc", m, "cmdline">>)
<1>1. m \in Task /\ Leader[m] = m /\ m \notin Name
  BY MonitorFacts
<1>2. m \in Entries(ProcDir)
  BY <1>1 DEF Entries
<1>3. DirExists(<<"proc", m>>)
  BY DEF DirExists
<1>4. "cmdline" \in Entries(<<"proc", m>>)
  BY DEF Entries, ProcDir
<1>5. FileExists(<<"proc", m, "cmdline">>)
  <2> DEFINE d == <<"proc", m>>
  <2>1. d \in Dir
    BY <1>1, DirCases
  <2>2. d # Root /\ Len(d) = 2 /\ d[2] # "task"
    BY <1>1 DEF Root, Name
  <2>3. <<"proc", m, "cmdline">> = Append(d, "cmdline")
    OBVIOUS
  <2> HIDE DEF d
  <2> QED
    BY <1>3, <2>1, <2>2, <2>3 DEF FileExists, d
<1>6. ~DirExists(<<"proc", m, "cmdline">>)
  <2> DEFINE f == <<"proc", m, "cmdline">>
  <2>1. Len(f) = 3 /\ f[3] = "cmdline"
    OBVIOUS
  <2>2. f # Root /\ f # ProcDir
    BY DEF Root, ProcDir
  <2>3. \A t, u \in Task : /\ f # <<"proc", t>> /\ f # <<"proc", t, "task">>
                           /\ f # <<"proc", t, "task", u>>
    BY <2>1
  <2> QED
    BY <2>2, <2>3 DEF DirExists, TasksOf
<1> QED
  BY <1>2, <1>3, <1>4, <1>5, <1>6

\* Where the walk is, in lengths of the stack.
LEMMA WalkFacts ==
  ASSUME ScanInv
  PROVE  /\ stack \in Seq(Frame) /\ Len(stack) \in Nat
         /\ stack = <<>> <=> Len(stack) = 0
         /\ pc \in {"chdir", "list", "next", "lstat", "fopen", "read", "eof", "up"}
                => Len(stack) >= 1
         /\ pc \in {"return", "done"} => Len(stack) = 0
         /\ \A i \in 1 .. Len(stack) : stack[i] \in Frame
<1>1. stack \in Seq(Frame)
  BY ScanInvFacts
<1>2. Len(stack) \in Nat /\ (stack = <<>> <=> Len(stack) = 0)
  BY <1>1, LenProperties, EmptySeq
<1>3. \A i \in 1 .. Len(stack) : stack[i] \in Frame
  BY <1>1, ElementOfSeq
<1> QED
  BY <1>1, <1>2, <1>3, ScanInvFacts

\* A name looked up by the call for /proc, or by the one for a process.
LEMMA PathFromTop ==
  ASSUME ScanInv, FromProc, ~astray, pc # "chdir", NEW m \in Monitor
  PROVE  /\ Len(stack) = 1 => Path(m) = <<"proc", m>>
         /\ Len(stack) = 2 /\ stack[2].dir = <<"proc", m>>
                => cwd = <<"proc", m>> /\ Path("cmdline") = <<"proc", m, "cmdline">>
<1>1. Len(stack) >= 1 => cwd = stack[Len(stack)].dir
  BY WalkFacts DEF ScanInv, Nested, Top
<1>2. m # "."
  BY MonitorFacts DEF Name
<1>3. ASSUME Len(stack) = 1 PROVE Path(m) = <<"proc", m>>
  <2>1. cwd = <<"proc">>
    BY <1>1, <1>3 DEF FromProc, ProcDir
  <2>2. <<"proc", m>> = Append(<<"proc">>, m)
    OBVIOUS
  <2>3. Path(m) = Append(cwd, m)
    BY <1>2 DEF Path
  <2> QED
    BY <2>1, <2>2, <2>3, Zenon
<1>4. ASSUME Len(stack) = 2, stack[2].dir = <<"proc", m>>
      PROVE  cwd = <<"proc", m>> /\ Path("cmdline") = <<"proc", m, "cmdline">>
  <2>1. cwd = <<"proc", m>>
    BY <1>1, <1>4
  <2>2. <<"proc", m, "cmdline">> = Append(<<"proc", m>>, "cmdline")
    OBVIOUS
  <2>3. Path("cmdline") = Append(cwd, "cmdline")
    BY DEF Path
  <2> QED
    BY <2>1, <2>2, <2>3, Zenon
<1> QED
  BY <1>3, <1>4

\* The calls around the innermost one are as they were.
LEMMA CallersKept ==
  ASSUME ScanInv, NEW f \in Frame, f.dir = Top.dir, setTop(f), Len(stack) >= 1
  PROVE  /\ Len(stack') = Len(stack)
         /\ stack'[1].dir = stack[1].dir
         /\ Len(stack) >= 2 => stack'[1] = stack[1] /\ stack'[2].dir = stack[2].dir
         /\ Len(stack) >= 3 => stack'[2] = stack[2]
         /\ stack'[Len(stack)] = f
<1>1. stack \in Seq(Frame) /\ stack # <<>> /\ Len(stack) \in Nat
  BY WalkFacts
<1>2. /\ Len(stack') = Len(stack)
      /\ \A i \in 1 .. Len(stack) : stack'[i].dir = stack[i].dir
      /\ \A i \in 1 .. Len(stack) - 1 : stack'[i] = stack[i]
      /\ stack'[Len(stack)] = f
  BY <1>1, Retopped
<1> QED
  BY <1>1, <1>2

\* What holds of a monitor before a step after which it still has to be found.
LEMMA AheadBefore ==
  ASSUME SearchInv, ScanInv, result' # 0, ~astray', result' = result,
         astray' = astray, running' \subseteq running,
         NEW m \in Monitor \cap running'
  PROVE  /\ Ahead(m) /\ m \in Monitor /\ m \in running /\ running \subseteq Task
         /\ ~astray /\ result # 0
  BY ScanInvFacts DEF SearchInv, FoundOrAhead

LEMMA OpenDirSearches == ScanInv /\ SearchInv /\ OpenDir => SearchInv'
<1> SUFFICES ASSUME ScanInv, SearchInv, OpenDir PROVE SearchInv'
  OBVIOUS
<1>0. /\ pc = "opendir" /\ pc' \in {"chdir", "next"} /\ Len(stack) \in Nat
      /\ stack \in Seq(Frame) /\ (stack = <<>> <=> Len(stack) = 0)
      /\ Len(stack) = 0 => entry = "proc" /\ cwd = Root
      /\ entry \in Task \cup Name /\ running \subseteq Task
      /\ UNCHANGED <<cwd, entry, result, running, astray>>
  BY ScanInvFacts, WalkFacts DEF OpenDir, at
<1>1. Len(stack) = 0 => Path(entry) = ProcDir /\ DirExists(ProcDir)
  <2>1. <<"proc">> = Append(<<>>, "proc")
    OBVIOUS
  <2>2. Len(stack) = 0 => Path(entry) = ProcDir
    BY <1>0, <2>1 DEF Path, ProcDir, Root
  <2> QED
    BY <2>2 DEF DirExists
<1>2. CASE DirExists(Path(entry))
  <2> DEFINE d == Path(entry)
             f == [dir |-> d, rest |-> {}, stat |-> Kind]
  <2>1. pc' = "chdir" /\ stack' = Append(stack, f)
    BY <1>2 DEF OpenDir, at
  <2>2. f \in Frame /\ f.dir = d
    BY <1>0, <1>2, ExistsInDir DEF Frame
  <2> HIDE DEF d, f
  <2>3. /\ Len(stack') = Len(stack) + 1
        /\ \A i \in 1 .. Len(stack) : stack'[i] = stack[i]
        /\ stack'[Len(stack) + 1] = f
    BY <1>0, <2>1, <2>2, Pushed
  <2>4. FromProc'
    BY <1>0, <1>1, <2>2, <2>3 DEF SearchInv, FromProc, d
  <2>5. Exhausted'
    BY <2>1 DEF Exhausted
  <2>6. FoundOrAhead'
    <3> SUFFICES ASSUME result' # 0, ~astray', NEW m \in Monitor \cap running'
                 PROVE  Ahead(m)'
      BY DEF FoundOrAhead
    <3>1. Ahead(m) /\ m \in Monitor /\ ~astray
      BY <1>0, AheadBefore
    <3>2. CASE Len(stack) = 0
      BY <2>1, <2>3, <3>2 DEF Ahead
    <3>3. CASE Len(stack) = 1 /\ entry = m
      <4>1. d = <<"proc", m>>
        BY <1>0, <3>1, <3>3, PathFromTop DEF SearchInv, d
      <4> QED
        BY <2>1, <2>2, <2>3, <3>3, <4>1 DEF Ahead, Inside
    <3>4. CASE Len(stack) >= 1 /\ m \in stack[1].rest
      BY <1>0, <2>3, <3>4 DEF Ahead
    <3>5. CASE Inside(m)
      BY <1>0, <2>3, <3>5 DEF Ahead, Inside
    <3> QED
      BY <1>0, <3>1, <3>2, <3>3, <3>4, <3>5 DEF Ahead
  <2> QED
    BY <2>4, <2>5, <2>6 DEF SearchInv
<1>3. CASE ~DirExists(Path(entry))
  <2>1. pc' = "next" /\ stack' = stack /\ Len(stack) >= 1
    BY <1>0, <1>1, <1>3 DEF OpenDir, at
  <2>2. FromProc' /\ Exhausted'
    BY <2>1 DEF SearchInv, FromProc, Exhausted
  <2>3. FoundOrAhead'
    <3> SUFFICES ASSUME result' # 0, ~astray', NEW m \in Monitor \cap running'
                 PROVE  Ahead(m)'
      BY DEF FoundOrAhead
    <3>1. Ahead(m) /\ m \in Monitor /\ m \in running /\ ~astray
      BY <1>0, AheadBefore
    <3>2. ~(Len(stack) = 1 /\ entry = m)
      BY <1>0, <1>3, <3>1, PathFromTop, RunningIsSeen DEF SearchInv
    <3> QED
      BY <1>0, <2>1, <3>1, <3>2 DEF Ahead, Inside
  <2> QED
    BY <2>2, <2>3 DEF SearchInv
<1> QED
  BY <1>2, <1>3

LEMMA ChDirSearches == ScanInv /\ SearchInv /\ ChDir => SearchInv'
<1> SUFFICES ASSUME ScanInv, SearchInv, ChDir PROVE SearchInv'
  OBVIOUS
<1>0. /\ pc = "chdir" /\ pc' = "list" /\ astray \in BOOLEAN
      /\ astray' = (astray \/ ~DirExists(Top.dir))
      /\ UNCHANGED <<stack, entry, result, running>>
  BY ScanInvFacts DEF ChDir, at
<1>1. FromProc' /\ Exhausted'
  BY <1>0 DEF SearchInv, FromProc, Exhausted
<1>2. FoundOrAhead'
  BY <1>0 DEF SearchInv, FoundOrAhead, Ahead, Inside
<1> QED
  BY <1>1, <1>2 DEF SearchInv

\* The monitor is among what the listing of /proc returns, and its command line
\* among that of its own directory.
LEMMA ListSearches == ScanInv /\ SearchInv /\ List => SearchInv'
<1> SUFFICES ASSUME ScanInv, SearchInv, List PROVE SearchInv'
  OBVIOUS
<1> DEFINE names == IF DirExists(Top.dir) THEN Entries(Top.dir) ELSE {}
           f == [Top EXCEPT !.rest = names]
<1>0. /\ pc = "list" /\ pc' = "next" /\ Len(stack) \in Nat /\ Len(stack) >= 1
      /\ stack # <<>> /\ stack \in Seq(Frame)
      /\ running \subseteq Task
      /\ UNCHANGED <<cwd, entry, result, running, astray>>
      /\ setTop(f)
  BY ScanInvFacts, WalkFacts DEF List, at
<1>1. names \in SUBSET (Task \cup Name)
  BY <1>0, EntriesAreNames
<1>2. Top \in Frame
  BY <1>0, TopIsFrame
<1>3. f \in Frame /\ f.dir = Top.dir /\ f.rest = names
  BY <1>1, <1>2, TopChanged DEF Frame
<1> HIDE DEF names, f
<1>4. /\ Len(stack') = Len(stack)
      /\ stack'[1].dir = stack[1].dir
      /\ Len(stack) >= 2 => stack'[1] = stack[1] /\ stack'[2].dir = stack[2].dir
      /\ Len(stack) >= 3 => stack'[2] = stack[2]
      /\ stack'[Len(stack)] = f
  BY <1>0, <1>3, CallersKept
<1>5. FromProc' /\ Exhausted'
  BY <1>0, <1>4 DEF SearchInv, FromProc, Exhausted
<1>6. FoundOrAhead'
  <2> SUFFICES ASSUME result' # 0, ~astray', NEW m \in Monitor \cap running'
               PROVE  Ahead(m)'
    BY DEF FoundOrAhead
  <2>1. Ahead(m) /\ m \in Monitor /\ m \in running
    BY <1>0, AheadBefore
  <2>2. CASE Len(stack) = 1
    <3>1. Top.dir = ProcDir
      BY <2>2 DEF SearchInv, FromProc, Top
    <3>2. m \in names
      BY <1>0, <2>1, <3>1, RunningIsSeen DEF DirExists, names
    <3> QED
      BY <1>3, <1>4, <2>2, <3>2 DEF Ahead
  <2>3. CASE Len(stack) >= 2 /\ m \in stack[1].rest
    BY <1>0, <1>4, <2>3 DEF Ahead
  <2>4. CASE Len(stack) = 2 /\ Inside(m)
    <3>1. Top.dir = <<"proc", m>>
      BY <2>4 DEF Inside, Top
    <3>2. "cmdline" \in names
      BY <1>0, <2>1, <3>1, RunningIsSeen DEF names
    <3> QED
      BY <1>3, <1>4, <2>4, <3>2 DEF Ahead, Inside
  <2>5. CASE Len(stack) >= 3 /\ Inside(m)
    BY <1>0, <1>4, <2>5 DEF Ahead, Inside
  <2>6. \/ Len(stack) = 1
        \/ Len(stack) >= 2 /\ m \in stack[1].rest
        \/ Len(stack) = 2 /\ Inside(m)
        \/ Len(stack) >= 3 /\ Inside(m)
    <3>1. Inside(m) => Len(stack) >= 2
      BY DEF Inside
    <3>2. /\ Len(stack) \in Nat /\ Len(stack) >= 1
          /\ pc # "opendir" /\ pc \notin {"lstat", "opendir"}
      BY <1>0
    <3>3. \A n \in Nat : n >= 1 => /\ n # 0 /\ (n = 1 \/ n >= 2)
                                  /\ (n >= 2 => n = 2 \/ n >= 3)
      OBVIOUS
    <3> QED
      BY <2>1, <3>1, <3>2, <3>3, Zenon DEF Ahead
  <2> QED
    BY <2>2, <2>3, <2>4, <2>5, <2>6
<1> QED
  BY <1>5, <1>6 DEF SearchInv

LEMMA NextEntrySearches == ScanInv /\ SearchInv /\ NextEntry => SearchInv'
<1> SUFFICES ASSUME ScanInv, SearchInv, NextEntry PROVE SearchInv'
  OBVIOUS
<1>0. /\ pc = "next" /\ pc' = "lstat" /\ Len(stack) \in Nat /\ Len(stack) >= 1
      /\ stack # <<>> /\ stack \in Seq(Frame)
      /\ UNCHANGED <<cwd, result, running, astray>>
  BY ScanInvFacts, WalkFacts DEF NextEntry, at
<1>1. PICK e \in Top.rest : entry' = e /\ setTop([Top EXCEPT !.rest = @ \ {e}])
  BY DEF NextEntry
<1>2. Top \in Frame
  BY <1>0, TopIsFrame
<1> DEFINE f == [Top EXCEPT !.rest = @ \ {e}]
<1>3. f \in Frame /\ f.dir = Top.dir /\ f.rest = Top.rest \ {e}
  BY <1>2 DEF Frame
<1>4. setTop(f)
  BY <1>1
<1> HIDE DEF f
<1>5. /\ Len(stack') = Len(stack)
      /\ stack'[1].dir = stack[1].dir
      /\ Len(stack) >= 2 => stack'[1] = stack[1] /\ stack'[2].dir = stack[2].dir
      /\ Len(stack) >= 3 => stack'[2] = stack[2]
      /\ stack'[Len(stack)] = f
  BY <1>0, <1>3, <1>4, CallersKept
<1>6. FromProc' /\ Exhausted'
  BY <1>0, <1>5 DEF SearchInv, FromProc, Exhausted
<1>7. FoundOrAhead'
  <2> SUFFICES ASSUME result' # 0, ~astray', NEW m \in Monitor \cap running'
               PROVE  Ahead(m)'
    BY DEF FoundOrAhead
  <2>1. Ahead(m)
    BY <1>0, AheadBefore
  <2>2. CASE Len(stack) = 1 /\ m \in stack[1].rest
    BY <1>0, <1>1, <1>3, <1>5, <2>2 DEF Ahead, Top
  <2>3. CASE Len(stack) >= 2 /\ m \in stack[1].rest
    BY <1>0, <1>5, <2>3 DEF Ahead
  <2>4. CASE Len(stack) = 2 /\ Inside(m)
    <3>1. "cmdline" \in Top.rest /\ stack'[2].rest = Top.rest \ {e}
      BY <1>0, <1>3, <1>5, <2>4 DEF Inside, Top
    <3>2. stack'[2].dir = <<"proc", m>>
      BY <1>5, <2>4 DEF Inside
    <3> QED
      BY <1>0, <1>1, <1>5, <2>4, <3>1, <3>2 DEF Ahead, Inside
  <2>5. CASE Len(stack) >= 3 /\ Inside(m)
    BY <1>0, <1>5, <2>5 DEF Ahead, Inside
  <2>6. \/ Len(stack) = 1 /\ m \in stack[1].rest
        \/ Len(stack) >= 2 /\ m \in stack[1].rest
        \/ Len(stack) = 2 /\ Inside(m)
        \/ Len(stack) >= 3 /\ Inside(m)
    <3>1. Inside(m) => Len(stack) >= 2
      BY DEF Inside
    <3>2. /\ Len(stack) \in Nat /\ Len(stack) >= 1
          /\ pc # "opendir" /\ pc \notin {"lstat", "opendir"}
          /\ pc \notin {"chdir", "list"}
      BY <1>0
    <3>3. \A n \in Nat : n >= 1 => /\ n # 0 /\ (n = 1 \/ n >= 2)
                                  /\ (n >= 2 => n = 2 \/ n >= 3)
      OBVIOUS
    <3> QED
      BY <2>1, <3>1, <3>2, <3>3, Zenon DEF Ahead
  <2> QED
    BY <2>2, <2>3, <2>4, <2>5, <2>6
<1> QED
  BY <1>6, <1>7 DEF SearchInv

\* The directory of a process that runs is descended into, its command line
\* looked into: the stat buffer of an entry that exists is its own.
LEMMA LstatSearches == ScanInv /\ SearchInv /\ Lstat => SearchInv'
<1> SUFFICES ASSUME ScanInv, SearchInv, Lstat PROVE SearchInv'
  OBVIOUS
<1> DEFINE kinds == IF DirExists(Path(entry)) THEN {"dir"}
                    ELSE IF FileExists(Path(entry)) THEN {"file"} ELSE Top.stat
           f == [Top EXCEPT !.stat = kinds]
<1>0. /\ pc = "lstat" /\ Len(stack) \in Nat /\ Len(stack) >= 1
      /\ stack # <<>> /\ stack \in Seq(Frame) /\ running \subseteq Task
      /\ UNCHANGED <<cwd, entry, result, running, astray>>
      /\ setTop(f)
      /\ \/ pc' = (IF entry = "." THEN "next" ELSE "opendir") /\ "dir" \in kinds
         \/ pc' = (IF entry = "cmdline" THEN "fopen" ELSE "next") /\ "file" \in kinds
  BY ScanInvFacts, WalkFacts DEF Lstat, at
<1>1. Top \in Frame
  BY <1>0, TopIsFrame
<1>2. kinds \in SUBSET Kind
  BY <1>1 DEF Frame, Kind
<1>3. /\ DirExists(Path(entry)) => kinds = {"dir"}
      /\ ~DirExists(Path(entry)) /\ FileExists(Path(entry)) => kinds = {"file"}
  OBVIOUS
<1> HIDE DEF kinds
<1>4. f \in Frame /\ f.dir = Top.dir /\ f.rest = Top.rest
  BY <1>1, <1>2, TopChanged DEF Frame
<1> HIDE DEF f
<1>5. /\ Len(stack') = Len(stack)
      /\ stack'[1].dir = stack[1].dir
      /\ Len(stack) >= 2 => stack'[1] = stack[1] /\ stack'[2].dir = stack[2].dir
      /\ Len(stack) >= 3 => stack'[2] = stack[2]
      /\ stack'[Len(stack)] = f
  BY <1>0, <1>4, CallersKept
<1>6. FromProc' /\ Exhausted'
  BY <1>0, <1>5 DEF SearchInv, FromProc, Exhausted
<1>7. FoundOrAhead'
  <2> SUFFICES ASSUME result' # 0, ~astray', NEW m \in Monitor \cap running'
               PROVE  Ahead(m)'
    BY DEF FoundOrAhead
  <2>1. Ahead(m) /\ m \in Monitor /\ m \in running /\ ~astray
    BY <1>0, AheadBefore
  <2>2. CASE Len(stack) = 1 /\ entry = m
    <3>1. kinds = {"dir"} /\ m # "."
      BY <1>0, <1>3, <2>1, <2>2, PathFromTop, RunningIsSeen, MonitorFacts
      DEF SearchInv, Name
    <3> QED
      BY <1>0, <1>5, <2>2, <3>1 DEF Ahead
  <2>3. CASE Len(stack) = 2 /\ stack[2].dir = <<"proc", m>> /\ entry = "cmdline"
    <3>1. kinds = {"file"}
      BY <1>0, <1>3, <2>1, <2>3, PathFromTop, RunningIsSeen DEF SearchInv
    <3>2. pc' = "fopen" /\ Len(stack') = 2
      BY <1>0, <1>5, <2>3, <3>1
    <3>3. stack'[2].dir = <<"proc", m>>
      BY <1>5, <2>3
    <3> QED
      BY <3>2, <3>3 DEF Ahead, Inside
  <2>4. CASE m \in stack[1].rest
    <3>1. stack'[1].rest = stack[1].rest
      BY <1>0, <1>4, <1>5 DEF Top
    <3> QED
      BY <1>0, <1>5, <2>4, <3>1 DEF Ahead
  <2>5. CASE Len(stack) >= 2 /\ stack[2].dir = <<"proc", m>>
             /\ "cmdline" \in stack[2].rest
    <3>1. stack'[2].rest = stack[2].rest
      BY <1>0, <1>4, <1>5, <2>5 DEF Top
    <3> QED
      BY <1>0, <1>5, <2>5, <3>1 DEF Ahead, Inside
  <2> QED
    BY <1>0, <2>1, <2>2, <2>3, <2>4, <2>5 DEF Ahead, Inside
<1> QED
  BY <1>6, <1>7 DEF SearchInv

\* Back at the caller: nothing is left of the directory that is left.
LEMMA UpSearches == ScanInv /\ SearchInv /\ Up => SearchInv'
<1> SUFFICES ASSUME ScanInv, SearchInv, Up PROVE SearchInv'
  OBVIOUS
<1>0. /\ pc = "up" /\ stack # <<>> /\ stack \in Seq(Frame)
      /\ UNCHANGED <<entry, result, running>>
      /\ stack' = SubSeq(stack, 1, Len(stack) - 1)
      /\ pc' = (IF Len(stack) = 1 THEN "return" ELSE IF result = 0 THEN "up" ELSE "next")
      /\ astray => astray'
  BY ScanInvFacts DEF Up, at
<1>1. /\ Len(stack) \in Nat \ {0}
      /\ Len(stack') = Len(stack) - 1
      /\ \A i \in 1 .. Len(stack) - 1 : stack'[i] = stack[i]
  BY <1>0, Popped
<1>2. /\ Len(stack) >= 2 => stack'[1] = stack[1] /\ Len(stack') >= 1
      /\ Len(stack) >= 3 => stack'[2] = stack[2] /\ Len(stack') >= 2
      /\ Len(stack) = 1 => Len(stack') = 0
  BY <1>1
<1>3. FromProc' /\ Exhausted'
  <2>1. FromProc'
    BY <1>1, <1>2 DEF SearchInv, FromProc
  <2>2. Exhausted'
    BY <1>0 DEF Exhausted
  <2> QED
    BY <2>1, <2>2
<1>4. FoundOrAhead'
  <2> SUFFICES ASSUME result' # 0, ~astray', NEW m \in Monitor \cap running'
               PROVE  Ahead(m)'
    BY DEF FoundOrAhead
  <2>1. Ahead(m) /\ stack[Len(stack)].rest = {}
    BY <1>0 DEF SearchInv, FoundOrAhead, Exhausted, Top
  <2>2. CASE Len(stack) >= 1 /\ m \in stack[1].rest
    <3>1. Len(stack) >= 2
      BY <1>1, <2>1, <2>2
    <3> QED
      BY <1>2, <2>2, <3>1 DEF Ahead
  <2>3. CASE Inside(m)
    <3>1. Len(stack) >= 2 /\ stack[2].dir = <<"proc", m>>
          /\ "cmdline" \in stack[2].rest
      BY <1>0, <2>3 DEF Inside
    <3>2. Len(stack) >= 3
      BY <1>1, <2>1, <3>1
    <3> QED
      BY <1>2, <3>1, <3>2 DEF Ahead, Inside
  <2> QED
    BY <1>0, <2>1, <2>2, <2>3 DEF Ahead
<1> QED
  BY <1>3, <1>4 DEF SearchInv

LEMMA LastEntrySearches == ScanInv /\ SearchInv /\ LastEntry => SearchInv'
<1> SUFFICES ASSUME ScanInv, SearchInv, LastEntry PROVE SearchInv'
  OBVIOUS
<1>0. /\ pc = "next" /\ pc' = "up" /\ Top.rest = {}
      /\ UNCHANGED <<stack, cwd, entry, result, running, astray>>
  BY DEF LastEntry, at
<1>1. FromProc' /\ Exhausted'
  BY <1>0 DEF SearchInv, FromProc, Exhausted, Top
<1>2. FoundOrAhead'
  BY <1>0 DEF SearchInv, FoundOrAhead, Ahead, Inside
<1> QED
  BY <1>1, <1>2 DEF SearchInv

\* The command line of the monitor is opened and is a hit.
LEMMA GrepFileSearches ==
  ScanInv /\ SearchInv /\ (FOpen \/ ReadLine \/ ReadEnd) => SearchInv'
<1> SUFFICES ASSUME ScanInv, SearchInv, FOpen \/ ReadLine \/ ReadEnd
             PROVE  SearchInv'
  OBVIOUS
<1>0. /\ pc \in {"fopen", "read", "eof"} /\ pc' \in {"read", "next", "up", "eof"}
      /\ pc' = "up" => result' = 0
      /\ result' # 0 => result' = result
      /\ UNCHANGED <<stack, cwd, entry, running, astray>>
      /\ running \subseteq Task
  BY ScanInvFacts DEF FOpen, ReadLine, ReadEnd, at
<1>1. FromProc' /\ Exhausted'
  BY <1>0 DEF SearchInv, FromProc, Exhausted
<1>2. FoundOrAhead'
  <2> SUFFICES ASSUME result' # 0, ~astray', NEW m \in Monitor \cap running'
               PROVE  Ahead(m)'
    BY DEF FoundOrAhead
  <2>1. Ahead(m) /\ m \in Monitor /\ m \in running /\ ~astray
    BY <1>0, AheadBefore
  <2>2. CASE /\ Len(stack) = 2 /\ stack[2].dir = <<"proc", m>>
             /\ pc \in {"fopen", "read"}
    <3>1. cwd = <<"proc", m>> /\ Path("cmdline") = <<"proc", m, "cmdline">>
      BY <2>1, <2>2, PathFromTop DEF SearchInv
    <3>2. CASE FOpen
      <4>1. pc' = "read"
        BY <1>0, <2>1, <3>1, <3>2, RunningIsSeen DEF FOpen, at
      <4> QED
        BY <1>0, <2>2, <4>1 DEF Ahead, Inside
    <3>3. ~ReadLine
      <4>1. Len(<<"proc", m>>) = 2 /\ <<"proc", m>>[2] = m
        OBVIOUS
      <4>2. m \in Owner /\ Leader[m] \in Monitor
        BY <2>1, <3>1, <4>1, MonitorFacts DEF Owner
      <4> QED
        BY <1>0, <4>2 DEF ReadLine, at
    <3> QED
      BY <2>2, <3>2, <3>3 DEF ReadEnd, at
  <2>3. CASE \/ Len(stack) >= 1 /\ m \in stack[1].rest
             \/ /\ Len(stack) >= 2 /\ stack[2].dir = <<"proc", m>>
                /\ "cmdline" \in stack[2].rest
    BY <1>0, <2>3 DEF Ahead, Inside
  <2> QED
    BY <1>0, <2>1, <2>2, <2>3 DEF Ahead, Inside
<1> QED
  BY <1>1, <1>2 DEF SearchInv

\* The scan does not end while a monitor is ahead; nor does the end of a process
\* or a thread take another out of the way.
LEMMA OthersSearch ==
  ScanInv /\ SearchInv
      /\ (ProcIsExistReturns \/ (\E t \in running : Ends(t)) \/ UNCHANGED scanVars)
  => SearchInv'
<1> SUFFICES ASSUME ScanInv, SearchInv,
                    \/ ProcIsExistReturns
                    \/ \E t \in running : Ends(t)
                    \/ UNCHANGED scanVars
             PROVE  SearchInv'
  OBVIOUS
<1>1. CASE ProcIsExistReturns
  <2>1. /\ pc = "return" /\ pc' = "done" /\ Len(stack) = 0
        /\ UNCHANGED <<stack, entry, result, running, astray>>
    BY <1>1, WalkFacts DEF ProcIsExistReturns, at
  <2>2. \A m : ~Ahead(m)
    BY <2>1 DEF Ahead, Inside
  <2> QED
    BY <2>1, <2>2 DEF SearchInv, FromProc, Exhausted, FoundOrAhead
<1>2. CASE (\E t \in running : Ends(t)) \/ UNCHANGED scanVars
  <2>1. /\ UNCHANGED <<pc, stack, cwd, entry, result, astray>>
        /\ running' \subseteq running
    BY <1>2 DEF Ends, scanVars
  <2> QED
    BY <2>1 DEF SearchInv, FromProc, Exhausted, FoundOrAhead, Ahead, Inside, Top
<1> QED
  BY <1>1, <1>2

\* A monitor that runs through the whole scan is found, among any processes
\* and threads that end meanwhile, unless a chdir has failed.
THEOREM MonitorIsFound == ScanSpec => []FindsMonitor
<1>1. ScanInit => SearchInv
  <2> SUFFICES ASSUME ScanInit PROVE SearchInv
    OBVIOUS
  <2>1. pc = "opendir" /\ Len(stack) = 0
    BY DEF ScanInit
  <2> QED
    BY <2>1 DEF SearchInv, FromProc, Exhausted, FoundOrAhead, Ahead
<1>2. ScanInv /\ SearchInv /\ [ScanNext]_scanVars => SearchInv'
  BY OpenDirSearches, ChDirSearches, ListSearches, NextEntrySearches,
     LastEntrySearches, LstatSearches, UpSearches, GrepFileSearches,
     OthersSearch DEF ScanNext, ScanStep
<1>3. ScanInv /\ SearchInv => FindsMonitor
  <2> SUFFICES ASSUME ScanInv, SearchInv, pc = "done", ~astray,
                      NEW m \in Monitor \cap running, result # 0
               PROVE  FALSE
    BY DEF FindsMonitor
  <2>1. Len(stack) = 0 /\ Ahead(m)
    BY WalkFacts DEF SearchInv, FoundOrAhead
  <2> QED
    BY <2>1 DEF Ahead, Inside
<1> QED
  BY <1>1, <1>2, <1>3, ScanInvariant, PTL DEF ScanSpec

=============================================================================
