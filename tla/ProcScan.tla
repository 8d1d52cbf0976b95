-------------------------------- MODULE ProcScan --------------------------------
(***************************************************************************)
(* ProcIsExist: the recursive walk through /proc that looks for the        *)
(* monitor, call by call, while the processes and threads it walks over    *)
(* end.  printdir changes into every directory by a relative name and back *)
(* with "..", and looks at none of the results.                            *)
(*                                                                         *)
(* A directory is its path.  Of a process only its threads ("task") and    *)
(* its command line are kept; readdir may list entries in any order.       *)
(***************************************************************************)
EXTENDS Integers, Sequences

CONSTANTS
    Task,       \* the threads that run when the scan begins
    Leader,     \* the thread whose number is that of the process
    Monitor,    \* processes whose command line begins with the name searched
    DotDotWorks \* whether ".." can be followed out of a directory whose process
                \* has ended: kernels differ

Name == {"proc", "task", "cmdline", "."}

ASSUME TaskAssumption == Task \cap Name = {}
ASSUME LeaderAssumption ==
    Leader \in [Task -> Task] /\ \A t \in Task : Leader[Leader[t]] = Leader[t]
ASSUME MonitorAssumption == Monitor \subseteq {Leader[t] : t \in Task}
ASSUME DotDotAssumption == DotDotWorks \in (SUBSET BOOLEAN) \ {{}}

VARIABLES
    pc,         \* the next call of the innermost printdir, or of GrepFile
    stack,      \* the calls of printdir: directory, entries to come, statbuf
    cwd,        \* working directory of the process
    entry,      \* entry->d_name of the innermost call, or the name it is given
    result,     \* what printdir is about to return, 0 or -1
    running,    \* the threads that have not ended
    astray      \* history: a chdir has failed, so that ".." leads elsewhere

scanVars == <<pc, stack, cwd, entry, result, running, astray>>

Root == <<>>
ProcDir == <<"proc">>

\* Process of a thread by any of its numbers: the kernel finds them all.
Dir ==
    {Root, ProcDir}
        \cup {<<"proc", t>> : t \in Task}
        \cup {<<"proc", t, "task">> : t \in Task}
        \cup {<<"proc", t, "task", u>> : t, u \in Task}

TasksOf(t) == {u \in running : Leader[u] = Leader[t]}

DirExists(d) ==
    \/ d \in {Root, ProcDir}
    \/ \E t \in running :
           \/ d \in {<<"proc", t>>, <<"proc", t, "task">>}
           \/ \E u \in TasksOf(t) : d = <<"proc", t, "task", u>>

\* /proc/cmdline is that of the kernel.
FileExists(f) ==
    \E d \in Dir \ {Root} :
        /\ DirExists(d)
        /\ f = Append(d, "cmdline")
        /\ d[Len(d)] # "task"

Entries(d) ==
    {"."} \cup IF d = ProcDir THEN {"cmdline"} \cup {t \in running : Leader[t] = t}
               ELSE IF Len(d) = 3 THEN TasksOf(d[2])
               ELSE IF Len(d) = 2 THEN {"task", "cmdline"}
               ELSE {"cmdline"}

Parent(d) == IF d = Root THEN Root ELSE SubSeq(d, 1, Len(d) - 1)

Top == stack[Len(stack)]

\* What a name means in the working directory.
Path(name) == IF name = "." THEN cwd ELSE Append(cwd, name)

\* The thread the command line in the working directory belongs to, if any.
Owner == {t \in Task : Len(cwd) > 1 /\ cwd[Len(cwd)] = t}

Kind == {"dir", "file"}

ScanTypeOK ==
    /\ pc \in {"opendir", "chdir", "list", "next", "lstat", "fopen", "read",
               "eof", "up", "return", "done"}
    /\ stack \in Seq([dir : Dir, rest : SUBSET (Task \cup Name),
                      stat : SUBSET Kind])
    /\ cwd \in Dir
    /\ entry \in Task \cup Name
    /\ result \in {0, -1}
    /\ running \subseteq Task
    /\ astray \in BOOLEAN

\* The scan begins: printdir("/proc", 0).
ScanInit ==
    /\ pc = "opendir"
    /\ stack = <<>>
    /\ cwd = Root
    /\ entry = "proc"
    /\ result = -1
    /\ running = Task
    /\ astray = FALSE

at(from, to) == pc = from /\ pc' = to

setTop(frame) == stack' = [stack EXCEPT ![Len(stack)] = frame]

-----------------------------------------------------------------------------
(* Variants of the actions below, each with a plausible fault. *)

\* chdir("..") is missing where nothing has been found.
UpStays ==
    /\ at("up", IF Len(stack) = 1 THEN "return" ELSE IF result = 0 THEN "up" ELSE "next")
    /\ stack' = SubSeq(stack, 1, Len(stack) - 1)
    /\ UNCHANGED <<cwd, entry, result, running, astray>>

\* The end of the file is not tested.
ReadEndForEver ==
    /\ at("eof", "read")
    /\ UNCHANGED <<stack, cwd, entry, result, running, astray>>

\* opendir fails and ".." is followed all the same.
OpenDirGoesUp ==
    LET d == Path(entry)
    IN  /\ \/ /\ DirExists(d)
              /\ at("opendir", "chdir")
              /\ stack' = Append(stack, [dir |-> d, rest |-> {}, stat |-> Kind])
           \/ /\ ~DirExists(d)
              /\ at("opendir", "up")
              /\ UNCHANGED stack
        /\ UNCHANGED <<cwd, entry, result, running, astray>>

\* A hit is reported as true.
ReadLineReturnsTrue ==
    /\ Owner \subseteq running
    /\ at("read", "up")
    /\ result' = IF \E t \in Owner : Leader[t] \in Monitor THEN 1 ELSE 0
    /\ UNCHANGED <<stack, cwd, entry, running, astray>>

-----------------------------------------------------------------------------
(* printdir *)

\* A directory that has gone is not an error to the caller, and not left.
OpenDir ==
    LET d == Path(entry)
    IN  /\ \/ /\ DirExists(d)
              /\ at("opendir", "chdir")
              /\ stack' = Append(stack, [dir |-> d, rest |-> {}, stat |-> Kind])
           \/ /\ ~DirExists(d)
              /\ at("opendir", "next")
              /\ UNCHANGED stack
        /\ UNCHANGED <<cwd, entry, result, running, astray>>

\* chdir(dir): if the process has ended since, the working directory stays.
ChDir ==
    /\ at("chdir", "list")
    /\ cwd' = IF DirExists(Top.dir) THEN Top.dir ELSE cwd
    /\ astray' = (astray \/ ~DirExists(Top.dir))
    /\ UNCHANGED <<stack, entry, result, running>>

\* The first readdir: one call of the kernel lists the directory.
List ==
    /\ at("list", "next")
    /\ setTop([Top EXCEPT !.rest = IF DirExists(Top.dir) THEN Entries(Top.dir) ELSE {}])
    /\ UNCHANGED <<cwd, entry, result, running, astray>>

NextEntry ==
    /\ at("next", "lstat")
    /\ \E e \in Top.rest :
           /\ entry' = e
           /\ setTop([Top EXCEPT !.rest = @ \ {e}])
    /\ UNCHANGED <<cwd, result, running, astray>>

LastEntry ==
    /\ at("next", "up")
    /\ Top.rest = {}
    /\ UNCHANGED <<stack, cwd, entry, result, running, astray>>

\* A failed lstat leaves statbuf as it was, which may be as the stack left it.
\* "." is skipped; of the files only "cmdline" is looked into.
Lstat ==
    LET kinds == IF DirExists(Path(entry)) THEN {"dir"}
                 ELSE IF FileExists(Path(entry)) THEN {"file"} ELSE Top.stat
    IN  /\ \/ /\ at("lstat", IF entry = "." THEN "next" ELSE "opendir")
              /\ "dir" \in kinds
           \/ /\ at("lstat", IF entry = "cmdline" THEN "fopen" ELSE "next")
              /\ "file" \in kinds
        /\ setTop([Top EXCEPT !.stat = kinds])
        /\ UNCHANGED <<cwd, entry, result, running, astray>>

\* chdir(".."), closedir, return.
Up ==
    /\ at("up", IF Len(stack) = 1 THEN "return" ELSE IF result = 0 THEN "up" ELSE "next")
    /\ stack' = SubSeq(stack, 1, Len(stack) - 1)
    /\ \E works \in IF DirExists(cwd) THEN {TRUE} ELSE DotDotWorks :
           /\ cwd' = IF works THEN Parent(cwd) ELSE cwd
           /\ astray' = (astray \/ ~works)
    /\ UNCHANGED <<entry, result, running>>

-----------------------------------------------------------------------------
(* GrepFile(f_cmdline, proc_name) *)

FOpen ==
    /\ at("fopen", IF FileExists(Path("cmdline")) THEN "read" ELSE "next")
    /\ UNCHANGED <<stack, cwd, entry, result, running, astray>>

\* The line begins with the name of the program, which is all that is
\* compared: the arguments follow after a NUL.
ReadLine ==
    /\ Owner \subseteq running
    /\ \/ /\ \E t \in Owner : Leader[t] \in Monitor
          /\ at("read", "up")
          /\ result' = 0
       \/ /\ \A t \in Owner : Leader[t] \notin Monitor
          /\ at("read", "eof")
          /\ UNCHANGED result
    /\ UNCHANGED <<stack, cwd, entry, running, astray>>

ReadEnd ==
    /\ Owner \subseteq running
    /\ at("eof", "next")
    /\ UNCHANGED <<stack, cwd, entry, result, running, astray>>

\* Once the process has been reaped each read returns an error, which is not
\* the end of the file: "while(!feof(fp))" goes round without a change.
Spins == pc \in {"read", "eof"} /\ ~(Owner \subseteq running)

-----------------------------------------------------------------------------
(* ProcIsExist *)

\* chdir(curr_path)
ProcIsExistReturns ==
    /\ at("return", "done")
    /\ cwd' = Root
    /\ UNCHANGED <<stack, entry, result, running, astray>>

\* A process ends with all its threads, another thread alone.
Ends(t) ==
    /\ pc # "done"
    /\ running' = running \ (IF Leader[t] = t THEN TasksOf(t) ELSE {t})
    /\ UNCHANGED <<pc, stack, cwd, entry, result, astray>>

ScanStep ==
    \/ OpenDir \/ ChDir \/ List \/ NextEntry \/ LastEntry \/ Lstat \/ Up
    \/ FOpen \/ ReadLine \/ ReadEnd
    \/ ProcIsExistReturns

ScanNext == ScanStep \/ \E t \in running : Ends(t)

ScanSpec == ScanInit /\ [][ScanNext]_scanVars

\* Every call returns.
FairScanSpec == ScanSpec /\ WF_scanVars(ScanStep)

-----------------------------------------------------------------------------
(* Properties *)

\* Unless a directory disappeared between opendir and chdir, or could not be
\* left by "..", every relative name is looked up in the directory it was read
\* from, through any recursion and whatever else ends meanwhile.
InOpenDirectory ==
    ~astray /\ stack # <<>> /\ pc # "chdir" => cwd = Top.dir

\* Under the same condition a monitor that runs through the whole scan is
\* found: neither a stale stat buffer nor processes that end elsewhere in
\* the walk make the server restart a monitor that is well.
FindsMonitor ==
    pc = "done" /\ ~astray /\ Monitor \cap running # {} => result = 0

\* The scan ends, or goes round in GrepFile for ever on the command line of
\* a process that has been reaped between two calls; nothing else holds it up.
EndsOrSpins == <>(pc = "done" \/ Spins)

\* README.txt, line 4: the server checks the monitor every 30 seconds.
ScanReturns == <>(pc = "done")

=============================================================================
