--------------------------------- MODULE Sh ---------------------------------
(***************************************************************************)
(* user/sh.c and user/init.c above the system calls: the processes that a  *)
(* command line becomes, and their descriptors.  What a program reads and  *)
(* writes is left out: a program may exit at any time, and does so once    *)
(* its input has come to an end.  The calls on descriptors that a process  *)
(* makes in a row are one step, since none of them can block.              *)
(***************************************************************************)
EXTENDS ShParse, FiniteSets, FiniteSetsExt

CONSTANTS
  NPROC,      \* processes; fork fails when all are in use
  NOFILE,
  Scenarios   \* bound: the lines typed in a behaviour

ASSUME ShAssumption == NPROC \in Nat \ {0, 1} /\ NOFILE \in Nat \ {0, 1, 2}

Procs == 1..NPROC
init == 1
Fds == 0..NOFILE - 1

VARIABLES
  proc,     \* state, parent, pc, cmd (what runcmd still has to run), at
            \* (its place in the line) and ofile of each process
  typed,    \* the lines that the user types
  parsed,   \* what parsecmd makes of each of them
  number,   \* how many the shell has read
  failed    \* history: some fork1 or pipe failed

vars == <<proc, typed, parsed, number, failed>>

Closed == <<"closed">>
Console == <<"console">>
File(r) == <<"file", r.file, r.mode>>
Pipe(end, id) == <<"pipe", end, id>>

NoFiles == [d \in Fds |-> Closed]
Unused == [state |-> "UNUSED", parent |-> init, pc |-> "none", cmd |-> execcmd(<<>>), at |-> <<>>, ofile |-> NoFiles]

(* init has opened the console three times. *)
Init ==
  /\ proc = [p \in Procs |->
       IF p = init THEN [Unused EXCEPT !.state = "RUNNING", !.pc = "start",
                                       !.ofile = [d \in Fds |-> IF d < 3 THEN Console ELSE Closed]]
       ELSE Unused]
  /\ typed \in Scenarios /\ parsed = [k \in DOMAIN typed |-> parsecmd(typed[k])] /\ number = 0 /\ failed = FALSE

-----------------------------------------------------------------------------
(* System calls.  A new descriptor is the lowest one that is free. *)
At(p, pc) == proc[p].state = "RUNNING" /\ proc[p].pc = pc
Set(p, x) == proc' = [proc EXCEPT ![p] = x]
Goto(p, pc) == Set(p, [proc[p] EXCEPT !.pc = pc])

Free(o) == {d \in Fds : o[d] = Closed}
fdalloc(o, f) == [o EXCEPT ![Min(Free(o))] = f]
close(o, d) == [o EXCEPT ![d] = Closed]
dup(o, d) == fdalloc(o, o[d])

(* pipe(): two descriptors or none. *)
pipe(o, id) == fdalloc(fdalloc(o, Pipe("r", id)), Pipe("w", id))

(* The first free slot in the table is taken.  fork fails if there is none *)
(* and may fail for want of memory.                                        *)
CanFork == \E p \in Procs : proc[p].state = "UNUSED"
Slot == Min({p \in Procs : proc[p].state = "UNUSED"})
fork(p, mine, child) ==
  proc' = [proc EXCEPT ![p] = mine, ![Slot] = [child EXCEPT !.state = "RUNNING", !.parent = p]]

(* exit closes all files and gives the children to init. *)
Exited(p) == [q \in Procs |->
  IF q = p THEN [Unused EXCEPT !.state = "ZOMBIE", !.parent = proc[p].parent]
  ELSE IF proc[q].state # "UNUSED" /\ proc[q].parent = p THEN [proc[q] EXCEPT !.parent = init] ELSE proc[q]]
exit(p) == proc' = Exited(p)

(* wait: the first zombie child; without children it fails at once. *)
Children(p) == {q \in Procs \ {init} : proc[q].state # "UNUSED" /\ proc[q].parent = p}
Zombies(p) == {q \in Children(p) : proc[q].state = "ZOMBIE"}
CanWait(p) == Zombies(p) # {} \/ Children(p) = {}
wait(p, mine) ==
  proc' = IF Zombies(p) = {} THEN [proc EXCEPT ![p] = mine]
          ELSE [proc EXCEPT ![p] = mine, ![Min(Zombies(p))] = Unused]

-----------------------------------------------------------------------------
(* init: start a shell and wait for whatever exits; at holds the pid of    *)
(* the shell.  If fork fails init exits, and the kernel panics.            *)
start ==
  /\ At(init, "start")
  /\ \/ CanFork /\ fork(init, [proc[init] EXCEPT !.pc = "wait", !.at = <<Slot>>], [proc[init] EXCEPT !.pc = "main"])
     \/ Goto(init, "exited")
  /\ UNCHANGED <<typed, parsed, number, failed>>

init_wait ==
  /\ At(init, "wait") /\ Zombies(init) # {}
  /\ wait(init, [proc[init] EXCEPT !.pc = IF proc[init].at = <<Min(Zombies(init))>> THEN "start" ELSE "wait"])
  /\ UNCHANGED <<typed, parsed, number, failed>>

-----------------------------------------------------------------------------
(* fork1: if fork fails the process prints a message and exits. *)
fork1(p, mine, child) ==
  \/ CanFork /\ fork(p, mine, child) /\ UNCHANGED failed
  \/ exit(p) /\ failed' = TRUE

(* main of the shell, unless exec("sh") fails: descriptors 0, 1 and 2 are  *)
(* opened if they are not.                                                 *)
main(p) ==
  /\ At(p, "main")
  /\ \/ Set(p, [proc[p] EXCEPT !.pc = "getcmd", !.at = <<>>,
                               !.ofile = [d \in Fds |-> IF d < 3 /\ @[d] = Closed THEN Console ELSE @[d]]])
     \/ exit(p)
  /\ UNCHANGED <<typed, parsed, number, failed>>

(* A line: an end of file, a cd, which the shell does itself, or a command *)
(* for a child.  A shell that cannot fork exits.                           *)
getcmd(p) ==
  LET new == typed[number + 1]
  IN  /\ At(p, "getcmd") /\ number < Len(typed)
      /\ number' = number + 1 /\ UNCHANGED <<typed, parsed>>
      /\ CASE new = <<"eof">> -> exit(p) /\ UNCHANGED failed
          [] new # <<>> /\ Head(new) = "cd" -> UNCHANGED <<proc, failed>>
          [] OTHER -> fork1(p, [proc[p] EXCEPT !.pc = "sh_wait"], [proc[p] EXCEPT !.pc = "parse", !.at = <<number'>>])

sh_wait(p) ==
  /\ At(p, "sh_wait") /\ CanWait(p)
  /\ wait(p, [proc[p] EXCEPT !.pc = "getcmd"])
  /\ UNCHANGED <<typed, parsed, number, failed>>

parse(p) ==
  LET r == parsed[number]
  IN  /\ At(p, "parse")
      /\ IF r.ok THEN Set(p, [proc[p] EXCEPT !.pc = "runcmd", !.cmd = r.cmd]) ELSE exit(p)
      /\ UNCHANGED <<typed, parsed, number, failed>>

-----------------------------------------------------------------------------
(* runcmd, one action for each type of command. *)
Run(p, type) == At(p, "runcmd") /\ proc[p].cmd.type = type
Down(x, cmd, step) == [x EXCEPT !.pc = "runcmd", !.cmd = cmd, !.at = Append(@, step)]

(* EXEC: argv[0] may be missing, and exec may fail. *)
run_exec(p) ==
  /\ Run(p, "EXEC")
  /\ \/ proc[p].cmd.argv # <<>> /\ Goto(p, "program")
     \/ exit(p)
  /\ UNCHANGED <<typed, parsed, number, failed>>

(* REDIR: close, then open, which may fail. *)
run_redir(p) ==
  LET x == proc[p]
  IN  /\ Run(p, "REDIR")
      /\ \/ Set(p, [x EXCEPT !.cmd = x.cmd.cmd, !.ofile = fdalloc(close(@, x.cmd.fd), File(x.cmd))])
         \/ exit(p)
      /\ UNCHANGED <<typed, parsed, number, failed>>

run_list(p) ==
  LET x == proc[p]
  IN  /\ Run(p, "LIST")
      /\ fork1(p, [x EXCEPT !.pc = "list_wait"], Down(x, x.cmd.left, "l"))
      /\ UNCHANGED <<typed, parsed, number>>

list_wait(p) ==
  LET x == proc[p]
  IN  /\ At(p, "list_wait") /\ CanWait(p)
      /\ wait(p, Down(x, x.cmd.right, "r"))
      /\ UNCHANGED <<typed, parsed, number, failed>>

(* PIPE: the two ends get the lowest descriptors, unless there are none or *)
(* pipealloc fails.                                                        *)
run_pipe(p) ==
  LET x == proc[p]
  IN  /\ Run(p, "PIPE")
      /\ \/ /\ Cardinality(Free(x.ofile)) >= 2
            /\ Set(p, [x EXCEPT !.pc = "pipe_left", !.ofile = pipe(@, x.at)])
         \/ exit(p)
      /\ UNCHANGED <<typed, parsed, number, failed>>

(* p[0] and p[1]. *)
EndFd(x, end) == CHOOSE d \in Fds : x.ofile[d] = Pipe(end, x.at)
ClosedBoth(x, o) == close(close(o, EndFd(x, "r")), EndFd(x, "w"))

(* Mutant: the end that is not used stays open in the child. *)
Plugged_open(x, d, end) == close(dup(close(x.ofile, d), EndFd(x, end)), EndFd(x, end))

(* The descriptors of a child, with one end of the pipe in place of d. *)
Plugged(x, d, end) == ClosedBoth(x, dup(close(x.ofile, d), EndFd(x, end)))

pipe_left(p) ==
  LET x == proc[p]
  IN  /\ At(p, "pipe_left")
      /\ fork1(p, [x EXCEPT !.pc = "pipe_right"],
               Down([x EXCEPT !.ofile = Plugged(x, 1, "w")], x.cmd.left, "l"))
      /\ UNCHANGED <<typed, parsed, number>>

(* Mutant: the parent keeps the ends. *)
Parent_keeps(x) == x.ofile

Parent(x) == ClosedBoth(x, x.ofile)

pipe_right(p) ==
  LET x == proc[p]
  IN  /\ At(p, "pipe_right")
      /\ fork1(p, [x EXCEPT !.pc = "pipe_wait", !.ofile = Parent(x)],
               Down([x EXCEPT !.ofile = Plugged(x, 0, "r")], x.cmd.right, "r"))
      /\ UNCHANGED <<typed, parsed, number>>

(* Mutant: one wait. *)
AfterWait_one == "done"

AfterWait == "pipe_wait2"

pipe_wait(p) ==
  /\ At(p, "pipe_wait") /\ CanWait(p)
  /\ wait(p, [proc[p] EXCEPT !.pc = AfterWait])
  /\ UNCHANGED <<typed, parsed, number, failed>>

pipe_wait2(p) ==
  /\ At(p, "pipe_wait2") /\ CanWait(p)
  /\ wait(p, [proc[p] EXCEPT !.pc = "done"])
  /\ UNCHANGED <<typed, parsed, number, failed>>

run_back(p) ==
  LET x == proc[p]
  IN  /\ Run(p, "BACK")
      /\ fork1(p, [x EXCEPT !.pc = "done"], Down(x, x.cmd.cmd, "b"))
      /\ UNCHANGED <<typed, parsed, number>>

done(p) == At(p, "done") /\ exit(p) /\ UNCHANGED <<typed, parsed, number, failed>>

(* A program exits. *)
program(p) == At(p, "program") /\ exit(p) /\ UNCHANGED <<typed, parsed, number, failed>>

(* Its input has ended: it is no pipe, or no process can write to it. *)
AtEof(p) ==
  LET f == proc[p].ofile[0]
  IN  f[1] = "pipe" => \A q \in Procs, d \in Fds : proc[q].ofile[d] # Pipe("w", f[3])

Step(p) ==
  \/ main(p) \/ sh_wait(p) \/ parse(p)
  \/ run_exec(p) \/ run_redir(p) \/ run_list(p) \/ list_wait(p)
  \/ run_pipe(p) \/ pipe_left(p) \/ pipe_right(p) \/ pipe_wait(p) \/ pipe_wait2(p)
  \/ run_back(p) \/ done(p)

Next == start \/ init_wait \/ \E p \in Procs : getcmd(p) \/ Step(p) \/ program(p)

(* A process that can go on does; the user need not type a line, and a     *)
(* program need not exit before the end of its input.                      *)
Fairness ==
  /\ WF_vars(start \/ init_wait)
  /\ \A p \in Procs \ {init} : WF_vars(Step(p) \/ (AtEof(p) /\ program(p)))

Spec == Init /\ [][Next]_vars /\ Fairness

-----------------------------------------------------------------------------
(* The parser accepts exactly the lines of its grammar, and builds the one *)
(* tree that the grammar gives (parsecmd of sh.c).                         *)
ParsesGrammar ==
  (\E p \in Procs : At(p, "parse")) =>
    Trees("line", typed[number]) = IF parsed[number].ok THEN {parsed[number].cmd} ELSE {}

(* The programs that a command means, with their input and output: the     *)
(* ends of a pipe belong together, and of several redirections the first   *)
(* on the line is used.                                                    *)
RECURSIVE Meaning(_, _, _, _)
Meaning(cmd, at, in, out) ==
  CASE cmd.type = "EXEC" -> {[argv |-> cmd.argv, at |-> at, in |-> in, out |-> out]}
    [] cmd.type = "REDIR" -> Meaning(cmd.cmd, at, IF cmd.fd = 0 THEN File(cmd) ELSE in, IF cmd.fd = 1 THEN File(cmd) ELSE out)
    [] cmd.type = "LIST" -> Meaning(cmd.left, Append(at, "l"), in, out) \cup Meaning(cmd.right, Append(at, "r"), in, out)
    [] cmd.type = "PIPE" -> Meaning(cmd.left, Append(at, "l"), in, Pipe("w", at)) \cup Meaning(cmd.right, Append(at, "r"), Pipe("r", at), out)
    [] OTHER -> Meaning(cmd.cmd, Append(at, "b"), in, out)

(* A program starts with the input and output that the line means, the     *)
(* console as its third descriptor, and no other: no end of a pipe leaks   *)
(* (the closes and dups of runcmd).                                        *)
ProgramsWired ==
  \A p \in Procs : At(p, "program") /\ proc[p].at[1] = number =>
    LET x == proc[p]
    IN  /\ [argv |-> x.cmd.argv, at |-> x.at, in |-> x.ofile[0], out |-> x.ofile[1]]
             \in Meaning(parsed[number].cmd, <<number>>, Console, Console)
        /\ x.ofile[2] = Console /\ \A d \in Fds : d > 2 => x.ofile[d] = Closed

(* When the shell prompts again, all that it ran in the foreground has     *)
(* exited: each wait() of runcmd and main takes the child that it is for.  *)
(* Only after a failed fork may something be left.                         *)
PromptMeansDone ==
  (\E p \in Procs : At(p, "getcmd")) /\ ~failed =>
    \A p \in Procs : proc[p].state = "RUNNING" /\ Len(proc[p].at) > 1 => "b" \in Range(Tail(proc[p].at))

Waiting == \E p \in Procs : At(p, "sh_wait")

(* Every line comes to its end and the shell prompts again: no program     *)
(* waits for the end of a pipe whose write end a waiting shell holds.      *)
PromptReturns == Waiting ~> ~Waiting
=============================================================================
