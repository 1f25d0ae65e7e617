------------------------------- MODULE Shell -------------------------------
(***************************************************************************)
(* user/init.c, user/sh.c and the programs a shell starts, over the        *)
(* system calls of FileTable and the parser of ShParse.  A process is the  *)
(* sequence of calls it still has to make: runcmd, main and the programs   *)
(* are translated to such sequences, and a step of a process is one call.  *)
(* Slots of the process table stand for pids.                              *)
(***************************************************************************)
EXTENDS FileTable, ShParse

CONSTANTS
  Lines,     \* what can be typed at a prompt
  RunLines,  \* bound: the typed lines that are also run
  MaxTyped   \* bound: lines typed, the end of the input included

VARIABLES
  proc,      \* state, parent, code: calls to make, p: runcmd's p or cat's fd
  buf,       \* the shell's line
  typed

vars == <<file, ofile, pipes, sys, kpanic, proc, buf, typed>>

initproc == 1
Op(o) == [op |-> o]
Num(o, n) == [op |-> o, n |-> n]
Fork(child) == [op |-> "fork", child |-> child]

----------------------------------------------------------------------------
(* The programs. *)
Repeat(n, code) == FoldLeft(LAMBDA c, k : c \o code, <<>>, [k \in 1..n |-> k])
echo(argc) == Repeat(2 * (argc - 1), <<Num("write", 1)>>)
cat(argc) ==
  IF argc <= 1 THEN <<Num("read", 0)>>
  ELSE Repeat(argc - 1, <<Op("openr"), Op("opened")>>)
(* Any program: as many calls on descriptors as it has words. *)
other(argc) == Repeat(argc, <<Op("any")>>)
Program(name, argc) ==
  CASE name = "e" -> echo(argc) [] name = "c" -> cat(argc) [] name = "g" -> other(argc)
    [] OTHER -> <<>>

(* close(p[0]); close(p[1]), by the two children and by their parent. *)
MutKeepWriteEnd == <<Num("closep", 1)>>
closeboth == <<Num("closep", 1), Num("closep", 2)>>

(* runcmd, for the line s.  io: what descriptors 0 and 1 have to be when a  *)
(* command starts, for the property Wired only.                             *)
Run(cmd, s, io) == <<[op |-> "run", cmd |-> cmd, s |-> s, io |-> io]>>

runcmd(cmd, s, io) ==
  CASE cmd.type = "EXEC" ->
         IF cmd.argv = <<>> THEN <<Op("exit")>>
         ELSE <<[op |-> "exec", io |-> io, name |-> s[cmd.argv[1][1]], argc |-> Len(cmd.argv)],
                Op("exit")>>
    [] cmd.type = "REDIR" ->
         <<Num("close", cmd.fd), Op(IF cmd.mode = "r" THEN "openr" ELSE "openw"), Op("check")>>
           \o Run(cmd.cmd, s, [io EXCEPT ![cmd.fd + 1] = "INODE"])
    [] cmd.type = "LIST" ->
         <<Fork(Run(cmd.left, s, io)), Op("wait")>> \o Run(cmd.right, s, io)
    [] cmd.type = "PIPE" ->
         <<Op("pipe"), Op("piped"),
           Fork(<<Num("close", 1), Num("dupp", 2)>> \o closeboth
                  \o Run(cmd.left, s, [io EXCEPT ![2] = "PIPE"])),
           Fork(<<Num("close", 0), Num("dupp", 1)>> \o closeboth
                  \o Run(cmd.right, s, [io EXCEPT ![1] = "PIPE"]))>>
           \o closeboth \o <<Op("wait"), Op("wait"), Op("exit")>>
    [] cmd.type = "BACK" -> <<Fork(Run(cmd.cmd, s, io)), Op("exit")>>

(* What the child of main does with the line. *)
Command(s, r) == IF r.i = 0 THEN <<Op("exit")>> ELSE Run(r.cmd, s, <<"INODE", "INODE">>)
command(s) == Command(s, parsecmd(s))

----------------------------------------------------------------------------
UNUSED == [state |-> "UNUSED", parent |-> 0, code |-> <<>>, p |-> <<0, 0>>]
Runs(p) == kpanic = "" /\ proc[p].state = "RUNNABLE"
On(p, o) == Runs(p) /\ InUser(p) /\ proc[p].code # <<>> /\ Head(proc[p].code).op = o
Arg(p) == Head(proc[p].code)
Rest(p) == Tail(proc[p].code)
Go(p, code) == proc' = [proc EXCEPT ![p].code = code] /\ UNCHANGED <<buf, typed>>
Local(p, code) == Go(p, code) /\ UNCHANGED fvars

(* Calls whose result the program does not look at, or looks at next. *)
call(p) ==
  /\ \/ On(p, "close") /\ sys_close(p, Arg(p).n)
     \/ On(p, "closep") /\ sys_close(p, proc[p].p[Arg(p).n])
     \/ On(p, "dup") /\ sys_dup(p, Arg(p).n)
     \/ On(p, "dupp") /\ sys_dup(p, proc[p].p[Arg(p).n])
     \/ On(p, "openr") /\ \E found \in BOOLEAN : sys_open(p, found, TRUE, FALSE)
     \/ On(p, "openw") /\ \E found \in BOOLEAN : sys_open(p, found, FALSE, TRUE)
     \/ On(p, "pipe") /\ sys_pipe(p)
     \/ On(p, "write") /\ sys_write(p, Arg(p).n)
     \/ On(p, "any") /\ \/ \E fd \in Fd : sys_dup(p, fd) \/ sys_close(p, fd)
                        \/ sys_pipe(p) \/ sys_open(p, TRUE, TRUE, FALSE)
  /\ Go(p, Rest(p))

run(p) == On(p, "run") /\ Local(p, runcmd(Arg(p).cmd, Arg(p).s, Arg(p).io))

(* runcmd's checks of open and pipe. *)
check(p) ==
  /\ On(p, "check")
  /\ Local(p, IF sys[p].ret < 0 THEN <<Op("exit")>> ELSE Rest(p))

piped(p) ==
  /\ On(p, "piped")
  /\ IF sys[p].ret < 0 THEN Local(p, <<Op("exit")>>)
     ELSE /\ proc' = [proc EXCEPT ![p].p = <<sys[p].ret, sys[p].fd1>>, ![p].code = Rest(p)]
          /\ UNCHANGED <<fvars, buf, typed>>

(* cat. *)
opened(p) ==
  /\ On(p, "opened")
  /\ Local(p, IF sys[p].ret < 0 THEN <<Op("exit")>>
              ELSE <<Num("read", sys[p].ret), Num("close", sys[p].ret)>> \o Rest(p))

cat_read(p) ==
  /\ On(p, "read")
  /\ sys_read(p, Arg(p).n)
  /\ Go(p, <<Num("catw", Arg(p).n)>> \o Rest(p))

cat_write(p) ==
  /\ On(p, "catw")
  /\ IF sys[p].ret <= 0 THEN Local(p, IF sys[p].ret < 0 THEN <<Op("exit")>> ELSE Rest(p))
     ELSE sys_write(p, 1) /\ Go(p, <<Num("written", Arg(p).n)>> \o Rest(p))

cat_written(p) ==
  /\ On(p, "written")
  /\ Local(p, IF sys[p].ret # 1 THEN <<Op("exit")>> ELSE <<Num("read", Arg(p).n)>> \o Rest(p))

----------------------------------------------------------------------------
(* fork, exec, wait and exit of kernel/proc.c. *)
kfork(p, q) ==
  /\ q = Min({r \in Proc : proc[r].state = "UNUSED"})
  /\ kfork_files(p, q)
  /\ UNCHANGED <<pipes, sys, kpanic, buf, typed>>

Child(p, child) == [state |-> "RUNNABLE", parent |-> p, code |-> child, p |-> proc[p].p]
Full == \A q \in Proc : proc[q].state # "UNUSED"

fork1(p) ==
  /\ On(p, "fork")
  /\ IF Full THEN Local(p, <<Op("exit")>>)
     ELSE \E q \in Proc :
            /\ kfork(p, q)
            /\ proc' = [proc EXCEPT ![p].code = Rest(p), ![q] = Child(p, Arg(p).child)]

exec(p) ==
  /\ On(p, "exec")
  /\ \/ Arg(p).name \in {"e", "c", "g"}
        /\ Local(p, Program(Arg(p).name, Arg(p).argc) \o <<Op("exit")>>)
     \/ Local(p, Rest(p))

Children(p) == {q \in Proc : proc[q].state # "UNUSED" /\ proc[q].parent = p}
Zombies(p) == {q \in Children(p) : proc[q].state = "ZOMBIE"}
kwait(p) == Zombies(p) # {} \/ Children(p) = {}

wait(p) ==
  /\ On(p, "wait") /\ kwait(p)
  /\ proc' = [q \in Proc |-> IF q = p THEN [proc[p] EXCEPT !.code = Rest(p)]
                             ELSE IF Zombies(p) # {} /\ q = Min(Zombies(p)) THEN UNUSED
                             ELSE proc[q]]
  /\ UNCHANGED <<fvars, buf, typed>>

reparent(p, q) == IF proc[q].parent = p THEN initproc ELSE proc[q].parent

exit(p) ==
  /\ On(p, "exit")
  /\ \/ kexit_close(p) /\ UNCHANGED proc
     \/ /\ Open(p) = {}
        /\ proc' = [q \in Proc |-> IF q = p THEN [UNUSED EXCEPT !.state = "ZOMBIE",
                                                              !.parent = proc[p].parent]
                                  ELSE [proc[q] EXCEPT !.parent = reparent(p, q)]]
        /\ UNCHANGED fvars
  /\ UNCHANGED <<buf, typed>>

----------------------------------------------------------------------------
(* main of sh.c: descriptors 0, 1 and 2, then a line at a time, or the end  *)
(* of the input.                                                            *)
prompt == <<Num("write", 2), Op("getcmd")>>

console(p) ==
  \/ On(p, "console") /\ sys_open(p, TRUE, TRUE, TRUE) /\ Go(p, <<Op("consoled")>>)
  \/ /\ On(p, "consoled")
     /\ Local(p, IF sys[p].ret < 0 THEN prompt
                 ELSE IF sys[p].ret >= 3 THEN <<Num("close", sys[p].ret)>> \o prompt
                 ELSE <<Op("console")>>)

Blank(s) == \A i \in DOMAIN s : s[i] = " "
IsCd(s) == Len(s) > 2 /\ s[1] = "c" /\ s[2] = "d" /\ s[3] = " "

getcmd(p) ==
  /\ On(p, "getcmd")
  /\ typed < MaxTyped /\ typed' = typed + 1
  /\ \/ UNCHANGED buf /\ proc' = [proc EXCEPT ![p].code = <<Op("exit")>>]
     \/ \E s \in Lines :
          LET cmd == SubSeq(s, Span(s, 1, {" "}), Len(s)) \o <<"\n">>
          IN /\ buf' = cmd
             /\ proc' = [proc EXCEPT ![p].code =
                  IF Blank(s) \/ IsCd(cmd) THEN prompt
                  ELSE IF s \notin RunLines THEN <<>>
                  ELSE <<Fork(command(cmd)), Op("wait")>> \o prompt]
  /\ UNCHANGED fvars

(* main of init.c; when init calls exit, kexit panics. *)
init_exit == kexit_panic /\ UNCHANGED <<proc, buf, typed>>

init_open(p) ==
  /\ On(p, "init")
  /\ \E found \in BOOLEAN : sys_open(p, found, TRUE, TRUE)
  /\ Go(p, <<Op("mknod"), Num("dup", 0), Num("dup", 0), Op("spawn")>>)

init_mknod(p) ==
  /\ On(p, "mknod")
  /\ IF sys[p].ret >= 0 THEN UNCHANGED fvars ELSE sys_open(p, TRUE, TRUE, TRUE)
  /\ Go(p, Rest(p))

init_fork(p) ==
  /\ On(p, "spawn")
  /\ IF Full THEN init_exit
     ELSE \E q \in Proc :
            /\ kfork(p, q)
            /\ proc' = [proc EXCEPT ![p].code = <<Op("reap")>>, ![p].p = <<q, 0>>,
                                    ![q] = Child(p, <<Op("sh"), Op("exit")>>)]

exec_sh(p) ==
  /\ On(p, "sh")
  /\ \/ Local(p, <<Op("console")>>)
     \/ Local(p, Rest(p))

init_wait(p) ==
  /\ On(p, "reap") /\ kwait(p)
  /\ IF Zombies(p) = {} THEN init_exit
     ELSE LET z == Min(Zombies(p))
          IN /\ proc' = [proc EXCEPT ![z] = UNUSED,
                           ![p].code = IF z = proc[p].p[1] THEN <<Op("spawn")>> ELSE @]
             /\ UNCHANGED <<fvars, buf, typed>>

----------------------------------------------------------------------------
Init ==
  /\ FileInit
  /\ proc = [p \in Proc |-> IF p = initproc
                             THEN [UNUSED EXCEPT !.state = "RUNNABLE", !.code = <<Op("init")>>]
                             ELSE UNUSED]
  /\ buf = <<>> /\ typed = 0

kernel(p) == Kernel(p) /\ UNCHANGED <<proc, buf, typed>>

user(p) ==
  \/ call(p) \/ run(p) \/ check(p) \/ piped(p) \/ opened(p) \/ cat_read(p) \/ cat_write(p)
  \/ cat_written(p) \/ fork1(p) \/ exec(p) \/ wait(p) \/ exit(p) \/ console(p)
  \/ init_open(p) \/ init_mknod(p) \/ init_fork(p) \/ exec_sh(p) \/ init_wait(p)

Step(p) == Runs(p) /\ IF InUser(p) THEN user(p) ELSE kernel(p)

(* Nobody has to type. *)
Next == \E p \in Proc : Step(p) \/ getcmd(p)
Spec == Init /\ [][Next]_vars /\ \A p \in Proc : WF_vars(Step(p))

----------------------------------------------------------------------------
(* parsecmd and nulterminate agree with the grammar on every line that a    *)
(* shell has read and not yet run.                                          *)
LineRead == \E p \in Proc : /\ proc[p].state = "RUNNABLE"
                            /\ proc[p].code = <<>> \/ On(p, "fork")
ParserExact == LineRead => ParsesExactly(buf)

(* A command that runcmd starts has descriptors 0, 1 and 2 and no others:   *)
(* a pipe or a redirection has taken the place of 0 or 1, in the right      *)
(* direction, and no end of a pipe is left over.                            *)
Wired ==
  \A p \in Proc : On(p, "exec") =>
    /\ Open(p) = {0, 1, 2}
    /\ LET i == file[ofile[p][0]]  o == file[ofile[p][1]]
       IN i.type = Arg(p).io[1] /\ i.readable /\ o.type = Arg(p).io[2] /\ o.writable

(* What was typed comes to an end: every reader of a pipeline sees the end  *)
(* of its input, since nobody keeps a write end that it does not use; the   *)
(* shell's wait returns; and every process is waited for, by init when its  *)
(* parent leaves it behind, until only init and its shell are left and the  *)
(* only open files are theirs.                                              *)
Settled ==
  LET sh == proc[initproc].p[1]
  IN /\ \A p \in Proc \ {initproc, sh} : proc[p].state = "UNUSED"
     /\ sh \in Proc /\ ~On(sh, "wait")
     /\ \A g \in Page : ~pipes[g].used
CommandsFinish == []<>(typed = MaxTyped => Settled)
============================================================================
