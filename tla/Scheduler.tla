----------------------------- MODULE Scheduler -----------------------------
(***************************************************************************)
(* The timer-driven scheduler of src/src/scheduler.c and the process       *)
(* system calls of src/src/process.c on the one CPU they share.            *)
(*                                                                         *)
(* cpu is the context the CPU executes: whose stack slot it is on and at   *)
(* which point.  A system call runs with IRQs masked (exception entry), so *)
(* it is one step up to the ENABLE_INTERRUPTS of add_process and           *)
(* remove_process; what follows that, up to the return to the caller, is   *)
(* a point of its own, where the timer may fire.                           *)
(***************************************************************************)
EXTENDS ProcessTable

CONSTANTS
  KillStatus,   \* the statuses processes pass to kill
  Calls,        \* the system calls processes make
  NestedTicks,  \* may the timer fire inside schedule() after a reap?
  ExitSpins     \* does the caller of exit spin, as _start of the SDK does?

ASSUME WorkloadAssumption ==
  /\ KillStatus \subseteq Status
  /\ Calls \subseteq {"clone", "exit", "kill", "waitpid", "exec"}
  /\ NestedTicks \in BOOLEAN
  /\ ExitSpins \in BOOLEAN

VARIABLES
  cpu,  \* the context being executed
  irq,  \* are IRQs unmasked?
  spsr  \* SPSR_svc: did the last SWI come from code in SVC mode, IRQs masked?

vars == <<tableVars, cpu, irq, spsr>>

\* Code of a process, as opposed to schedule() on its stack.
ThreadPoint == {"user", "sysret", "sysfree", "exitret", "exited", "waitspin", "lost"}
SchedPoint == {"check", "advance", "switch"}

At(pt) == cpu.at = pt

\* A swi: the one SPSR_svc, which no context switch saves, takes the mode and
\* the mask of its caller.
Swi(call) == At("user") /\ call \in Calls /\ spsr' = cpu.masked

Init == /\ TableInit
        /\ cpu = [FreshContext(0) EXCEPT !.at = "boot"]
        /\ irq = TRUE
        /\ spsr = FALSE

\* init_scheduler: "init" is the code of k_start itself, already running.
Boot == /\ At("boot")
        /\ \E w \in Wait : AddProcess(InitAddr, w)
        /\ cpu' = [cpu EXCEPT !.at = "user"]
        /\ irq' = TRUE
        /\ UNCHANGED spsr

-----------------------------------------------------------------------------
\* The timer interrupt and schedule().

\* Variant of Tick: the pointer moves on before the context is saved.
TickSavesLate ==
  /\ irq
  /\ cpu.at \in ThreadPoint \/ (NestedTicks /\ cpu.at \in SchedPoint)
  /\ sp' = [sp EXCEPT ![next[current_process]] = cpu]
  /\ status' = [status EXCEPT ![current_process] = IF @ = "RUN" THEN "WAIT" ELSE @]
  /\ cpu' = [cpu EXCEPT !.at = "check", !.masked = FALSE, !.blk = NULL]
  /\ irq' = FALSE
  /\ UNCHANGED <<alloc, run_count, stack_idx, wait_time, next, prev,
                 current_process, real_nbprocs, stacks, spsr>>

\* Variant of Tick: the preempted process stays RUN.
TickStaysRun ==
  /\ irq
  /\ cpu.at \in ThreadPoint \/ (NestedTicks /\ cpu.at \in SchedPoint)
  /\ sp' = [sp EXCEPT ![current_process] = cpu]
  /\ cpu' = [cpu EXCEPT !.at = "check", !.masked = FALSE, !.blk = NULL]
  /\ irq' = FALSE
  /\ UNCHANGED <<alloc, status, run_count, stack_idx, wait_time, next, prev,
                 current_process, real_nbprocs, stacks, spsr>>

\* irq_handler up to the loop of schedule(): save, and RUN becomes WAIT.
Tick ==
  /\ irq
  /\ cpu.at \in ThreadPoint \/ (NestedTicks /\ cpu.at \in SchedPoint)
  /\ sp' = [sp EXCEPT ![current_process] = cpu]
  /\ status' = [status EXCEPT ![current_process] = IF @ = "RUN" THEN "WAIT" ELSE @]
  /\ cpu' = [cpu EXCEPT !.at = "check", !.masked = FALSE, !.blk = NULL]
  /\ irq' = FALSE
  /\ UNCHANGED <<alloc, run_count, stack_idx, wait_time, next, prev,
                 current_process, real_nbprocs, stacks, spsr>>

Successor == next[current_process]
ReapDue(a) == wait_time[a] \in {0, ReapLimit}

\* Nothing to reap at the successor.
SchedSkip ==
  /\ At("check")
  /\ status[Successor] # "TERM"
  /\ cpu' = [cpu EXCEPT !.at = "advance"]
  /\ UNCHANGED <<tableVars, irq, spsr>>

\* Variant of SchedAge: the counter is taken to be unbounded.
SchedAgeNoWrap ==
  /\ At("check")
  /\ status[Successor] = "TERM"
  /\ ~ReapDue(Successor)
  /\ wait_time' = [wait_time EXCEPT ![Successor] = @ + 1]
  /\ cpu' = [cpu EXCEPT !.at = "advance"]
  /\ UNCHANGED <<alloc, status, run_count, stack_idx, sp, next, prev,
                 current_process, real_nbprocs, stacks, irq, spsr>>

\* Variant of SchedAge: a marked process is passed over without ageing.
SchedAgePassesOver ==
  /\ At("check")
  /\ status[Successor] = "TERM"
  /\ ~ReapDue(Successor)
  /\ cpu' = [cpu EXCEPT !.at = "advance"]
  /\ UNCHANGED <<tableVars, irq, spsr>>

\* A terminated successor that waitpid has marked: one scan older.
SchedAge ==
  /\ At("check")
  /\ status[Successor] = "TERM"
  /\ ~ReapDue(Successor)
  /\ wait_time' = [wait_time EXCEPT ![Successor] = (@ + 1) % WaitMod]
  /\ cpu' = [cpu EXCEPT !.at = "advance"]
  /\ UNCHANGED <<alloc, status, run_count, stack_idx, sp, next, prev,
                 current_process, real_nbprocs, stacks, irq, spsr>>

\* A terminated successor is removed; remove_process leaves IRQs unmasked.
SchedReap ==
  /\ At("check")
  /\ status[Successor] = "TERM"
  /\ ReapDue(Successor)
  /\ Successor # InitAddr
  /\ RemoveProcess(Successor, status)
  /\ cpu' = [cpu EXCEPT !.at = "advance"]
  /\ irq' = TRUE
  /\ UNCHANGED spsr

\* remove_process(1) never returns.
SchedHalt ==
  /\ At("check")
  /\ status[Successor] = "TERM"
  /\ ReapDue(Successor)
  /\ Successor = InitAddr
  /\ cpu' = [cpu EXCEPT !.at = "halted"]
  /\ irq' = FALSE
  /\ UNCHANGED <<tableVars, spsr>>

\* Variant of SchedAdvance: a current process that is still ready is kept.
SchedAdvanceKeeps ==
  LET p == IF status[current_process] = "WAIT" THEN current_process ELSE Successor IN
  /\ At("advance")
  /\ current_process' = p
  /\ cpu' = [cpu EXCEPT !.at = IF status[p] = "WAIT" THEN "switch" ELSE "check"]
  /\ UNCHANGED <<alloc, status, run_count, stack_idx, sp, wait_time,
                 next, prev, real_nbprocs, stacks, irq, spsr>>

\* current_process = current_process->next, and the test of the loop.
SchedAdvance ==
  /\ At("advance")
  /\ current_process' = Successor
  /\ cpu' = [cpu EXCEPT !.at = IF status[Successor] = "WAIT" THEN "switch" ELSE "check"]
  /\ UNCHANGED <<alloc, status, run_count, stack_idx, sp, wait_time,
                 next, prev, real_nbprocs, stacks, irq, spsr>>

\* switch_context: only a process that has run before has a frame to pop;
\* another one starts at its entry point, on the stack it was given.
ResumeContext(a) ==
  IF run_count'[a] > 1 THEN sp[a]
                       ELSE [FreshContext(sp[a].stk) EXCEPT !.at = "user"]

SchedSwitch ==
  /\ At("switch")
  /\ status' = [status EXCEPT ![current_process] = "RUN"]
  /\ run_count' = [run_count EXCEPT ![current_process] = Bump(@)]
  /\ cpu' = ResumeContext(current_process)
  /\ irq' = TRUE
  /\ UNCHANGED <<alloc, stack_idx, sp, wait_time, next, prev,
                 current_process, real_nbprocs, stacks, spsr>>

-----------------------------------------------------------------------------
\* System calls of the running process.

\* clone, and spawn once load_elf has returned.
Clone(p, w) ==
  /\ Swi("clone")
  /\ AddProcess(p, w)
  /\ cpu' = [cpu EXCEPT !.at = "sysret"]
  /\ irq' = TRUE

\* Variant of CloneFull: the block is also freed before IRQs come back.
CloneFullFreesTwice(p) ==
  /\ Swi("clone")
  /\ alloc[p] = "free"
  /\ FreeSlots = {}
  /\ status' = [status EXCEPT ![p] = "WAIT"]
  /\ run_count' = [run_count EXCEPT ![p] = 0]
  /\ wait_time' = [wait_time EXCEPT ![current_process] = 0]
  /\ cpu' = [cpu EXCEPT !.at = "sysfree", !.blk = p]
  /\ irq' = TRUE
  /\ UNCHANGED <<alloc, stack_idx, sp, next, prev, current_process, real_nbprocs, stacks>>

\* add_process with every slot taken: IRQs come back before the block goes.
CloneFull(p) ==
  /\ Swi("clone")
  /\ alloc[p] = "free"
  /\ FreeSlots = {}
  /\ alloc' = [alloc EXCEPT ![p] = "private"]
  /\ status' = [status EXCEPT ![p] = "WAIT"]
  /\ run_count' = [run_count EXCEPT ![p] = 0]
  /\ wait_time' = [wait_time EXCEPT ![current_process] = 0]
  /\ cpu' = [cpu EXCEPT !.at = "sysfree", !.blk = p]
  /\ irq' = TRUE
  /\ UNCHANGED <<stack_idx, sp, next, prev, current_process, real_nbprocs, stacks>>

CloneFullFree ==
  /\ At("sysfree")
  /\ alloc' = [alloc EXCEPT ![cpu.blk] = "free"]
  /\ cpu' = [cpu EXCEPT !.at = "sysret", !.blk = NULL]
  /\ UNCHANGED <<status, run_count, stack_idx, sp, wait_time, next, prev,
                 current_process, real_nbprocs, stacks, irq, spsr>>

\* Variant of SysReturn: the caller of exit goes on as after any other call.
SysReturnFromExit ==
  /\ cpu.at \in {"sysret", "exitret"}
  /\ cpu' = [cpu EXCEPT !.at = IF cpu.masked \/ spsr THEN "lost" ELSE "user"]
  /\ irq' = ~spsr
  /\ UNCHANGED <<tableVars, spsr>>

\* The end of swi_handler restores mode and mask from SPSR_svc, whoever made
\* the last swi.  A caller that exec left in SVC mode has had its link register
\* overwritten, and one that returns in SVC mode runs on the wrong stack:
\* either is lost.
SysReturn ==
  /\ cpu.at \in {"sysret", "exitret"}
  /\ cpu' = [cpu EXCEPT !.at = IF cpu.masked \/ spsr THEN "lost"
                               ELSE IF At("exitret") /\ ExitSpins THEN "exited"
                               ELSE "user"]
  /\ irq' = ~spsr
  /\ UNCHANGED <<tableVars, spsr>>

\* exit: kill(self, TERM), then remove_process(self) without leaving the
\* process; current_process still points at the freed block.
Exit ==
  /\ Swi("exit")
  /\ current_process # InitAddr
  /\ RemoveProcess(current_process, [status EXCEPT ![current_process] = "TERM"])
  /\ cpu' = [cpu EXCEPT !.at = "exitret"]
  /\ irq' = TRUE

\* pid 1: the remove_process of its exit never returns.
ExitInit ==
  /\ Swi("exit")
  /\ current_process = InitAddr
  /\ status' = [status EXCEPT ![InitAddr] = "TERM"]
  /\ cpu' = [cpu EXCEPT !.at = "halted"]
  /\ irq' = FALSE
  /\ UNCHANGED <<alloc, run_count, stack_idx, sp, wait_time, next, prev,
                 current_process, real_nbprocs, stacks>>

\* kill writes whatever status it is given; nothing is woken or removed here.
Kill(a, s) ==
  /\ Swi("kill")
  /\ a \in Orbit(current_process)
  /\ status' = [status EXCEPT ![a] = s]
  /\ cpu' = [cpu EXCEPT !.at = "sysret"]
  /\ irq' = FALSE
  /\ UNCHANGED <<alloc, run_count, stack_idx, sp, wait_time, next, prev,
                 current_process, real_nbprocs, stacks>>

\* waitpid marks its target, then spins inside the system call, IRQs masked,
\* until it is TERM: nobody else can run to make it so.
WaitPid(a) ==
  /\ Swi("waitpid")
  /\ a \in Orbit(current_process)
  /\ wait_time' = [wait_time EXCEPT ![a] = 1]
  /\ cpu' = [cpu EXCEPT !.at = "waitspin", !.blk = a]
  /\ irq' = FALSE
  /\ UNCHANGED <<alloc, status, run_count, stack_idx, sp, next, prev,
                 current_process, real_nbprocs, stacks>>

WaitPidDone ==
  /\ At("waitspin")
  /\ status[cpu.blk] = "TERM"
  /\ cpu' = [cpu EXCEPT !.at = "sysret", !.blk = NULL]
  /\ UNCHANGED <<tableVars, irq, spsr>>

\* exec jumps to the new image from inside the system call: SVC mode, IRQs
\* masked, and no return to swi_handler.
Exec ==
  /\ Swi("exec")
  /\ cpu' = [cpu EXCEPT !.masked = TRUE]
  /\ irq' = FALSE
  /\ UNCHANGED tableVars

-----------------------------------------------------------------------------
Schedule == SchedSkip \/ SchedAge \/ SchedReap \/ SchedHalt \/ SchedAdvance \/ SchedSwitch

Spawn == \E p \in Addr : \/ \E w \in Wait : Clone(p, w)
                         \/ CloneFull(p)

Next == \/ Boot
        \/ Tick
        \/ Schedule
        \/ Spawn
        \/ CloneFullFree
        \/ SysReturn
        \/ Exit
        \/ ExitInit
        \/ \E a \in Addr : \/ \E s \in KillStatus : Kill(a, s)
                           \/ WaitPid(a)
        \/ WaitPidDone
        \/ Exec

Spec == Init /\ [][Next]_vars

(***************************************************************************)
(* The CPU executes code already begun.  The timer's request stays pending *)
(* until handle_irq clears it, so it is taken if IRQs are unmasked again   *)
(* and again, however short each time: strong fairness.  Nothing makes a   *)
(* process issue a system call.                                            *)
(***************************************************************************)
Fairness == /\ WF_vars(Boot)
            /\ SF_vars(Tick)
            /\ WF_vars(Schedule)
            /\ WF_vars(CloneFullFree)
            /\ WF_vars(SysReturn)
            /\ WF_vars(WaitPidDone)

FairSpec == Spec /\ Fairness

(***************************************************************************)
(*                             Properties                                  *)
(***************************************************************************)

\* The table's types, and those of the CPU.
TypeOK == /\ TableTypeOK
          /\ cpu \in Context
          /\ irq \in BOOLEAN
          /\ spsr \in BOOLEAN

\* The live processes whose saved context is the only one they have.
Parked == {a \in Ring : a # current_process \/ cpu.at \in SchedPoint}

\* scheduler.c 34, 9-16: the CPU is on the stack of current_process whenever
\* it runs a process's code, and every other live process is parked on its own stack at a
\* point of its own code, never half way through schedule().
OwnContext ==
  /\ cpu.at \in ThreadPoint => cpu.stk = stack_idx[current_process]
  /\ \A a \in Parked : /\ sp[a].stk = stack_idx[a]
                        /\ sp[a].at \in ThreadPoint \cup {"fresh"}

\* scheduler.c 11-25, 50: what decides between popping a frame and starting
\* at the entry point agrees with whether a frame was ever saved.
FrameKnown ==
  \A a \in Parked : run_count[a] = 0 <=> sp[a].at = "fresh"

\* scheduler.c 35-49: RUN marks the process the CPU runs and no other, or a
\* process that is ready would be passed over for ever.
OneRunner == \A a \in Ring : status[a] = "RUN" => a = current_process

\* process.c 154-160, scheduler.c 47: an exit frees current_process under
\* the scheduler's feet, but no process's code ever runs with it dangling.
CurrentAlive == At("user") => current_process \in Ring

\* A process stopped between the two halves of a refused clone still owns the
\* block it is about to free: nobody else was given it meanwhile.
Freeing(a) == a \in Parked /\ sp[a].at = "sysfree"
BlockOwned ==
  /\ At("sysfree") => /\ cpu.blk \in Addr /\ alloc[cpu.blk] = "private"
                      /\ \A a \in Addr : Freeing(a) => sp[a].blk # cpu.blk
  /\ \A a \in Addr : Freeing(a) => sp[a].blk \in Addr /\ alloc[sp[a].blk] = "private"
  /\ \A a, b \in Addr : Freeing(a) /\ Freeing(b) /\ a # b => sp[a].blk # sp[b].blk

Ready(a) == a \in Ring /\ status[a] = "WAIT"
Dead(a) == a \in Ring /\ status[a] = "TERM"
Quiet == <>[][~Spawn]_vars

\* Preemption: once processes stop creating others, each ready process gets
\* the CPU, is killed, or the system halts.
ReadyRuns == Quiet => \A a \in Addr : Ready(a) ~> (~Ready(a) \/ At("halted"))

\* A terminated process is eventually reaped, however waitpid marked it.
TermReaped == Quiet => \A a \in Addr : Dead(a) ~> (~Dead(a) \/ At("halted"))
=============================================================================
