------------------------------ MODULE SvcStack ------------------------------
(***************************************************************************)
(* swi_handler of src/src/asm/interrupts.s on top of Scheduler: a system   *)
(* call pushes the caller's r0-r12 and lr on the SVC stack and pops them   *)
(* at its end.  boot.s sets up one SVC stack for the machine, and neither  *)
(* irq_handler nor switch_context saves or switches sp_svc, so a process   *)
(* preempted inside a system call leaves its frame where the next one's    *)
(* calls push and pop.                                                     *)
(*                                                                         *)
(* Frames are counted whole: the C frames of the handlers, which lie on    *)
(* the same stack and differ in depth, are left out, and a pop takes the   *)
(* frame on top.  A process that pops the frame of another goes on here at *)
(* its own point all the same; SvcFrameOwn says that it does not happen,   *)
(* SvcEnough only counts.                                                  *)
(***************************************************************************)
EXTENDS Scheduler, Sequences

CONSTANT SvcFrames  \* a bound on the frames that pile up

ASSUME SvcAssumption == SvcFrames \in Nat \ {0}

VARIABLE svc  \* whose frames are on the SVC stack, the top first

svcVars == <<vars, svc>>

InCall == {"sysret", "sysfree", "exitret", "waitspin"}

\* stmfd at the entry of a call that gets as far as a point of its own; exec
\* leaves its frame behind.
SwiEntry == At("user") /\ (cpu'.at \in InCall \cup {"halted"} \/ Exec)

\* Variant of SwiExit: a refused clone pops the frame, and its return pops again.
SwiExitTwice == SysReturn \/ CloneFullFree

\* ldmfd ..., pc}^ at its end.
SwiExit == SysReturn

SvcInit == Init /\ svc = <<>>

SvcNext ==
  /\ Next
  /\ SwiEntry => Len(svc) < SvcFrames
  /\ svc' = IF SwiEntry THEN <<current_process>> \o svc
            ELSE IF SwiExit THEN Tail(svc)
            ELSE svc

SvcSpec == SvcInit /\ [][SvcNext]_svcVars

(***************************************************************************)
(*                             Properties                                  *)
(***************************************************************************)

\* interrupts.s 16-23: the frame a system call restores at its end is the one
\* it saved at its entry, not that of another process.
SvcFrameOwn == cpu.at \in {"sysret", "exitret"} => svc # <<>> /\ Head(svc) = current_process

\* The processes that still have a frame to pop.
Inside == {a \in Parked : sp[a].at \in InCall}
            \cup (IF cpu.at \in InCall THEN {current_process} ELSE {})

\* The stack is never short: exits and kills inside a call abandon frames,
\* but no call finds fewer frames than there are calls to finish.
SvcEnough == Len(svc) >= Cardinality(Inside)
=============================================================================
