---------------------------- MODULE ProcessTable ----------------------------
(***************************************************************************)
(* The process table of src/src/process.c: the s_proc blocks, the circular *)
(* doubly linked ring that the scheduler walks, and the stack slots.       *)
(*                                                                         *)
(* A block is identified with its address, which is also its pid: the code *)
(* looks a pid up by walking the ring, and no two blocks of a ring have    *)
(* the same pid.  pid 1 is the block InitAddr, and remove_process(1) never *)
(* gives it back.  The fields name, ppid, pc, r0, r1 and fd_table take no  *)
(* part in any decision and are left out.                                  *)
(***************************************************************************)
EXTENDS Integers, FiniteSets

CONSTANTS
  Addr,        \* the blocks kmalloc can return for an s_proc
  InitAddr,    \* the one init_scheduler gets for "init" (pid 1)
  NULL,        \* the null pointer
  NBMAX_PROC,  \* the number of stack slots
  WaitMod,     \* wait_time is a 32-bit int, incremented modulo this (2^32)
  ReapLimit    \* USEC_PER_SEC, scaled

ASSUME AddrAssumption == IsFiniteSet(Addr) /\ InitAddr \in Addr /\ NULL \notin Addr
ASSUME SlotAssumption == NBMAX_PROC \in Nat \ {0}
ASSUME WaitAssumption == WaitMod \in Nat /\ ReapLimit \in 1 .. (WaitMod - 1)

VARIABLES
  alloc,            \* [Addr -> Alloc]: who owns the block
  status,           \* s_proc.status
  run_count,        \* s_proc.run_count, told apart only up to "more than 1"
  stack_idx,        \* s_proc.stack_idx
  sp,               \* s_proc.sp: the context the stack pointer leads to
  wait_time,        \* s_proc.wait_time
  next, prev,       \* the ring
  current_process,
  real_nbprocs,
  stacks            \* the slots i with stacks[i] # 0

tableVars == <<alloc, status, run_count, stack_idx, sp, wait_time,
               next, prev, current_process, real_nbprocs, stacks>>

Status == {"RUN", "WAIT", "ZOMBIE", "TERM", "SLEEP"}

\* "private": allocated, but not (or not yet) linked in the ring.
Alloc == {"free", "private", "linked"}

Slot == 0 .. (NBMAX_PROC - 1)
Wait == 0 .. (WaitMod - 1)

(***************************************************************************)
(* What a saved stack pointer leads back to: the slot it points into, the  *)
(* point of the code that was interrupted, whether that code runs with     *)
(* interrupts masked, and the block a full add_process has still to free.  *)
(***************************************************************************)
Point == {"boot", "fresh", "user", "sysret", "sysfree", "exitret", "exited",
          "waitspin", "lost", "check", "advance", "switch", "halted"}
Context == [stk : Slot, at : Point, masked : BOOLEAN, blk : Addr \cup {NULL}]

FreshContext(i) == [stk |-> i, at |-> "fresh", masked |-> FALSE, blk |-> NULL]

Ring == {a \in Addr : alloc[a] = "linked"}
FreeSlots == Slot \ stacks

\* The slot add_process takes: the lowest one with stacks[i] = 0.
LowestFreeSlot == CHOOSE i \in FreeSlots : \A j \in FreeSlots : i <= j

\* The blocks a walk `p = p->next' meets from a; the searches of kill,
\* remove_process and get_process stop when they are back at a.
Orbit(a) == {b \in Addr : \A S \in SUBSET Addr :
                            (a \in S /\ \A x \in S : next[x] \in S) => b \in S}

\* Variant of Bump: schedule() forgets to count the runs of a process.
BumpForgotten(n) == n

\* run_count++, told apart only up to "more than 1".
Bump(n) == IF n < 2 THEN n + 1 ELSE n

TableInit ==
  /\ alloc = [a \in Addr |-> "free"]
  /\ status = [a \in Addr |-> "WAIT"]
  /\ run_count = [a \in Addr |-> 0]
  /\ stack_idx = [a \in Addr |-> 0]
  /\ sp = [a \in Addr |-> FreshContext(0)]
  /\ wait_time = [a \in Addr |-> 0]
  /\ next = [a \in Addr |-> a]
  /\ prev = [a \in Addr |-> a]
  /\ current_process = NULL
  /\ real_nbprocs = 0
  /\ stacks = {}

\* Variant of LinkAfter: the old successor keeps its prev pointer.
LinkAfterOneWay(c, p) ==
  CASE real_nbprocs = 0 -> /\ next' = [next EXCEPT ![p] = p]
                           /\ prev' = [prev EXCEPT ![p] = p]
    [] real_nbprocs = 1 -> /\ next' = [next EXCEPT ![c] = p, ![p] = c]
                           /\ prev' = [prev EXCEPT ![c] = p, ![p] = c]
    [] OTHER            -> /\ prev' = [prev EXCEPT ![p] = c]
                           /\ next' = [next EXCEPT ![p] = next[c], ![c] = p]

\* The `switch (real_nbprocs)' of add_process: p goes in right after c.
LinkAfter(c, p) ==
  CASE real_nbprocs = 0 -> /\ next' = [next EXCEPT ![p] = p]
                           /\ prev' = [prev EXCEPT ![p] = p]
    [] real_nbprocs = 1 -> /\ next' = [next EXCEPT ![c] = p, ![p] = c]
                           /\ prev' = [prev EXCEPT ![c] = p, ![p] = c]
    [] OTHER            -> /\ prev' = [prev EXCEPT ![next[c]] = p, ![p] = c]
                           /\ next' = [next EXCEPT ![p] = next[c], ![c] = p]

(***************************************************************************)
(* add_process with a block p from kmalloc and a slot to spare.  The code  *)
(* resets wait_time of the CALLER; that of the new process stays what the  *)
(* heap held, here any wait_time w.                                        *)
(***************************************************************************)
AddProcess(p, w) ==
  LET c == current_process
      i == LowestFreeSlot
      owner == IF real_nbprocs = 0 THEN {p} ELSE {c}
  IN  /\ alloc[p] = "free"
      /\ FreeSlots # {}
      /\ alloc' = [alloc EXCEPT ![p] = "linked"]
      /\ status' = [status EXCEPT ![p] = "WAIT"]
      /\ run_count' = [run_count EXCEPT ![p] = IF real_nbprocs = 0 THEN 1 ELSE 0]
      /\ stack_idx' = [stack_idx EXCEPT ![p] = i]
      /\ sp' = [sp EXCEPT ![p] = FreshContext(i)]
      /\ wait_time' = [a \in Addr |-> IF a = c THEN 0 ELSE
                                      IF a = p THEN w ELSE wait_time[a]]
      /\ stacks' = stacks \cup {i}
      /\ LinkAfter(c, p)
      /\ current_process' = IF real_nbprocs = 0 THEN p ELSE c
      /\ real_nbprocs' = real_nbprocs + 1

\* Variant of RemoveProcess: the stack slot is not given back.
RemoveProcessKeepSlot(p, st) ==
  /\ alloc' = [alloc EXCEPT ![p] = "free"]
  /\ next' = [next EXCEPT ![prev[p]] = next[p]]
  /\ prev' = [prev EXCEPT ![next[p]] = prev[p]]
  /\ real_nbprocs' = real_nbprocs - 1
  /\ status' = IF real_nbprocs = 2 THEN [st EXCEPT ![current_process] = "WAIT"]
                                   ELSE st
  /\ UNCHANGED <<run_count, stack_idx, sp, wait_time, current_process, stacks>>

(***************************************************************************)
(* remove_process of a block p that the search finds, applied to the       *)
(* statuses st the caller has already written.  current_process is not     *)
(* moved, and its status is forced to WAIT when one process is left.       *)
(***************************************************************************)
RemoveProcess(p, st) ==
  /\ alloc' = [alloc EXCEPT ![p] = "free"]
  /\ stacks' = stacks \ {stack_idx[p]}
  /\ next' = [next EXCEPT ![prev[p]] = next[p]]
  /\ prev' = [prev EXCEPT ![next[p]] = prev[p]]
  /\ real_nbprocs' = real_nbprocs - 1
  /\ status' = IF real_nbprocs = 2 THEN [st EXCEPT ![current_process] = "WAIT"]
                                   ELSE st
  /\ UNCHANGED <<run_count, stack_idx, sp, wait_time, current_process>>

(***************************************************************************)
(*                             Properties                                  *)
(***************************************************************************)

\* Every field keeps its type.
TableTypeOK ==
  /\ alloc \in [Addr -> Alloc]
  /\ status \in [Addr -> Status]
  /\ run_count \in [Addr -> 0 .. 2]
  /\ stack_idx \in [Addr -> Slot]
  /\ sp \in [Addr -> Context]
  /\ wait_time \in [Addr -> Wait]
  /\ next \in [Addr -> Addr]
  /\ prev \in [Addr -> Addr]
  /\ current_process \in Addr \cup {NULL}
  /\ real_nbprocs \in Int
  /\ stacks \in SUBSET Slot

\* next and prev stay inside the linked blocks and undo each other.
Linked == \A a \in Ring : /\ next[a] \in Ring /\ prev[next[a]] = a
                          /\ prev[a] \in Ring /\ next[prev[a]] = a

\* The linked blocks are one cycle, not several: a set of them closed under
\* next is all of them.
OneCycle == \A S \in SUBSET Ring :
              (S # {} /\ \A a \in S : next[a] \in S) => S = Ring

\* process.c 67-88, 115-131: whatever is added and removed, from whichever
\* process, the ring stays a single doubly linked cycle of exactly
\* real_nbprocs blocks, so that every search and every scan sees all of them.
RingOK == Linked /\ OneCycle /\ real_nbprocs = Cardinality(Ring)

\* process.c 37-62, 120: two live processes never share a stack slot, and a
\* slot is marked used exactly while a live process has it.
StackOK == /\ \A a, b \in Ring : stack_idx[a] = stack_idx[b] => a = b
           /\ stacks = {stack_idx[a] : a \in Ring}
=============================================================================
