---------------------------- MODULE MCScheduler ----------------------------
\* Model-checking instances of Scheduler.
EXTENDS Scheduler, TLC

\* pid 1 is told apart by the code; the other blocks are interchangeable.
MCSymmetry == Permutations(Addr \ {InitAddr})

\* States that differ only in fields nothing reads before they are written
\* again are one state: those of blocks that are neither linked nor current,
\* and the saved context of the process that is running.
MCView ==
  LET Live == Ring \cup {current_process}
      Of(f, S) == [a \in Addr |-> IF a \in S THEN <<f[a]>> ELSE <<>>]
  IN  <<alloc, current_process, real_nbprocs, stacks, cpu, irq, spsr,
        Of(status, Live), Of(next, Live), Of(stack_idx, Live),
        Of(prev, Ring), Of(run_count, Ring), Of(wait_time, Ring), Of(sp, Parked)>>
=============================================================================
