------------------------------- MODULE MCHeap -------------------------------
\* Model-checking instances of Heap.
EXTENDS Heap

\* The states before heap_start goes stale; what comes after is the subject
\* of the run that has no such constraint.
NotAbsorbed == ~absorbed

\* Until then only the headers of listed and owned blocks are read.
MCView ==
  LET Listed == FreeList \cup {op.cur, op.prev_block}
      Headed == Listed \cup {b.at : b \in live} \cup {op.block, op.old}
  IN  <<[u \in Unit |-> IF u \in Listed THEN next[u] ELSE 0],
        [u \in Unit |-> IF u \in Headed THEN len[u] ELSE 0],
        heap_start, heap_end, live, op, absorbed>>
=============================================================================
