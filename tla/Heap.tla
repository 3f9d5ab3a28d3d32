-------------------------------- MODULE Heap --------------------------------
(***************************************************************************)
(* The kernel heap of src/src/mem.c: a circular list of free blocks in     *)
(* address order, searched from a roving pointer.  Addresses and lengths   *)
(* count units of sizeof(u_header); unit 0 is the static header heap_list, *)
(* units from 1 on are the memory from _end up.  Memory is what the two    *)
(* fields of the header at each unit hold.                                 *)
(*                                                                         *)
(* One call runs at a time; every turn of the loops of kmalloc and kfree   *)
(* is a step.                                                              *)
(***************************************************************************)
EXTENDS Integers, FiniteSets

CONSTANTS
  HeapMax,   \* the last unit below the stack, where brk refuses
  NBALLOC,   \* the least sbrk asks for
  Sizes,     \* the real_sz values of the requests, header included
  Calls      \* the operations the kernel uses: kmalloc, kfree, krealloc

ASSUME HeapAssumption ==
  /\ HeapMax \in Nat \ {0} /\ NBALLOC \in Nat \ {0}
  /\ Sizes \subseteq 2 .. HeapMax
  /\ Calls \subseteq {"kmalloc", "kfree", "krealloc"}

VARIABLES
  next, len,    \* the header fields at each unit
  heap_start,   \* the roving pointer
  heap_end,     \* the break
  live,         \* what the callers own: [at |-> header, n |-> units]
  op,           \* the call in progress: where it is and its locals
  absorbed      \* history: has kfree merged away the block heap_start is at?

vars == <<next, len, heap_start, heap_end, live, op, absorbed>>

NULL == -1
heap_list == 0
Unit == 0 .. HeapMax
Pointer == Unit \cup {NULL}

\* pc "grow" is the kfree by which kmalloc hands itself a new page; old is
\* the block a krealloc moves out of.
Op == [pc : {"idle", "search", "grow", "free"}, cur : Pointer, prev_block : Pointer,
       n : 0 .. HeapMax, block : Pointer, old : Pointer]
Idle == [pc |-> "idle", cur |-> NULL, prev_block |-> NULL, n |-> 0,
         block |-> NULL, old |-> NULL]

\* Headers the kernel never wrote hold zeroes, as the memory of QEMU does.
Init == /\ next = [u \in Unit |-> heap_list]
        /\ len = [u \in Unit |-> 0]
        /\ heap_start = NULL
        /\ heap_end = 1
        /\ live = {}
        /\ op = Idle
        /\ absorbed = FALSE

-----------------------------------------------------------------------------
\* kmalloc and krealloc up to their search: it starts behind heap_start.
Request(n, old) ==
  LET start == IF heap_start = NULL THEN heap_list ELSE heap_start IN
  /\ op.pc = "idle"
  /\ heap_start' = start
  /\ op' = [Idle EXCEPT !.pc = "search", !.n = n, !.old = old,
                        !.prev_block = start, !.cur = next[start]]
  /\ UNCHANGED <<next, len, heap_end, live, absorbed>>

Kmalloc(n) == "kmalloc" \in Calls /\ Request(n, NULL)
Krealloc(b, n) == "krealloc" \in Calls /\ Request(n, b.at)

\* The start of a kfree of block, with the locals of the call that makes it.
FreeFrom(start, block, o) == [o EXCEPT !.block = block, !.cur = start]

\* The block goes to the caller; a krealloc now frees the one it copied.
Deliver(at) ==
  /\ IF op.old = NULL
     THEN /\ op' = Idle
          /\ live' = live \cup {[at |-> at, n |-> op.n]}
     ELSE /\ op' = FreeFrom(op.prev_block, op.old, [Idle EXCEPT !.pc = "free"])
          /\ live' = {b \in live : b.at # op.old} \cup {[at |-> at, n |-> op.n]}
  /\ UNCHANGED <<heap_end, absorbed>>

\* A block of the very length asked for leaves the list.
TakeWhole ==
  /\ op.pc = "search" /\ len[op.cur] = op.n
  /\ next' = [next EXCEPT ![op.prev_block] = next[op.cur]]
  /\ heap_start' = op.prev_block
  /\ UNCHANGED len
  /\ Deliver(op.cur)

\* Variant of TakeTail: the tail gets no length of its own.
TakeTailUnsized ==
  LET rest == len[op.cur] - op.n IN
  /\ op.pc = "search" /\ len[op.cur] > op.n
  /\ len' = [len EXCEPT ![op.cur] = rest]
  /\ heap_start' = op.prev_block
  /\ UNCHANGED next
  /\ Deliver(op.cur + rest)

\* A longer one gives its tail.
TakeTail ==
  LET rest == len[op.cur] - op.n IN
  /\ op.pc = "search" /\ len[op.cur] > op.n
  /\ len' = [len EXCEPT ![op.cur] = rest, ![op.cur + rest] = op.n]
  /\ heap_start' = op.prev_block
  /\ UNCHANGED next
  /\ Deliver(op.cur + rest)

SearchOn ==
  /\ op.pc = "search" /\ len[op.cur] < op.n /\ op.cur # heap_start
  /\ op' = [op EXCEPT !.prev_block = op.cur, !.cur = next[op.cur]]
  /\ UNCHANGED <<next, len, heap_start, heap_end, live, absorbed>>

\* Variant of Sbrk: brk checks the old break and not the new one.
SbrkChecksOldBreak ==
  LET alloc_sz == IF op.n < NBALLOC THEN NBALLOC ELSE op.n IN
  /\ op.pc = "search" /\ len[op.cur] < op.n /\ op.cur = heap_start
  /\ IF heap_end > HeapMax
     THEN op' = Idle /\ UNCHANGED <<len, heap_end>>
     ELSE /\ len' = [len EXCEPT ![heap_end] = alloc_sz]
          /\ heap_end' = heap_end + alloc_sz
          /\ op' = FreeFrom(heap_start, heap_end, [op EXCEPT !.pc = "grow"])
  /\ UNCHANGED <<next, heap_start, live, absorbed>>

\* Back at heap_start: a new page, given to kfree, or NULL when brk refuses.
Sbrk ==
  LET alloc_sz == IF op.n < NBALLOC THEN NBALLOC ELSE op.n IN
  /\ op.pc = "search" /\ len[op.cur] < op.n /\ op.cur = heap_start
  /\ IF heap_end + alloc_sz > HeapMax
     THEN op' = Idle /\ UNCHANGED <<len, heap_end>>
     ELSE /\ len' = [len EXCEPT ![heap_end] = alloc_sz]
          /\ heap_end' = heap_end + alloc_sz
          /\ op' = FreeFrom(heap_start, heap_end, [op EXCEPT !.pc = "grow"])
  /\ UNCHANGED <<next, heap_start, live, absorbed>>

-----------------------------------------------------------------------------
\* kfree of a block the caller owns.
Kfree(b) ==
  /\ "kfree" \in Calls
  /\ op.pc = "idle"
  /\ live' = live \ {b}
  /\ UNCHANGED <<next, len, heap_start, heap_end, absorbed>>
  /\ op' = FreeFrom(heap_start, b.at, [Idle EXCEPT !.pc = "free"])

\* Variant of AtEnd: a list of one block has no end.
AtEndStrict == /\ op.cur > next[op.cur]
               /\ op.block > op.cur \/ op.block < next[op.cur]

\* The place is found: between two blocks, or at the ends of the list.
Between == op.cur < op.block /\ op.block < next[op.cur]
AtEnd == /\ op.cur >= next[op.cur]
         /\ op.block > op.cur \/ op.block < next[op.cur]

FreeOn ==
  /\ op.pc \in {"free", "grow"}
  /\ ~Between /\ ~AtEnd
  /\ op' = [op EXCEPT !.cur = next[op.cur]]
  /\ UNCHANGED <<next, len, heap_start, heap_end, live, absorbed>>

\* The block is linked behind cur, merged with its upper and lower neighbour.
\* heap_start is not moved, even when its block was the upper neighbour.
FreeLink ==
  LET b == op.block
      c == op.cur
      up == next[c]
      mergeUp == b + len[b] = up
      blen == IF mergeUp THEN len[b] + len[up] ELSE len[b]
      bnext == IF mergeUp THEN next[up] ELSE up
      mergeDown == c + len[c] = b
  IN  /\ op.pc \in {"free", "grow"}
      /\ Between \/ AtEnd
      /\ len' = [len EXCEPT ![b] = blen, ![c] = IF mergeDown THEN @ + blen ELSE @]
      /\ next' = [next EXCEPT ![b] = bnext, ![c] = IF mergeDown THEN bnext ELSE b]
      /\ absorbed' = (absorbed \/ (mergeUp /\ up = heap_start))
      /\ op' = IF op.pc = "free" THEN Idle
               ELSE [op EXCEPT !.pc = "search", !.block = NULL,
                               !.prev_block = heap_start, !.cur = next'[heap_start]]
      /\ UNCHANGED <<heap_start, heap_end, live>>

Search == TakeWhole \/ TakeTail \/ SearchOn \/ Sbrk
Release == FreeOn \/ FreeLink

Next == \/ \E n \in Sizes : Kmalloc(n)
        \/ \E b \in live, n \in Sizes : Krealloc(b, n)
        \/ \E b \in live : Kfree(b)
        \/ Search
        \/ Release

Spec == Init /\ [][Next]_vars
FairSpec == Spec /\ WF_vars(Search) /\ WF_vars(Release)

(***************************************************************************)
(*                             Properties                                  *)
(***************************************************************************)

\* The free list as it is walked from heap_list.
FreeList ==
  LET walk[i \in Unit] == IF i = 0 THEN heap_list ELSE next[walk[i - 1]]
  IN  {walk[i] : i \in Unit}

Span(at, n) == at .. (at + n - 1)
Owned(b) == Span(b.at, b.n)
Free == UNION {Span(f, len[f]) : f \in FreeList}

\* Headers, break and locals stay inside the heap.
TypeOK == /\ next \in [Unit -> Unit]
          /\ len \in [Unit -> 0 .. HeapMax]
          /\ heap_start \in Pointer
          /\ heap_end \in 1 .. HeapMax
          /\ live \subseteq [at : Unit, n : Sizes]
          /\ op \in Op
          /\ absorbed \in BOOLEAN

\* mem.c 60-103: memory is never given to two callers, nor left in the free
\* list while a caller has it.
NoOverlap == /\ \A b, c \in live : b # c => Owned(b) \cap Owned(c) = {}
             /\ \A b \in live : Owned(b) \cap Free = {}

\* mem.c 38-57: between calls every unit below the break is owned or free:
\* nothing is lost, and no two free neighbours are left unmerged.
Conserved ==
  op.pc = "idle" =>
    /\ 1 .. (heap_end - 1) = Free \cup UNION {Owned(b) : b \in live}
    /\ \A f \in FreeList : f + len[f] \notin FreeList \ {heap_list, f}

\* mem.c 36, 63: the roving pointer is a block of the list, so that a search
\* that starts from it sees every block and knows when it is round.
RovingListed == heap_start # NULL => heap_start \in FreeList

\* Until kfree merges the roving pointer's block into the one below it, the
\* heap is right: that merge is the only way it goes wrong.
OnlyByMerge == ~absorbed => NoOverlap /\ Conserved /\ RovingListed

\* Every call returns.
CallEnds == op.pc # "idle" ~> op.pc = "idle"
CallEndsUnlessMerged == op.pc # "idle" ~> (op.pc = "idle" \/ absorbed)
=============================================================================
