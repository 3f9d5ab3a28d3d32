# RasPiK in TLA+

TLA+ modules for the RasPiK kernel, the TLC configurations that check them on
small instances, and TLAPS proofs of the theorems that hold for every size.
Paths are relative to the repository (`src/` is its kernel source directory).

## The system

RasPiK runs on one CPU. Processes share one address space; a system call is an
`swi` that runs in SVC mode with IRQs masked, and the ARM timer's IRQ calls
`schedule()`. So everything is sequential except at the points where IRQs are
unmasked: in a process's own code, and inside a system call after the
`ENABLE_INTERRUPTS` of `add_process` and `remove_process`.

| component | state | operations | interacts through |
|---|---|---|---|
| process table (`process.c`) | `s_proc` blocks, ring `next`/`prev`, `current_process`, `real_nbprocs`, `stacks[]` | `add_process`, `remove_process` | kmalloc/kfree; walked by scheduler and calls |
| scheduler (`scheduler.c`) | status, `run_count`, `sp`, `wait_time` of each process | `schedule`, `switch_context`, `init_scheduler` | called from `handle_irq`; calls `remove_process` |
| process calls (`process.c`, `elf.c`) | the same fields | clone, spawn, exec, exit, kill, getpid, waitpid | run in SVC mode on the shared SVC stack |
| exception entry (`asm/interrupts.s`) | saved frames, CPU mode, IRQ mask, SVC stack | `irq_handler`, `swi_handler`, `context_exit` | saves on the process's stack (IRQ) or on the SVC stack (swi) |
| heap (`mem.c`) | circular free list, roving `heap_start`, break | kmalloc, kfree, krealloc, brk | everybody |
| VFS (`fs/vfs.c`) | mount table, descriptors in each `s_proc` | mount, unmount, open, close, read, write, seek, stat, remove, readdir, ioctl, insmod, chmod | dispatches on the type of file system |
| vffs, devfs | lists of files, of devices with drivers | create, look up, remove, destroy | kmalloc/kfree |
| files of vffs (`fs/vffs.c`) | size, contents up to an EOF mark, permissions; each descriptor's mode and offset | read, write, seek, stat, chmod, truncation by open | krealloc; descriptors of several processes on one file |
| FAT32, MBR (`fs/fat32.c`, `mbr.c`) | layout of the card, nodes of opened files | mount, look up, list, read | reads `/dev/sdcard` through open/seek/read, once for each access |
| SD card (`emmc.c`, `driver/sdcard.c`) | `bd`, the card's RCA and kind, last error, retry count | initialise, read, write, ioctl | commands to a card that may go away or not answer; power and clock over the mailbox |
| mailbox (`mailbox.c`) | the two hardware queues, one property buffer, a timeout | write, read | the GPU; framebuffer request of `graphics.c`, power and clock requests of `emmc.c` |
| console (`klog.c`, `graphics.c`) | cursor, cells of the screen | `klog`, write | init prints with IRQs unmasked, processes through write(2) |
| UART, ATAGs, utilities | - | polling output, printing, string functions | - |
| start-up (`boot.s`, `main.c`) | the initial state | initialisation in order | - |

What is hard here, and what each component must get right:

- *process table*: additions and removals from any process; exit frees the block
  it is running on. The ring must stay one cycle of all live processes, stack
  slots must not be shared.
- *scheduler*: preemption at every unmasked instruction, including inside a
  call; reaping during a scan. Each process must come back to its own context,
  each ready one must run, each dead one must be reaped.
- *exception entry*: calls preempted half way. A frame must be popped by the
  process that pushed it.
- *heap*: a long sequence of calls. No memory may be given out twice or lost.
- *VFS*: removal while something is still open or listed elsewhere. Tables must
  stay dense, each block owned once, each mounted directory reachable.
- *files*: two descriptors whose offsets and idea of the end disagree, offsets
  near 2^32. Writes must stay in the buffer, and what was written must be read.
- *FAT32*: chains that are short, long or loops, accesses that fail half way. A
  name must lead to its file, and a read must give the bytes of that file.
- *SD card*: a card that is pulled, replaced, silent or slow between any two
  commands. A request that succeeds must have moved all its blocks to or from
  one card, and the driver must get over any trouble.
- *mailbox*: late answers and messages for others. An answer must not be taken
  for that of another request, and a wait must end.
- *console*: a cursor that is tested and moved in several steps by init and in
  one by processes. Nothing may be drawn off the screen.

`PROJECT.json` lists every component and, at its line, every hazard.

## Modules

| module | models |
|---|---|
| `ProcessTable` | the table's state and `add_process`/`remove_process` as operators; `RingOK`, `StackOK` |
| `Scheduler` | extends it with the CPU: the timer, `schedule()` and the calls as actions |
| `SvcStack` | extends it with the SVC stack that `swi_handler` pushes on and pops |
| `Heap` | `mem.c`, one step per turn of each loop |
| `FileTree` | abstract: directories in mount order with entries in creation order |
| `Vfs` | mount table, vffs/devfs lists, descriptors, owned blocks; implements `FileTree` |
| `Files` | contents and offsets of one vffs file behind several descriptors |
| `Fat32` | mount, lookup, listing and both read paths of FAT32 on a card that may fail |
| `BlockDevice` | abstract: a call that moves blocks one by one, may start over, may fail |
| `Emmc` | the SD card driver against card and controller; implements `BlockDevice` |
| `Mailbox` | the mailbox, the GPU on its other end, the framebuffer, power and clock requests |
| `Console` | extends it with the cursor and the screen, shared by init and processes |
| `MCScheduler`, `MCSvcStack`, `MCHeap`, `MCVfs`, `MCFiles`, `MCFat32`, `MCEmmc` | instances for TLC: views, symmetry, constraint and refinement mapping for TLC |
| `Scheduler_proofs` (with `ProcessTable`), `SvcStack_proofs`, `Heap_proofs`, `Emmc_proofs`, `Fat32_proofs`, `Files_proofs`, `Console_proofs` (with `Mailbox`), `Vfs_proofs` | the theorems and their proofs |

Correspondence:

- A process is the address of its `s_proc`. `cpu` is the context the CPU runs:
  the stack slot it is on (`stk`), the point of the code (`at`), whether that
  code has IRQs masked, and the block it still has to free. `sp[a]` is the
  context that a's saved stack pointer leads back to. Points: `user` is a
  process's own code; `sysret`, `exitret`, `sysfree` are the tails of system
  calls after IRQs came back; `waitspin` is waitpid's loop; `check`, `advance`,
  `switch` are the three places in `schedule()`; `exited` is the endless loop
  of the SDK's `_start`; `halted` is `remove_process(1)`.
- `spsr` is SPSR_svc, which a swi sets from its caller and the end of
  `swi_handler` restores (`ldmfd ... ^`). Nothing saves it over a context switch,
  so after a swi of a program that exec left in SVC mode, a process that was
  preempted in a call of its own returns in SVC mode, masked. It is `lost` then,
  for it goes on with the wrong stack; so is a program in SVC mode that makes a
  call, because the swi overwrites its link register. What a lost process does
  is not followed further; the timer may still preempt it.
- `SvcStack` counts the frames of `swi_handler` whole. The C frames of the
  handlers between them, whose depth differs by call, are left out, and a
  process that pops the frame of another goes on at its own point all the same:
  the run `svc_frames` stops at such a pop, and `SvcEnough` only counts.
- A system call up to its `ENABLE_INTERRUPTS` is one action, since nothing can
  interrupt it. `schedule()` is several, because a reap in it unmasks IRQs.
- The block of a new process holds whatever the heap held: its `wait_time` is
  any value.
- In `Heap`, addresses count units of one header. Every header field at every
  unit is kept, so a stale header has the effect it has in the code.
- In `Vfs` a file and its data, a device and its driver, are one block. A freed
  block keeps its contents, and a slot behind a count keeps its pointer. Callers
  may unmount in any order and remove what is open. `path` is a history variable:
  the path a descriptor was opened with, until it is closed or that path is itself
  removed or unmounted. `spoilt` is another: a behaviour ends with one of the two
  calls that leave the tables wrong (below).
- `Files` is the other side of `Vfs`: there a file is a block with owners, here
  it stays where it is and its bytes count. `data` is the buffer as allocated,
  `Junk` what kmalloc left in it. A read ends at the first `EOF` byte (0xFF) at or
  after its offset, whoever wrote it.
- In `Fat32` each access to `/dev/sdcard`, which opens the device, seeks, reads
  and closes it again, is one action that may fail. A byte of the data area is
  its place (cluster, sector, offset in the sector); a byte of a buffer nothing
  was read into is `Unfilled`. Names are compared character by character, with the
  blanks of an extension that is shorter than three. The cards are a constant:
  `MCFat32` enumerates directories, chains and loops.
- In `Emmc` one action is one command with its answer, one block, or one wait;
  `at` is the command whose turn it is. What the card does follows the states of
  the SD specification as far as `emmc.c` relies on them; every fault (no answer,
  error, removal, replacement) takes one of `MaxFaults`. A fault may also leave a
  command or data line inhibited for good: the call then stays where it waits for
  the line (`stuck`). A card may answer ACMD41 any number of times that it is busy.
  `quiet` counts the requests begun since the last fault.
- `Mailbox` has the CPU at one of four places (`write`, `read`, `fill`, `up`) and
  the GPU as actions of its own. The words of the property buffer behind its code
  are written as one: what matters is that the code is set first, so that the GPU
  may serve, late, what was in the buffer before.
- In `Console` a process's character is one step and init's is one step for each
  access of `console.x` or `console.y` (the build does not optimise). Cells of the
  screen are followed until a process has printed inside a character of init, and
  behaviours end at the first pixel outside the framebuffer.

Operators named "Variant of ..." are small mistakes in the operator after them.
They are not used by any specification; each one breaks the property that
`PROJECT.json` pairs it with, which shows that the property depends on the code.

## Runs

| run | bounds | checks |
|---|---|---|
| `table` | 4 blocks, 3 slots, reap limit 2, `wait_time` mod 3 | ring, slots, blocks and current process; all calls, with exec |
| `calls` | 3 blocks, 2 slots, mod 4, kill to WAIT, TERM and SLEEP, 4 SVC frames | types, contexts, run counts, RUN, SVC frames; all calls with exec |
| `fair` | 3 blocks, 2 slots, mod 3, with fairness | `ReadyRuns`, `TermReaped` |
| `heap` | 10 units, 4 per page, requests of 2 and 3 | heap right and calls ending until the merge below |
| `emmc` | 2 blocks of 2 values, 2 retries, 2 faults, with fairness | `BlockDevice`; recovery at the second request, who loses the device, calls ending |
| `fat32` | 1002 cards, sectors of 4 bytes, clusters of 2 sectors, 2 entries a cluster, 1 failing access, with fairness | lookup, listing, bytes read, calls ending |
| `files` | 2 descriptors, 5 bytes of memory, offsets modulo 8, writes of up to 2 bytes | buffer bounds, the mark, contents |
| `console` | 2 queue entries each way, 2 polls, 6 requests, 1 stray; 5 columns, 2 rows; with fairness | power cycle, waits, cursor and screen |
| `vfs` | 6 blocks, 3 mounts of 2 names, 3 nodes a list, 2 descriptors | owners, descriptors, and `FileTree` |

Violations, each of a statement of the repository quoted in `PROJECT.json`:

- `nested`: a reap in `schedule()` unmasks IRQs inside the IRQ handler
  (`process.c:127`); the second tick saves `schedule()`'s own context over the
  process's. The timer makes this likely: it is loaded with 1 and divides by
  256, and scans that only age a process take long.
- `svc_frames`: two processes preempted inside a call pop each other's frame.
- `heap_overlap`: `kfree` merges the block that `heap_start` points to into the
  one below it and does not move `heap_start`; some calls later a block is both
  allocated and free.

### Behaviour of the code that the models follow

No run states these as violations; the properties are stated so that they hold
with them, and say where they stop.

- `waitpid` spins with IRQs masked, so it never returns for a live process, and
  the program that `exec` starts runs with IRQs masked. `fair` leaves both out.
- kill and exit can stop the machine: `remove_process(1)` halts it, and a scan
  loops while nobody is in WAIT. `ReadyRuns` lets the system halt.
- *VFS*: an unmount leaves a copy of the last mount point behind the count; the
  next mount then goes past it, behind the count, where no lookup finds it
  (`vfs.c` 364). An unmount of a devfs frees the pointer that `remove_device` left
  behind its count (`devfs.c` 136). Behaviours of `Vfs` end with either call
  (`spoilt`), and its properties hold up to it. remove and unmount free nodes that
  descriptors still lead to: `FdsFollowPaths` says that only the descriptors of the
  very path that goes lose their node. An open with O_CREAT that finds no free
  descriptor fails and leaves the file: `FileTree` allows it.
- *files*: open truncates unless O_APPEND is given, in O_RDONLY too. SEEK_END of an
  empty file gives 2^32 - 1, and `offset + len + 1` wraps: `InBuffer` says how far
  writes stay in the buffer. A byte 0xFF ends the file for readers.
- *FAT32*: a name matches any listed file whose stem it begins with and whose
  extension, with its blanks, is its last three characters. So MAIN.C is found only
  as `MAIN.C  `, the name that readdir lists, although `fat32.h` 5 says that names
  have no spaces, and a longer name may find a file with a shorter one
  (`LookupRight` says which). Reads at an
  offset, or along a chain that is too short, return bytes nothing was read into
  (`NoWrongByte` allows them, and no others); a read whose last sector lies right
  behind a multiple of BLK_SIZE sectors loses it (`OddSector`); a directory whose
  chain is a loop is walked for ever (`CallEnds`); a mount whose BPB cannot be
  read succeeds with a freed block; a mount that fails in the MBR keeps its
  descriptor; a read writes a 0 behind the caller's buffer.
- *SD card*: a failed voltage switch starts `emmc_card_init` again with a pointer
  to its own local, so that `bd` stays NULL at boot (second half of `DeviceKept`); it is tried
  again each time, because the restart clears what remembers the failure. A
  re-initialisation that fails after CMD3 frees the device that `bd` points to
  (the first half says that it takes a fault in that request). Four waits have no
  bound: for the inhibit bits (`emmc.c` 385, 490, 504) and for ACMD41 (962), where
  a high capacity card whose CMD8 went unanswered stays busy for ever. `CallReturns`
  names them as where a call may stay. A voltage switch that fails every time
  restarts `card_init` every time; `MaxFaults` bounds its failures.
- *mailbox*: `bcm_2708_power_cycle` goes on after a power_off that returned 1, and
  then the card may never have been without power (`PowerCycled`).
  `init_framebuffer` waits for ever, `write_mailbox` too while the mailbox is full.
- *console*: a process's new line between init's test of the row and its increment
  takes the row past the last one, where the test never holds again, and from
  then on all output is written behind the framebuffer (`OnlyByRace`). `k_start`
  prints whether or not there is a framebuffer.

### Why the bounds are enough

Three slots and four blocks give `add_process` its three cases (first, second,
later), a removal next to and away from the current process, a refused clone
with its block outstanding, and reuse of every freed block. The reap limit of 2
keeps both ways of being due (0, limit) and one value that ages; the modulus
lets an uninitialised value wrap. Ten heap units are two pages and a refused
third: splits, exact fits, both merges and both ends of the list occur. Six
blocks are the two file systems of `init_vfs` and four nodes, or a third file system
and three nodes. The mount table, both kinds of lists and the descriptors are
filled to their limits, and a list of three has an entry before, at and after the one
that goes. Three mounts of two names put the same name in the table twice, so that an
unmount uncovers the second; two descriptors may lead to one node, to nodes of
different directories, or one past a removal of the other's.

*files*: five bytes of memory and offsets modulo 8 let an offset lie behind the
end, behind the buffer, and where the sum with the length wraps; `MaxLen + Memory <
W`, as in the code, keeps other sums from wrapping. *fat32*: directories of up to
five entries over three clusters are more than `MaxClusters` lets readdir hold
(2 here, 8 in the code); the files are two of which one's name begins the other's
and one with a short extension, looked up by their listed names, by one without its
blanks and by one of two characters; chains are straight, short and loops; sectors of 4 bytes bring a length of 20 past the
sector where `OddSector` bites and past one cluster. *emmc*: two blocks are a
transfer that may stop between them; two retries, of the code's three,
are a first and a last one; two faults let the last one fail, or one hit the recovery
from the other. *console*: six requests are two power cycles with the
clock between, or six that time out, answered late; a queue of two holds a late answer and
the right one; five columns let a tab fit once, two rows scroll. Each mutant is
found within these bounds.

`KillStatus` is `{TERM}` where liveness is checked: kill may set SLEEP or
ZOMBIE, from which nothing wakes a process, and a scan that finds no WAIT never
ends. Those statuses are in `calls`. exec and waitpid are left out of `fair`:
both stop everyone else, see above.

Views: `MCScheduler!MCView` hides the fields of blocks that are neither linked
nor current (add_process writes them before they are read, except `wait_time`,
which is any value again) and the saved context of the running process, which
the next tick overwrites. `MCHeap` hides headers that are neither listed nor
owned nor in use by the call in progress; it is kept for safety runs at
larger bounds and unused in the configurations with liveness. `MCVfs` shows
for a block whether it is owned and the first place in the tables that leads to it:
block numbers mean no more than that, and a freed block's contents are written
before they are read. Symmetry is used only where no liveness is checked, and only
on blocks other than init's.

### Assumptions on callers

- `NestedTicks = FALSE`: no tick between the reap of a scan and the end of
  `schedule()`. The `nested` run drops it.
- `ExitSpins = TRUE`: the program loops after `exit`, as `_start` of the SDK
  does (`user/sdk/raspik.s` 1-5). A program that returned would run on a freed
  `s_proc`.
- `NotAbsorbed` (run `heap`): the search stops at the merge that breaks the
  heap. `OnlyByMerge` says that until then it is right.
- A FAT32 card is unmounted, and a directory walked, only by a program that has no
  file of it open (`Unmount` and `StartWalk` of `Fat32`); the code does not check it.
  `Fat32` has one file open at a time.
- `Vfs` assumes nothing of its callers; its behaviours end at the two calls named
  above.

### Fairness

The CPU executes code already begun: weak fairness on the start-up step,
`schedule()`, and the tails of calls. `Tick` has strong fairness: the timer's
request stays pending in the controller until `handle_irq` clears it, so it is
taken when IRQs are unmasked again and again, however briefly. No process is
assumed to make a call. `ReadyRuns` and `TermReaped` are stated for behaviours
that stop creating processes: each clone puts a new process right behind the
current one, so an endless chain of children keeps the scan from getting round.
In `Heap`, `Emmc`, `Fat32` and `Mailbox`, weak fairness of the CPU in the call in
progress: it runs with IRQs masked, so nothing keeps the CPU from it. Neither card
nor GPU is assumed to answer. Most waits of the code have timeouts. Those without are
in `init_framebuffer` and `write_mailbox`, which have no liveness property, and in
`emmc.c` at 385, 490, 504 and 962, where `CallReturns` lets a call stay.

## Proofs

The theorems hold for every value of the constants that the named assumptions
allow: any number of blocks, slots and descriptors, any page and request size, any
size of card, screen, queue or table. An invariant of a run is seldom inductive, so
each module has an invariant of its own that is, which TLC checked on the instance
of the run before it was proved.

| module | theorems | hypotheses besides the module's assumptions |
|---|---|---|
| `Scheduler_proofs` | `TypeOK` | none |
| | `RingOK`, `CurrentAlive`, `BlockOwned`, `StackOK`, `OwnContext`, `FrameKnown` | `~NestedTicks`, `ExitSpins` |
| | `OneRunner` | the same, and kill never sets RUN |
| `SvcStack_proofs` | `SvcEnough` | `~NestedTicks`, `ExitSpins` |
| `Heap_proofs` | `OnlyByMerge`; `TypeOK` until the merge | none |
| `Emmc_proofs` | `TypeOK`, `DeviceKept`, `SecondTrySucceeds`, `ImplementsBlockDevice` | none |
| `Fat32_proofs` | `TypeOK`, `NoWrongByte`, `StartComplete`, `ListRight`, `LookupRight` | none |
| `Files_proofs` | `TypeOK`, `InBuffer`, `NoJunkFromStart`, `ContentsByWrite` | none |
| `Console_proofs` | `PowerCycled`, `TypeOK`, `OnLine`, `OnlyByRace`, `NoOverdraw` | none |
| `Vfs_proofs` | `TypeOK`, `OwnedOnce`, `FdsFollowPaths`, `ImplementsTree` | none |

The hypotheses are those of the section on callers. `~NestedTicks` is needed
because a nested tick after an exit can reap the freed block twice, `ExitSpins`
because a program that goes on after its exit could clone onto a freed block; a
kill may set any status, RUN too, and then two processes have it.

*Scheduler.* `RingOK` alone is not inductive, because exit leaves `current_process`
outside the ring. `RingInv` adds where that can be (`Whereabouts`: only from the
exit to the scan's first steps, a lost process included, and then `next` leads back
into the ring, possibly over one block reaped on the way), that every parked process is at a point of a
live one (`ParkedLive`), and that a refused clone frees only its own block
(`BlockOwned`). The lemmas at the head of the module say what the two ring operations
do: `LinkAfterGeneral` folds the three cases of add_process into one,
`InsertKeepsRing` and `RemoveKeepsRing` give the new cycle and its cardinality. "One
cycle" is stated without reachability: a nonempty set closed under `next` is the
whole ring. `ContextInv` adds to it whose stack the CPU is on, what each parked
process's saved context is, and that code runs only in processes with a
`run_count`; `RunnerInv` that nobody is marked RUN while `schedule()` is between two
processes. `SvcInv` is `ContextInv` with the count of frames: a call's entry adds at
most its caller to those inside, and every step that ends a call pops one frame.

*Heap.* `HeapInv` says that there is a set of units that the list links in the order
of their addresses (`Linked`), whose blocks, with those of the callers and the one on
its way in, tile the memory below the break (`Tiled`), no two of them unmerged
neighbours (`Merged`), each in one place only (`Parted`), with the call's locals in the
list (`Local`). `FreeList` is defined by walking the list; that it is that set
(`FreeListIs`) is proved from a least block that the walk would miss. What an
allocation and the two merges of kfree do to list and memory are lemmas of their own.
The merge that takes the block under `heap_start` away ends the claim: `absorbed` is
set then, and stays.

*SD card.* `EmmcInv` has what holds whatever goes wrong (`Requests`: the request in
progress fits the card; `Device`: when the driver has its device; `Capacity`: the driver
addresses only a card whose kind it knows), and what holds while nothing does (`Quiet`:
what state the card is in when `card_init` or a request comes to a command, and,
from the second request on, that driver and card agree). The refinement of
`BlockDevice` goes step by step: a transfer's block is a move of the abstract device,
a retry its starting over, everything else a stutter. While the invariant was being
written, the abstract device turned out too strict for three faults: a write whose last
retry fails behind its last block has moved them all and yet fails. `BlockDevice`
now says so.

*FAT32.* `FatInv` is what the reads need: at the nth cluster of the file's chain and a
sector of it, the buffer is the file's beginning up to that place (`ShortRead`,
`LongAt`), the clusters still to be read and those behind are what the length asks for,
and a read from the start never wants more than the size (`Wanted`). `StartComplete`
then rests on the arithmetic of `nbsectors` (`NbSectorsIs`, `Enough`): the sectors the
code computes hold the length, except in the odd sector the property names. `WalkInv`
is what the walks need: nth in the chain of the directory, a listing that is not full is
what the clusters behind list, one by one (`ListAt`), a full one is a beginning of the
directory (`ListFull`), and a lookup has met no entry it would take (`LookAt`). A walk
may be around a loop any number of times while `Listing`, the reference, goes along the
chain for `Rounds` clusters. That this is enough is a pigeonhole argument (`Recurs`): a
listing that is not full takes one of so many pairs of cluster and length and repeats
when a pair does (`ListWithin`), a lookup one of so many clusters (`LookWithin`). What
the functions of chain, entries and listing compute is proved by least counterexample
(`ChainIs`, `ListedIs`, `ScannedIs`, `ListingAlong`).

*Files.* Memory that was never written lies behind a mark (`JunkBehindMark`): a write
over a mark leaves one at its own end, and a buffer grows only behind the mark of the
file. *Mailbox*: what an answer in the one buffer says of the card's power while its
request is being made (`Answered`), and that the framebuffer is asked for once.
*Console*: what each point of init's code knows of the cursor it has loaded
(`Column`, `Row`), and what is on the screen behind it (`Behind`, `Shown`).

*VFS.* `Base` is the types and the shape of the table: below the count there is a file
system in every slot. It holds to the end; the rest holds until a call spoils the
tables. `Ownership` adds that each block is in one slot of one list and that no file
system is listed as a node, which `OwnedOnce` does not say and an unmount needs. The
searches take the `Least` matching slot of a list; lemmas say which slot that is, and
`ShiftIs` and `Moved` what a table is after an entry has gone from the middle. For the
refinement of `FileTree`, `TreeLookup` and `TreeEntry` say that both look up the same
directory and the same entry, and `TreeChanged` that a step on one list changes the
entries of one directory: that is where `Ownership` is needed, since a list or a node
that were in two places would change both. `FdsFollowPaths` goes the same way: every
call but the one that removes or unmounts a descriptor's own path leaves the first
match of that path what it was, though its slot may have moved.

Some assumptions on constants were added for the proofs, each true of the code: there
is at least one file name and one value of a block; the heap has room for a
header (`heap_end` is behind `heap_list` from the start); a FAT32 card has finitely many
clusters, entries 0 and 1 of its table are not among them, and the stem of a name has a
length.

Only model-checked: liveness (`ReadyRuns`, `TermReaped`, `CallEndsUnlessMerged`,
`CallReturns`, `CallEnds`, `ReadEnds`), which is beyond the prover, and the three runs
that show a violation. Every other property of a run is proved.

## Plan

Built and proved: all modules above. What could be proved next are statements no run
makes yet: for liveness, the bounds that decrease with every step of a call
(turns of kfree's walk, retries of the driver, clusters of a chain without a loop) as
action properties; and an abstract file system that both `Fat32` and `Files` implement.

### Not modelled

- The brk system call of user programs, and kfree calls that overlap (see the
  hazards): `Heap` has one call at a time.
- Path parsing, readdir's names and ioctl of the VFS, which only dispatch; the
  loading of ELF segments, which is data; leaked path strings.
- Fatal exception handlers, which print and spin; UART registers; ATAGs, which are
  printed; fonts, colours and pixel order; `utils.c`; build and deployment scripts.
- Clock dividers, register layout and DMA of `emmc.c`. Writing to FAT32 does not
  exist in the code.
