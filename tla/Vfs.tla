-------------------------------- MODULE Vfs --------------------------------
(***************************************************************************)
(* The mount table and the open files of src/src/fs/vfs.c over the in-     *)
(* memory file systems of vffs.c and devfs.c: who owns which block of the  *)
(* heap, and who still points to it.                                       *)
(*                                                                         *)
(* Every operation is a system call that runs with IRQs masked, so each is *)
(* one step.  A call that fails and changes nothing is not a step.  A file *)
(* and its data, a device and its driver, are one block each.  Contents,   *)
(* offsets and permissions are left out (a refused open changes nothing    *)
(* here), and so is FAT32.                                                 *)
(*                                                                         *)
(* Callers may unmount in any order and remove what is open.  Two calls    *)
(* the code accepts lead where these tables say nothing any more, and a    *)
(* behaviour ends with them (spoilt): a mount when the slot at the count   *)
(* holds the stale copy an unmount left (vfs.c 364 and 446), and an        *)
(* unmount of a devfs with a pointer that remove_device left behind        *)
(* (devfs.c 76 and 136), which frees a block it does not own.              *)
(***************************************************************************)
EXTENDS Integers, FiniteSets

CONSTANTS
  Blk,                  \* the blocks kmalloc can return
  NULL,                 \* the null pointer
  Proc,                 \* the processes
  Dir, File,            \* the names of mount points, and of files and devices
  TmpDir, DevDir,       \* those of the two mounts of init_vfs
  NBMAX_MOUNTINGPOINT,
  NBMAX_NODE,           \* NBMAX_FILE and NBMAX_DEVICE, equal in the code
  NBMAX_FD

ASSUME NameAssumption == /\ NULL \notin Blk /\ File # {}
                         /\ TmpDir \in Dir /\ DevDir \in Dir
ASSUME SizeAssumption == /\ NBMAX_MOUNTINGPOINT \in Nat \ {0, 1}
                         /\ NBMAX_NODE \in Nat \ {0}
                         /\ NBMAX_FD \in Nat \ {0}

VARIABLES
  owned,          \* the blocks kmalloc has given and kfree has not taken back
  mpoint,         \* vfsroot.list
  nbmountpoints,  \* vfsroot.nbmountpoints
  fs,             \* s_vffs and s_devfs: the list and its count, by block
  name,           \* s_vfile.name and s_device.name, by block
  fd_table,       \* s_proc.fd_table: the node, or NULL
  path,           \* history: the path a descriptor was opened with, until
                  \* it is closed or that path is removed or unmounted
  spoilt          \* history: has one of the two calls above been made?

vars == <<owned, mpoint, nbmountpoints, fs, name, fd_table, path, spoilt>>

FsType == {"VFILES", "DEVICES"}
MSlot == 0 .. (NBMAX_MOUNTINGPOINT - 1)
NSlot == 0 .. (NBMAX_NODE - 1)
Fd == 0 .. (NBMAX_FD - 1)
Pointer == Blk \cup {NULL}
Below(n) == 0 .. (n - 1)

EmptyFs == [list |-> [j \in NSlot |-> NULL], nb |-> 0]
NoFds == [k \in Fd |-> NULL]
Least(S) == CHOOSE i \in S : \A j \in S : i <= j

\* The first entry of a table below its count whose name matches.
Mounts(d) == {i \in Below(nbmountpoints) : mpoint[i].name = d}
Mounted(d, t) == Mounts(d) # {} /\ mpoint[Least(Mounts(d))].type = t
FsAt(d) == mpoint[Least(Mounts(d))].fs
Entries(b, f) == {j \in Below(fs[b].nb) : name[fs[b].list[j]] = f}
NodeAt(d, f) == fs[FsAt(d)].list[Least(Entries(FsAt(d), f))]
Exists(d, f) == Mounts(d) # {} /\ Entries(FsAt(d), f) # {}

\* Variant of ShiftDown: the slot of the entry that goes is not filled.
ShiftDownLate(l, i, nb) == [j \in DOMAIN l |-> IF j \in (i + 1) .. (nb - 1) THEN l[j + 1] ELSE l[j]]

\* The part of a list from slot i is moved down; nb is the new count.
ShiftDown(l, i, nb) == [j \in DOMAIN l |-> IF j \in i .. (nb - 1) THEN l[j + 1] ELSE l[j]]

\* What remove_vffs and remove_devfs free besides the file system itself:
\* every slot of the list that is not NULL, whatever the count says.
Nodes(b) == {fs[b].list[j] : j \in NSlot} \ {NULL}
Stale(b) == {fs[b].list[j] : j \in NSlot \ Below(fs[b].nb)} \ {NULL}

\* The descriptors opened with one of the paths S forget them.
Forget(S) == path' = [p \in Proc |-> [k \in Fd |-> IF path[p][k] \in S THEN <<>> ELSE path[p][k]]]

-----------------------------------------------------------------------------
\* After init_vfs: /tmp and /dev.
Init ==
  /\ \E t, d \in Blk :
       /\ t # d
       /\ owned = {t, d}
       /\ mpoint = [i \in MSlot |->
            CASE i = 0 -> [name |-> TmpDir, type |-> "VFILES", fs |-> t]
              [] i = 1 -> [name |-> DevDir, type |-> "DEVICES", fs |-> d]
              [] OTHER -> [name |-> TmpDir, type |-> "VFILES", fs |-> NULL]]
  /\ nbmountpoints = 2
  /\ fs = [b \in Blk |-> EmptyFs]
  /\ name = [b \in Blk |-> CHOOSE f \in File : TRUE]
  /\ fd_table = [p \in Proc |-> NoFds]
  /\ path = [p \in Proc |-> [k \in Fd |-> <<>>]]
  /\ spoilt = FALSE

\* add_vffs, add_devfs: the first slot whose fs is NULL, below the count or
\* not; the names of the other mount points are not looked at.
Mount(d, t, b) ==
  LET free == {i \in MSlot : mpoint[i].fs = NULL} IN
  /\ free # {}
  /\ b \notin owned
  /\ owned' = owned \cup {b}
  /\ fs' = [fs EXCEPT ![b] = EmptyFs]
  /\ mpoint' = [mpoint EXCEPT ![Least(free)] = [name |-> d, type |-> t, fs |-> b]]
  /\ nbmountpoints' = nbmountpoints + 1
  /\ spoilt' = (Least(free) # nbmountpoints)
  /\ UNCHANGED <<name, fd_table, path>>

\* Variant of Unmount: the last entry fills the slot, the others stay.
UnmountByLast(d) ==
  LET i == Least(Mounts(d))
      b == mpoint[i].fs
  IN  /\ Mounts(d) # {}
      /\ owned' = owned \ (Nodes(b) \cup {b})
      /\ mpoint' = [mpoint EXCEPT ![i] = mpoint[nbmountpoints - 1]]
      /\ nbmountpoints' = nbmountpoints - 1
      /\ Forget({d} \X File)
      /\ spoilt' = (Stale(b) # {})
      /\ UNCHANGED <<fs, name, fd_table>>

\* The entry is cleared and the later ones move down over it; the slot that
\* the last one leaves keeps its copy.
Unmount(d) ==
  LET i == Least(Mounts(d))
      b == mpoint[i].fs
  IN  /\ Mounts(d) # {}
      /\ owned' = owned \ (Nodes(b) \cup {b})
      /\ mpoint' = ShiftDown([mpoint EXCEPT ![i].fs = NULL], i, nbmountpoints - 1)
      /\ nbmountpoints' = nbmountpoints - 1
      /\ Forget({d} \X File)
      /\ spoilt' = (Stale(b) # {})
      /\ UNCHANGED <<fs, name, fd_table>>

\* Node b is entered at the end of the list of file system s.
Enter(s, b, f) ==
  /\ b \notin owned
  /\ owned' = owned \cup {b}
  /\ name' = [name EXCEPT ![b] = f]
  /\ fs' = [fs EXCEPT ![s] = [list |-> [@.list EXCEPT ![fs[s].nb] = b], nb |-> @.nb + 1]]

\* The first free descriptor of p, if any, leads to b, the node of d and f.
Grant(p, d, f, b) ==
  LET free == {k \in Fd : fd_table[p][k] = NULL} IN
  IF free = {} THEN UNCHANGED <<fd_table, path>>
  ELSE /\ fd_table' = [fd_table EXCEPT ![p][Least(free)] = b]
       /\ path' = [path EXCEPT ![p][Least(free)] = <<d, f>>]

\* open of something that exists, in a mode its permissions allow.
Open(p, d, f) ==
  /\ Exists(d, f)
  /\ Grant(p, d, f, NodeAt(d, f))
  /\ UNCHANGED <<owned, mpoint, nbmountpoints, fs, name, spoilt>>

\* Variant of OpenCreate: the name is not looked up.
OpenCreateAgain(p, d, f, b) ==
  /\ Mounted(d, "VFILES")
  /\ fs[FsAt(d)].nb < NBMAX_NODE
  /\ Enter(FsAt(d), b, f)
  /\ Grant(p, d, f, b)
  /\ UNCHANGED <<mpoint, nbmountpoints, spoilt>>

\* open with O_CREAT of a file that does not: it is made even when p has no
\* descriptor left for it.
OpenCreate(p, d, f, b) ==
  /\ Mounted(d, "VFILES")
  /\ ~Exists(d, f)
  /\ fs[FsAt(d)].nb < NBMAX_NODE
  /\ Enter(FsAt(d), b, f)
  /\ Grant(p, d, f, b)
  /\ UNCHANGED <<mpoint, nbmountpoints, spoilt>>

Close(p, k) ==
  /\ fd_table[p][k] # NULL
  /\ fd_table' = [fd_table EXCEPT ![p][k] = NULL]
  /\ path' = [path EXCEPT ![p][k] = <<>>]
  /\ UNCHANGED <<owned, mpoint, nbmountpoints, fs, name, spoilt>>

\* Variant of Insmod: the list is taken to be unbounded.
InsmodUnbounded(d, f, b) ==
  /\ Mounted(d, "DEVICES")
  /\ Enter(FsAt(d), b, f)
  /\ UNCHANGED <<mpoint, nbmountpoints, fd_table, path, spoilt>>

\* insmod: the last slot of a devfs is never used.
Insmod(d, f, b) ==
  /\ Mounted(d, "DEVICES")
  /\ fs[FsAt(d)].nb < NBMAX_NODE - 1
  /\ Enter(FsAt(d), b, f)
  /\ UNCHANGED <<mpoint, nbmountpoints, fd_table, path, spoilt>>

\* The first entry f of the file system at d goes; only remove_vfile clears
\* the slot that the last one leaves.
Drop(d, f, clear) ==
  LET s == FsAt(d)
      j == Least(Entries(s, f))
      nb == fs[s].nb - 1
      l == ShiftDown(fs[s].list, j, nb)
  IN  /\ Exists(d, f)
      /\ owned' = owned \ {fs[s].list[j]}
      /\ fs' = [fs EXCEPT ![s] = [list |-> IF clear THEN [l EXCEPT ![nb] = NULL] ELSE l,
                                  nb |-> nb]]
      /\ Forget({<<d, f>>})
      /\ UNCHANGED <<mpoint, nbmountpoints, name, fd_table, spoilt>>

RemoveFile(d, f) == Mounted(d, "VFILES") /\ Drop(d, f, TRUE)
RemoveDevice(d, f) == Mounted(d, "DEVICES") /\ Drop(d, f, FALSE)

\* A process ends, closing nothing; the next one starts with no descriptor.
NewProcess(p) ==
  /\ fd_table' = [fd_table EXCEPT ![p] = NoFds]
  /\ path' = [path EXCEPT ![p] = [k \in Fd |-> <<>>]]
  /\ UNCHANGED <<owned, mpoint, nbmountpoints, fs, name, spoilt>>

Call ==
  \/ \E d \in Dir : \/ \E t \in FsType, b \in Blk : Mount(d, t, b)
                    \/ Unmount(d)
  \/ \E d \in Dir, f \in File :
       \/ \E p \in Proc : \/ Open(p, d, f)
                          \/ \E b \in Blk : OpenCreate(p, d, f, b)
       \/ \E b \in Blk : Insmod(d, f, b)
       \/ RemoveFile(d, f)
       \/ RemoveDevice(d, f)
  \/ \E p \in Proc : \/ \E k \in Fd : Close(p, k)
                     \/ NewProcess(p)

Next == ~spoilt /\ Call

Spec == Init /\ [][Next]_vars

(***************************************************************************)
(*                             Properties                                  *)
(***************************************************************************)

\* Tables, counts and pointers keep their types.
TypeOK ==
  /\ owned \subseteq Blk
  /\ mpoint \in [MSlot -> [name : Dir, type : FsType, fs : Pointer]]
  /\ nbmountpoints \in 0 .. NBMAX_MOUNTINGPOINT
  /\ fs \in [Blk -> [list : [NSlot -> Pointer], nb : 0 .. NBMAX_NODE]]
  /\ name \in [Blk -> File]
  /\ fd_table \in [Proc -> [Fd -> Pointer]]
  /\ path \in [Proc -> [Fd -> (Dir \X File) \cup {<<>>}]]
  /\ spoilt \in BOOLEAN

MountedFs == {mpoint[i].fs : i \in Below(nbmountpoints)}
Listed(b) == {fs[b].list[j] : j \in Below(fs[b].nb)}

\* vfs.c 427-452, devfs.c 67-82: in whatever order file systems are unmounted
\* and whatever is open, every block they own is owned once, by one slot of
\* one list, and none is lost: no free hits a block twice, nothing leaks.
OwnedOnce ==
  ~spoilt =>
    /\ \A i, j \in Below(nbmountpoints) : i # j => mpoint[i].fs # mpoint[j].fs
    /\ \A b \in MountedFs \ {NULL} : \A i, j \in Below(fs[b].nb) :
         i # j => fs[b].list[i] # fs[b].list[j]
    /\ \A b, c \in MountedFs \ {NULL} : b # c => Listed(b) \cap Listed(c) = {}
    /\ owned = MountedFs \cup UNION {Listed(b) : b \in MountedFs \ {NULL}}

\* vfs.c 122-142, 359-376, 427-452, vffs.c 42-58: until the path it was opened
\* with is itself removed or unmounted, a descriptor leads to the very node
\* that opening the path again would find, whatever is created, removed,
\* mounted and unmounted besides, in this directory or under the same name.
FdsFollowPaths ==
  ~spoilt => \A p \in Proc, k \in Fd : \A d \in Dir, f \in File :
    path[p][k] = <<d, f>> => Exists(d, f) /\ fd_table[p][k] = NodeAt(d, f)
=============================================================================
