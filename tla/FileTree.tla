------------------------------ MODULE FileTree ------------------------------
(***************************************************************************)
(* What the virtual file system promises (src/include/fs/vfs.h 11-14):     *)
(* mount points as top-level directories, in the order they were mounted,  *)
(* each holding flat entries in the order they were created.  A path names *)
(* the first directory, and the first entry in it, that has the name.      *)
(***************************************************************************)
EXTENDS Naturals, Sequences, SequencesExt

CONSTANTS Dir, File, FsType

VARIABLE tree  \* Seq([name : Dir, type : FsType, entries : Seq(File)])

Mounted(d) == \E i \in DOMAIN tree : tree[i].name = d
At(d) == Min({i \in DOMAIN tree : tree[i].name = d})
Holds(d, f) == Mounted(d) /\ \E i \in DOMAIN tree[At(d)].entries :
                               tree[At(d)].entries[i] = f

Init == tree \in {<<[name |-> d, type |-> "VFILES", entries |-> <<>>],
                    [name |-> e, type |-> "DEVICES", entries |-> <<>>]>> :
                  d, e \in Dir}

Mount(d, t) == tree' = Append(tree, [name |-> d, type |-> t, entries |-> <<>>])

Unmount(d) == Mounted(d) /\ tree' = RemoveAt(tree, At(d))

AddEntry(d, f, t) == /\ Mounted(d) /\ tree[At(d)].type = t
                     /\ tree' = [tree EXCEPT ![At(d)].entries = Append(@, f)]

\* A file is created once; a second device of the same name is accepted.
Create(d, f) == ~Holds(d, f) /\ AddEntry(d, f, "VFILES")
Insmod(d, f) == AddEntry(d, f, "DEVICES")

RemoveEntry(d, f) ==
  /\ Holds(d, f)
  /\ tree' = [tree EXCEPT ![At(d)].entries =
                            RemoveAt(@, Min({j \in DOMAIN @ : @[j] = f}))]

Next == \E d \in Dir : \/ \E t \in FsType : Mount(d, t)
                       \/ Unmount(d)
                       \/ \E f \in File : Create(d, f) \/ Insmod(d, f) \/ RemoveEntry(d, f)

Spec == Init /\ [][Next]_tree
=============================================================================
