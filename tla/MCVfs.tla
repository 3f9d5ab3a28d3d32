------------------------------- MODULE MCVfs -------------------------------
\* Model-checking instances of Vfs, and the tree it implements.
EXTENDS Vfs

\* Blocks are alike, and a pointer says no more than where else the same one
\* is: in the view a block is the first place in the tables that leads to it.
\* Behind the counts only whether a slot is NULL is ever read, and of a
\* descriptor whose path is gone only that it is taken.
Trees == {i \in Below(nbmountpoints) : mpoint[i].fs # NULL}
Place(b) ==
  LET places == {<<i, -1>> : i \in {t \in Trees : mpoint[t].fs = b}}
                  \cup {t \in Trees \X NSlot :
                          fs[mpoint[t[1]].fs].list[t[2]] = b /\ t[2] < fs[mpoint[t[1]].fs].nb}
      nowhere == NBMAX_MOUNTINGPOINT * (NBMAX_NODE + 1)
  IN  IF b = NULL THEN NULL
      ELSE <<b \in owned, Least({t[1] * (NBMAX_NODE + 1) + t[2] : t \in places} \cup {nowhere})>>

MCView ==
  <<spoilt, Cardinality(owned), nbmountpoints,
    [i \in MSlot |-> mpoint[i].fs = NULL],
    [i \in Trees |->
       LET l == fs[mpoint[i].fs] IN
       <<mpoint[i].name, mpoint[i].type, Place(mpoint[i].fs), l.nb,
         [j \in NSlot |-> l.list[j] = NULL],
         [j \in NSlot \cap Below(l.nb) |-> <<Place(l.list[j]), name[l.list[j]]>>]>>],
    path, [p \in Proc |-> [k \in Fd |->
             IF path[p][k] = <<>> THEN fd_table[p][k] = NULL ELSE Place(fd_table[p][k])]]>>

TreeOf == [k \in 1 .. nbmountpoints |->
             LET m == mpoint[k - 1]
                 l == fs[m.fs]
             IN  [name |-> m.name, type |-> m.type,
                  entries |-> [j \in 1 .. l.nb |-> name[l.list[j - 1]]]]]

Tree == INSTANCE FileTree WITH tree <- TreeOf

\* The tables implement the tree of directories: an operation changes the
\* one entry it names and no other, until a call spoils them.
ImplementsTree == Tree!Init /\ [][Tree!Next \/ spoilt']_TreeOf
=============================================================================
