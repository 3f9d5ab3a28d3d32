----------------------------- MODULE Vfs_proofs -----------------------------
(***************************************************************************)
(* Proofs for Vfs, for tables of any size and any number of blocks,        *)
(* processes and names, and for callers that unmount in any order and      *)
(* remove what is open.                                                    *)
(***************************************************************************)
EXTENDS MCVfs, SequenceTheorems, WellFoundedInduction, TLAPS

-----------------------------------------------------------------------------
(***************************************************************************)
(* Lookups.                                                                *)
(***************************************************************************)
LEMMA LeastIs ==
  ASSUME NEW S \in SUBSET Nat, S # {}
  PROVE  Least(S) \in S /\ \A j \in S : Least(S) <= j
<1>1. PICK i \in S : \A j \in S : ~(<<j, i>> \in OpToRel(<, Nat))
  BY NatLessThanWellFounded, WFMin
<1>2. \A j \in S : i <= j
  <2> SUFFICES ASSUME NEW j \in S PROVE i <= j
    OBVIOUS
  <2>1. i \in Nat /\ j \in Nat
    OBVIOUS
  <2>2. ~(j < i)
    <3> DEFINE pair == <<j, i>>
    <3>1. pair \notin {ss \in Nat \X Nat : ss[1] < ss[2]}
      BY <1>1 DEF OpToRel
    <3>2. pair \in Nat \X Nat /\ pair[1] = j /\ pair[2] = i
      BY <2>1
    <3> HIDE DEF pair
    <3> QED
      BY <3>1, <3>2
  <2> QED
    BY <2>1, <2>2
<1> QED
  BY <1>2 DEF Least

(***************************************************************************)
(* The table of mount points.                                              *)
(***************************************************************************)
\* Every slot below the count has a file system.
Table == \A i \in Below(nbmountpoints) : mpoint[i].fs # NULL

Base == TypeOK /\ Table

\* A mounted directory is a file system, and an entry that exists a node of it.
LEMMA MountIs ==
  ASSUME Base
  PROVE  /\ nbmountpoints \in Nat /\ nbmountpoints <= NBMAX_MOUNTINGPOINT
         /\ Below(nbmountpoints) \subseteq MSlot
         /\ MountedFs \subseteq Blk
         /\ \A i \in Below(nbmountpoints) : mpoint[i].fs \in MountedFs
         /\ NBMAX_NODE \in Nat \ {0}
<1>1. nbmountpoints \in Nat /\ nbmountpoints <= NBMAX_MOUNTINGPOINT
      /\ NBMAX_MOUNTINGPOINT \in Nat /\ NBMAX_NODE \in Nat \ {0}
  BY SizeAssumption DEF Base, TypeOK
<1>2. \A i \in Below(nbmountpoints) : i \in MSlot /\ i < nbmountpoints
  BY <1>1 DEF Below, MSlot
<1>3. \A i \in Below(nbmountpoints) : mpoint[i].fs \in Blk
  <2> SUFFICES ASSUME NEW i \in Below(nbmountpoints) PROVE mpoint[i].fs \in Blk
    OBVIOUS
  <2>1. i \in MSlot /\ mpoint[i].fs # NULL
    BY <1>2 DEF Base, Table
  <2> QED
    BY <2>1 DEF Base, TypeOK, Pointer
<1> QED
  BY <1>1, <1>2, <1>3 DEF MountedFs

LEMMA LookupIs ==
  ASSUME Base, NEW d, Mounts(d) # {}
  PROVE  /\ Least(Mounts(d)) \in Below(nbmountpoints)
         /\ FsAt(d) \in MountedFs /\ FsAt(d) \in Blk
<1>1. Mounts(d) \in SUBSET Nat /\ Mounts(d) \subseteq Below(nbmountpoints)
  BY MountIs DEF Mounts, Below
<1>2. Least(Mounts(d)) \in Mounts(d)
  BY <1>1, LeastIs
<1> QED
  BY <1>1, <1>2, MountIs DEF FsAt

LEMMA EntryIs ==
  ASSUME Base, NEW s \in Blk, NEW f, Entries(s, f) # {}
  PROVE  /\ Least(Entries(s, f)) \in Below(fs[s].nb)
         /\ fs[s].list[Least(Entries(s, f))] \in Listed(s)
<1>1. fs[s].nb \in Nat
  BY MountIs DEF Base, TypeOK
<1>2. Entries(s, f) \in SUBSET Nat /\ Entries(s, f) \subseteq Below(fs[s].nb)
  BY <1>1 DEF Entries, Below
<1>3. Least(Entries(s, f)) \in Entries(s, f)
  BY <1>2, LeastIs
<1> QED
  BY <1>2, <1>3 DEF Listed

(***************************************************************************)
(* The lists.                                                              *)
(***************************************************************************)
NoRepeat(l, n) == \A i, k \in Below(n) : i # k => l[i] # l[k]
Holds(l, n, x) == \E k \in Below(n) : l[k] = x

\* m is l, up to n, without the entry that was at j.
Moved(l, m, j, n) ==
  \A k \in Below(n) : (k < j => m[k] = l[k]) /\ (~(k < j) => m[k] = l[k + 1])

\* A list moved down keeps its type.
LEMMA ShiftType ==
  ASSUME NEW N \in Nat, NEW n \in Nat, n < N, NEW j \in 0 .. n,
         NEW V, NEW c \in [0 .. (N - 1) -> V]
  PROVE  ShiftDown(c, j, n) \in [0 .. (N - 1) -> V]
<1>1. ShiftDown(c, j, n) = [k \in 0 .. (N - 1) |-> IF k \in j .. (n - 1) THEN c[k + 1] ELSE c[k]]
  BY DEF ShiftDown
<1>2. \A k \in 0 .. (N - 1) : k \in j .. (n - 1) => k + 1 \in 0 .. (N - 1)
  OBVIOUS
<1> QED
  BY <1>1, <1>2

\* What the entry that goes is changed to first makes no difference.
LEMMA ShiftIs ==
  ASSUME NEW N \in Nat, NEW n \in Nat, n < N, NEW j \in 0 .. n,
         NEW l, NEW c, DOMAIN c = 0 .. (N - 1),
         \A k \in 0 .. (N - 1) : k # j => c[k] = l[k]
  PROVE  Moved(l, ShiftDown(c, j, n), j, n)
<1> DEFINE Slot == 0 .. (N - 1)
           m == ShiftDown(c, j, n)
<1>1. m = [k \in Slot |-> IF k \in j .. (n - 1) THEN c[k + 1] ELSE c[k]]
  BY DEF ShiftDown
<1>2. ASSUME NEW k \in Below(n) PROVE (k < j => m[k] = l[k]) /\ (~(k < j) => m[k] = l[k + 1])
  <2>1. CASE k < j
    <3>1. k \in Slot /\ k \notin j .. (n - 1) /\ k # j
      BY <2>1 DEF Below
    <3> QED
      BY <1>1, <2>1, <3>1
  <2>2. CASE ~(k < j)
    <3>1. k \in Slot /\ k \in j .. (n - 1) /\ k + 1 \in Slot /\ k + 1 # j
      BY <2>2 DEF Below
    <3> QED
      BY <1>1, <2>2, <3>1
  <2> QED
    BY <2>1, <2>2
<1> QED
  BY <1>2 DEF Moved

\* An entry of a list goes: the rest is as it was, and as often.
LEMMA Shifted ==
  ASSUME NEW n \in Nat, NEW j \in 0 .. n, NEW l, NEW m, Moved(l, m, j, n), NoRepeat(l, n + 1)
  PROVE  /\ \A x : Holds(m, n, x) <=> x # l[j] /\ Holds(l, n + 1, x)
         /\ NoRepeat(m, n)
<1>0. \A i, k \in Below(n + 1) : i # k => l[i] # l[k]
  BY DEF NoRepeat
<1> SUFFICES /\ \A x : (\E k \in Below(n) : m[k] = x) <=>
                         x # l[j] /\ \E k \in Below(n + 1) : l[k] = x
             /\ \A i, k \in Below(n) : i # k => m[i] # m[k]
  BY DEF NoRepeat, Holds
<1>4. /\ \A k \in Below(n) : k + 1 \in Below(n + 1) /\ k \in Below(n + 1)
      /\ \A k \in Below(n) : (k < j => m[k] = l[k]) /\ (~(k < j) => m[k] = l[k + 1])
  BY DEF Below, Moved
<1>5. \A k \in Below(n) : \E i \in Below(n + 1) : m[k] = l[i] /\ i # j
  <2> SUFFICES ASSUME NEW k \in Below(n) PROVE \E i \in Below(n + 1) : m[k] = l[i] /\ i # j
    OBVIOUS
  <2>1. CASE k < j
    BY <1>4, <2>1 DEF Below
  <2>2. CASE ~(k < j)
    <3>1. k + 1 \in Below(n + 1) /\ k + 1 # j
      BY <2>2 DEF Below
    <3> QED
      BY <1>0, <1>4, <2>2, <3>1
  <2> QED
    BY <2>1, <2>2
<1>6. j \in Below(n + 1)
  BY DEF Below
<1>7. \A i \in Below(n + 1) : i # j => \E k \in Below(n) : m[k] = l[i]
  <2> SUFFICES ASSUME NEW i \in Below(n + 1), i # j PROVE \E k \in Below(n) : m[k] = l[i]
    OBVIOUS
  <2>1. CASE i < j
    <3>1. i \in Below(n)
      BY <2>1 DEF Below
    <3> QED
      BY <1>0, <1>4, <2>1, <3>1
  <2>2. CASE j < i
    <3>1. i - 1 \in Below(n) /\ ~(i - 1 < j) /\ (i - 1) + 1 = i
      BY <2>2 DEF Below
    <3> QED
      BY <1>4, <3>1
  <2> QED
    BY <2>1, <2>2 DEF Below
<1>8. \A x : (\E k \in Below(n) : m[k] = x) <=> x # l[j] /\ \E k \in Below(n + 1) : l[k] = x
  <2> SUFFICES ASSUME NEW x
               PROVE  (\E k \in Below(n) : m[k] = x) <=> x # l[j] /\ \E k \in Below(n + 1) : l[k] = x
    OBVIOUS
  <2>1. ASSUME NEW k \in Below(n), m[k] = x PROVE x # l[j] /\ \E i \in Below(n + 1) : l[i] = x
    BY <1>0, <1>5, <1>6, <2>1
  <2>2. ASSUME NEW i \in Below(n + 1), l[i] = x, x # l[j] PROVE \E k \in Below(n) : m[k] = x
    BY <1>7, <2>2
  <2> QED
    BY <2>1, <2>2
<1>9. \A i, k \in Below(n) : i # k => m[i] # m[k]
  <2> SUFFICES ASSUME NEW i \in Below(n), NEW k \in Below(n), i < k PROVE m[i] # m[k]
    BY DEF Below
  <2>1. CASE k < j
    <3>1. i < j /\ i \in Below(n + 1) /\ k \in Below(n + 1) /\ i # k
      BY <2>1 DEF Below
    <3> QED
      BY <1>0, <1>4, <2>1, <3>1
  <2>2. CASE i < j /\ ~(k < j)
    <3>1. i \in Below(n + 1) /\ k + 1 \in Below(n + 1) /\ i # k + 1
      BY <2>2 DEF Below
    <3> QED
      BY <1>0, <1>4, <2>2, <3>1
  <2>3. CASE ~(i < j)
    <3>1. ~(k < j) /\ i + 1 \in Below(n + 1) /\ k + 1 \in Below(n + 1) /\ i + 1 # k + 1
      BY <2>3 DEF Below
    <3> QED
      BY <1>0, <1>4, <2>3, <3>1
  <2> QED
    BY <2>1, <2>2, <2>3
<1> QED
  BY <1>8, <1>9

-----------------------------------------------------------------------------
(***************************************************************************)
(* The tables keep their types, and the mount table has no holes below its *)
(* count.                                                                  *)
(***************************************************************************)
LEMMA GrantIs ==
  ASSUME TypeOK, NEW p \in Proc, NEW d \in Dir, NEW f \in File, NEW b \in Pointer, Grant(p, d, f, b)
  PROVE  /\ fd_table' \in [Proc -> [Fd -> Pointer]]
         /\ path' \in [Proc -> [Fd -> (Dir \X File) \cup {<<>>}]]
         /\ \A q \in Proc, i \in Fd :
              \/ fd_table'[q][i] = fd_table[q][i] /\ path'[q][i] = path[q][i]
              \/ fd_table'[q][i] = b /\ path'[q][i] = <<d, f>>
<1> DEFINE free == {k \in Fd : fd_table[p][k] = NULL}
           Path == (Dir \X File) \cup {<<>>}
           new == <<d, f>>
<1>1. CASE free = {}
  BY <1>1 DEF Grant, TypeOK
<1>2. CASE free # {}
  <2> DEFINE k == Least(free)
  <2>1. k \in Fd
    <3>1. free \in SUBSET Nat
      BY SizeAssumption DEF Fd
    <3> QED
      BY <1>2, <3>1, LeastIs
  <2>2. fd_table' = [fd_table EXCEPT ![p][k] = b] /\ path' = [path EXCEPT ![p][k] = new]
    BY <1>2 DEF Grant
  <2>3. new \in Path
    OBVIOUS
  <2>4. path \in [Proc -> [Fd -> Path]] /\ fd_table \in [Proc -> [Fd -> Pointer]]
    BY DEF TypeOK
  <2> HIDE DEF k, new, Path
  <2>5. fd_table' \in [Proc -> [Fd -> Pointer]] /\ path' \in [Proc -> [Fd -> Path]]
    BY <2>1, <2>2, <2>3, <2>4
  <2>6. \A q \in Proc, i \in Fd :
          \/ fd_table'[q][i] = fd_table[q][i] /\ path'[q][i] = path[q][i]
          \/ fd_table'[q][i] = b /\ path'[q][i] = new
    BY <2>1, <2>2, <2>4
  <2> QED
    BY <2>5, <2>6 DEF Path, new
<1> QED
  BY <1>1, <1>2

\* What a descriptor still has of its path.
LEMMA ForgetIs ==
  ASSUME TypeOK, NEW S, Forget(S)
  PROVE  /\ path' \in [Proc -> [Fd -> (Dir \X File) \cup {<<>>}]]
         /\ \A q \in Proc, i \in Fd, d \in Dir, f \in File :
              path'[q][i] = <<d, f>> => path[q][i] = <<d, f>> /\ <<d, f>> \notin S
<1>1. \A q \in Proc, i \in Fd : path'[q][i] = IF path[q][i] \in S THEN <<>> ELSE path[q][i]
  BY DEF Forget, TypeOK
<1>2. path' \in [Proc -> [Fd -> (Dir \X File) \cup {<<>>}]]
  BY DEF Forget, TypeOK
<1>3. \A d \in Dir, f \in File : <<d, f>> # <<>>
  BY Zenon
<1>4. ASSUME NEW q \in Proc, NEW i \in Fd, NEW d \in Dir, NEW f \in File, path'[q][i] = <<d, f>>
      PROVE  path[q][i] = <<d, f>> /\ <<d, f>> \notin S
  <2>1. PICK x : x = <<d, f>>
    OBVIOUS
  <2>2. x # <<>> /\ path'[q][i] = x
    BY <1>3, <1>4, <2>1
  <2> QED
    BY <1>1, <2>1, <2>2
<1> QED
  BY <1>2, <1>4

\* The entry of a file system in the table is what counts; its lists change
\* one by one.
LEMMA EnterIs ==
  ASSUME Base, NEW s \in Blk, NEW b \in Blk, NEW f \in File, fs[s].nb < NBMAX_NODE, Enter(s, b, f)
  PROVE  /\ fs' \in [Blk -> [list : [NSlot -> Pointer], nb : 0 .. NBMAX_NODE]]
         /\ name' \in [Blk -> File]
         /\ b \notin owned /\ owned' = owned \cup {b}
         /\ fs'[s].nb = fs[s].nb + 1
         /\ \A j \in Below(fs[s].nb) : fs'[s].list[j] = fs[s].list[j]
         /\ fs'[s].list[fs[s].nb] = b
         /\ \A c \in Blk \ {s} : fs'[c] = fs[c]
<1> DEFINE n == fs[s].nb
           l == fs[s].list
<1>1. n \in 0 .. NBMAX_NODE /\ l \in [NSlot -> Pointer] /\ n \in NSlot /\ NBMAX_NODE \in Nat
  BY SizeAssumption DEF Base, TypeOK, NSlot
<1> DEFINE m == [l EXCEPT ![n] = b]
<1>2. m \in [NSlot -> Pointer] /\ m[n] = b /\ \A j \in Below(n) : m[j] = l[j]
  BY <1>1 DEF Pointer, Below, NSlot
<1>3. fs' = [fs EXCEPT ![s] = [list |-> m, nb |-> n + 1]]
  BY DEF Enter, Base, TypeOK
<1>4. n + 1 \in 0 .. NBMAX_NODE
  BY <1>1
<1>5. name' \in [Blk -> File] /\ b \notin owned /\ owned' = owned \cup {b}
  BY DEF Enter, Base, TypeOK
<1>6. fs \in [Blk -> [list : [NSlot -> Pointer], nb : 0 .. NBMAX_NODE]]
  BY DEF Base, TypeOK
<1> HIDE DEF m
<1>7. fs'[s] = [list |-> m, nb |-> n + 1] /\ \A c \in Blk \ {s} : fs'[c] = fs[c]
  BY <1>3, <1>6
<1>8. fs' \in [Blk -> [list : [NSlot -> Pointer], nb : 0 .. NBMAX_NODE]]
  <2> DEFINE v == n + 1
  <2> HIDE DEF v
  <2>1. fs' = [fs EXCEPT ![s] = [list |-> m, nb |-> v]] /\ v \in 0 .. NBMAX_NODE
    BY <1>3, <1>4 DEF v
  <2> HIDE DEF n, l
  <2> QED
    BY <1>2, <1>6, <2>1
<1> QED
  BY <1>2, <1>5, <1>7, <1>8

\* The node at slot j of the list of s is freed and leaves the list.
Gone(s, j) ==
  /\ owned' = owned \ {fs[s].list[j]}
  /\ fs'[s].nb = fs[s].nb - 1
  /\ Moved(fs[s].list, fs'[s].list, j, fs[s].nb - 1)
  /\ \A c \in Blk \ {s} : fs'[c] = fs[c]

LEMMA DropIs ==
  ASSUME Base, NEW d \in Dir, NEW f \in File, NEW clear, Drop(d, f, clear),
         NEW s \in Blk, s = FsAt(d), NEW j \in Below(fs[s].nb), j = Least(Entries(s, f))
  PROVE  /\ fs' \in [Blk -> [list : [NSlot -> Pointer], nb : 0 .. NBMAX_NODE]]
         /\ Gone(s, j)
         /\ UNCHANGED <<mpoint, nbmountpoints, name, fd_table, spoilt>>
         /\ Forget({<<d, f>>})
<1> DEFINE n == fs[s].nb - 1
           l == fs[s].list
           m == ShiftDown(l, j, n)
           c == IF clear THEN [m EXCEPT ![n] = NULL] ELSE m
<1>1. n \in Nat /\ n < NBMAX_NODE /\ n \in NSlot /\ j \in 0 .. n /\ NBMAX_NODE \in Nat
      /\ l \in [NSlot -> Pointer] /\ n \in 0 .. NBMAX_NODE
  BY SizeAssumption DEF Base, TypeOK, NSlot, Below
<1>2. m \in [NSlot -> Pointer] /\ Moved(l, m, j, n)
  <2>1. m = ShiftDown(l, j, n) /\ DOMAIN l = NSlot
    BY <1>1
  <2> HIDE DEF l, m, n
  <2>2. m \in [NSlot -> Pointer]
    BY <1>1, <2>1, ShiftType DEF NSlot
  <2>3. Moved(l, m, j, n)
    BY <1>1, <2>1, ShiftIs DEF NSlot
  <2> QED
    BY <2>2, <2>3
<1>3. fs \in [Blk -> [list : [NSlot -> Pointer], nb : 0 .. NBMAX_NODE]]
  BY DEF Base, TypeOK
<1>4. /\ fs' = [fs EXCEPT ![s] = [list |-> c, nb |-> n]]
      /\ owned' = owned \ {fs[s].list[j]}
      /\ UNCHANGED <<mpoint, nbmountpoints, name, fd_table, spoilt>>
      /\ Forget({<<d, f>>})
  BY DEF Drop
<1> HIDE DEF m
<1>5. c \in [NSlot -> Pointer] /\ \A k \in Below(n) : c[k] = m[k]
  <2>1. \A k \in Below(n) : k \in NSlot /\ k # n
    BY <1>1 DEF Below, NSlot
  <2> QED
    BY <1>1, <1>2, <2>1 DEF Pointer
<1> HIDE DEF c
<1>6. fs'[s] = [list |-> c, nb |-> n] /\ \A e \in Blk \ {s} : fs'[e] = fs[e]
  BY <1>3, <1>4
<1>7. fs' \in [Blk -> [list : [NSlot -> Pointer], nb : 0 .. NBMAX_NODE]]
  <2> HIDE DEF n, l
  <2> QED
    BY <1>1, <1>3, <1>4, <1>5
<1>8. fs'[s].nb = n /\ Moved(l, fs'[s].list, j, n)
  <2>1. Moved(l, c, j, n)
    BY <1>2, <1>5 DEF Moved
  <2> QED
    BY <1>6, <2>1
<1> QED
  BY <1>4, <1>6, <1>7, <1>8 DEF Gone

\* A slot that is free is not below the count, and the first one is at the
\* count unless a stale copy is.
LEMMA MountedIs ==
  ASSUME Base, NEW d \in Dir, NEW t \in FsType, NEW b \in Blk, Mount(d, t, b)
  PROVE  /\ Base'
         /\ b \notin owned /\ owned' = owned \cup {b}
         /\ nbmountpoints' = nbmountpoints + 1 /\ nbmountpoints < NBMAX_MOUNTINGPOINT
         /\ ~spoilt' => /\ mpoint'[nbmountpoints] = [name |-> d, type |-> t, fs |-> b]
                        /\ mpoint'[nbmountpoints].fs = b
         /\ \A i \in Below(nbmountpoints) : mpoint'[i] = mpoint[i]
         /\ fs'[b].nb = 0 /\ \A c \in Blk \ {b} : fs'[c] = fs[c]
<1> DEFINE n == nbmountpoints
           free == {i \in MSlot : mpoint[i].fs = NULL}
           new == [name |-> d, type |-> t, fs |-> b]
           a == Least(free)
<1>1. n \in Nat /\ NBMAX_MOUNTINGPOINT \in Nat /\ NBMAX_NODE \in Nat
      /\ Below(n) \subseteq MSlot
  BY MountIs, SizeAssumption DEF Base
<1>2. free \in SUBSET Nat /\ free # {} /\ \A i \in free : i \notin Below(n) /\ i \in MSlot
  BY DEF Mount, MSlot, Base, Table
<1>3. a \in free /\ \A i \in free : a <= i
  BY <1>2, LeastIs
<1>4. a \in MSlot /\ a \in Nat /\ n <= a /\ a < NBMAX_MOUNTINGPOINT
  BY <1>1, <1>2, <1>3 DEF MSlot, Below
<1>5. n \in MSlot /\ n < NBMAX_MOUNTINGPOINT /\ (n # a => mpoint[n].fs # NULL)
  BY <1>1, <1>3, <1>4 DEF MSlot
<1>6. spoilt' = (a # n) /\ mpoint' = [mpoint EXCEPT ![a] = new] /\ path' = path
  BY DEF Mount
<1>7. /\ b \notin owned /\ owned' = owned \cup {b} /\ fs' = [fs EXCEPT ![b] = EmptyFs]
      /\ nbmountpoints' = n + 1 /\ UNCHANGED <<name, fd_table>>
  BY DEF Mount
<1>9. new \in [name : Dir, type : FsType, fs : Pointer] /\ new.fs = b /\ b # NULL
  BY NameAssumption DEF Pointer
<1> HIDE DEF new, free, a
<1>10. mpoint \in [MSlot -> [name : Dir, type : FsType, fs : Pointer]]
  BY DEF Base, TypeOK
<1>11. /\ mpoint' \in [MSlot -> [name : Dir, type : FsType, fs : Pointer]]
       /\ mpoint'[a] = new /\ \A i \in MSlot \ {a} : mpoint'[i] = mpoint[i]
  BY <1>4, <1>6, <1>9, <1>10
<1>12. \A i \in Below(n) : i \in MSlot \ {a}
  BY <1>1, <1>4 DEF Below
<1>13. \A i \in Below(n + 1) : i \in Below(n) \/ i = n
  BY <1>1 DEF Below
<1>14. Table'
  <2>1. \A i \in Below(n) : mpoint'[i].fs # NULL
    BY <1>11, <1>12 DEF Base, Table
  <2>2. mpoint'[n].fs # NULL
    BY <1>5, <1>9, <1>11
  <2> QED
    BY <1>7, <1>13, <2>1, <2>2 DEF Table, Below
<1>15. EmptyFs \in [list : [NSlot -> Pointer], nb : 0 .. NBMAX_NODE] /\ EmptyFs.nb = 0
  <2>1. 0 \in 0 .. NBMAX_NODE
    BY <1>1
  <2> QED
    BY <2>1 DEF EmptyFs, Pointer
<1> HIDE DEF n
<1>16. fs \in [Blk -> [list : [NSlot -> Pointer], nb : 0 .. NBMAX_NODE]]
  BY DEF Base, TypeOK
<1>17. /\ fs' \in [Blk -> [list : [NSlot -> Pointer], nb : 0 .. NBMAX_NODE]]
       /\ fs'[b].nb = 0 /\ \A c \in Blk \ {b} : fs'[c] = fs[c]
  BY <1>7, <1>15, <1>16
<1>18. n + 1 \in 0 .. NBMAX_MOUNTINGPOINT
  BY <1>1, <1>4
<1>19. TypeOK'
  BY <1>6, <1>7, <1>11, <1>17, <1>18 DEF TypeOK, Base
<1> QED
  BY <1>5, <1>6, <1>7, <1>9, <1>11, <1>12, <1>14, <1>17, <1>19 DEF Base, n, new

\* The entry goes and those behind it, below the count, move down.
LEMMA UnmountedIs ==
  ASSUME Base, NEW d \in Dir, Unmount(d),
         NEW i, i = Least(Mounts(d)), NEW n, n = nbmountpoints - 1
  PROVE  /\ Base'
         /\ i \in 0 .. n /\ n \in Nat /\ n < NBMAX_MOUNTINGPOINT
         /\ nbmountpoints = n + 1 /\ nbmountpoints' = n
         /\ Moved(mpoint, mpoint', i, n)
         /\ LET b == mpoint[i].fs
            IN  /\ owned' = owned \ (Nodes(b) \cup {b})
                /\ ~spoilt' => Stale(b) = {}
         /\ UNCHANGED <<fs, name, fd_table>>
         /\ Forget({d} \X File)
<1> DEFINE Entry == [name : Dir, type : FsType, fs : Pointer]
           cleared == [mpoint EXCEPT ![i].fs = NULL]
           m == ShiftDown(cleared, i, n)
<1>1. Mounts(d) # {} /\ UNCHANGED <<fs, name, fd_table>> /\ Forget({d} \X File)
  BY DEF Unmount
<1>2. i \in Below(nbmountpoints) /\ nbmountpoints \in Nat /\ Below(nbmountpoints) \subseteq MSlot
      /\ nbmountpoints <= NBMAX_MOUNTINGPOINT /\ NBMAX_MOUNTINGPOINT \in Nat
  BY <1>1, LookupIs, MountIs, SizeAssumption
<1>3. n \in Nat /\ i \in 0 .. n /\ nbmountpoints = n + 1 /\ n < NBMAX_MOUNTINGPOINT
      /\ i \in MSlot
  BY <1>2 DEF Below
<1>4. LET b == mpoint[i].fs
      IN  /\ owned' = owned \ (Nodes(b) \cup {b})
          /\ ~spoilt' => Stale(b) = {}
  BY DEF Unmount
<1>5. mpoint' = m /\ nbmountpoints' = n /\ spoilt' \in BOOLEAN
  BY DEF Unmount
<1>6. mpoint \in [MSlot -> Entry]
  BY DEF Base, TypeOK
<1>7. /\ cleared \in [MSlot -> Entry]
      /\ \A k \in MSlot \ {i} : cleared[k] = mpoint[k]
  BY <1>3, <1>6 DEF Pointer
<1> HIDE DEF cleared, m, Entry
<1>8. mpoint' = ShiftDown(cleared, i, n)
  BY <1>5 DEF m
<1>9. \A k \in MSlot : k # i => cleared[k] = mpoint[k]
  BY <1>7
<1>10. mpoint' \in [MSlot -> Entry] /\ Moved(mpoint, mpoint', i, n)
  <2>1. PICK l \in [MSlot -> Entry], c \in [MSlot -> Entry] : l = mpoint /\ c = cleared
    BY <1>6, <1>7
  <2>2. PICK m2 : m2 = mpoint'
    OBVIOUS
  <2>3. m2 = ShiftDown(c, i, n) /\ \A k \in MSlot : k # i => c[k] = l[k]
    BY <1>8, <1>9, <2>1, <2>2
  <2>4. m2 \in [MSlot -> Entry] /\ Moved(l, m2, i, n)
    <3>1. PICK N \in Nat : N = NBMAX_MOUNTINGPOINT
      BY <1>2
    <3>2. MSlot = 0 .. (N - 1) /\ n < N
      BY <1>3, <3>1 DEF MSlot
    <3>3. c \in [0 .. (N - 1) -> Entry] /\ DOMAIN c = 0 .. (N - 1)
      BY <3>2
    <3>4. \A k \in 0 .. (N - 1) : k # i => c[k] = l[k]
      BY <2>3, <3>2
    <3>5. n \in Nat /\ i \in 0 .. n
      BY <1>3
    <3>6. ShiftDown(c, i, n) \in [0 .. (N - 1) -> Entry]
      BY <3>2, <3>3, <3>5, ShiftType
    <3>7. Moved(l, ShiftDown(c, i, n), i, n)
      BY <3>2, <3>3, <3>4, <3>5, ShiftIs
    <3> QED
      BY <2>3, <3>2, <3>6, <3>7
  <2> QED
    BY <2>1, <2>2, <2>4
<1>11. Table'
  <2>1. \A k \in Below(n) : k \in Below(nbmountpoints) /\ k + 1 \in Below(nbmountpoints)
    BY <1>3 DEF Below
  <2>2. ASSUME NEW k \in Below(n) PROVE mpoint'[k].fs # NULL
    <3>1. mpoint[k].fs # NULL /\ mpoint[k + 1].fs # NULL
      BY <2>1 DEF Base, Table
    <3>2. mpoint'[k] = mpoint[k] \/ mpoint'[k] = mpoint[k + 1]
      BY <1>10 DEF Moved
    <3> QED
      BY <3>1, <3>2
  <2> QED
    BY <1>5, <2>2 DEF Table, Below
<1>12. n \in 0 .. NBMAX_MOUNTINGPOINT
  BY <1>2, <1>3
<1>13. owned' \subseteq Blk
  BY <1>4 DEF Base, TypeOK
<1>14. path' \in [Proc -> [Fd -> (Dir \X File) \cup {<<>>}]]
  BY <1>1, ForgetIs DEF Base
<1>15. TypeOK'
  BY <1>1, <1>5, <1>10, <1>12, <1>13, <1>14 DEF TypeOK, Base, Entry
<1> QED
  BY <1>1, <1>3, <1>4, <1>5, <1>10, <1>11, <1>15 DEF Base

LEMMA BaseInit == Init => Base
<1> SUFFICES ASSUME Init PROVE Base
  OBVIOUS
<1>1. NBMAX_MOUNTINGPOINT \in Nat /\ NBMAX_MOUNTINGPOINT >= 2 /\ NBMAX_NODE \in Nat
  BY SizeAssumption
<1>2. PICK t \in Blk, d \in Blk :
        /\ owned = {t, d}
        /\ mpoint = [i \in MSlot |->
             CASE i = 0 -> [name |-> TmpDir, type |-> "VFILES", fs |-> t]
               [] i = 1 -> [name |-> DevDir, type |-> "DEVICES", fs |-> d]
               [] OTHER -> [name |-> TmpDir, type |-> "VFILES", fs |-> NULL]]
  BY DEF Init
<1>3. t # NULL /\ d # NULL /\ TmpDir \in Dir /\ DevDir \in Dir
  BY NameAssumption
<1>4. \A i \in MSlot :
        /\ mpoint[i] \in [name : Dir, type : FsType, fs : Pointer]
        /\ i < 2 => mpoint[i].fs # NULL
  <2> SUFFICES ASSUME NEW i \in MSlot
               PROVE  /\ mpoint[i] \in [name : Dir, type : FsType, fs : Pointer]
                      /\ i < 2 => mpoint[i].fs # NULL
    OBVIOUS
  <2>1. CASE i = 0
    <3>1. mpoint[i] = [name |-> TmpDir, type |-> "VFILES", fs |-> t]
      BY <1>2, <2>1
    <3>2. mpoint[i] \in [name : Dir, type : FsType, fs : Pointer] /\ mpoint[i].fs = t
      BY <1>3, <3>1 DEF FsType, Pointer
    <3> QED
      BY <1>3, <2>1, <3>2
  <2>2. CASE i = 1
    <3>1. mpoint[i] = [name |-> DevDir, type |-> "DEVICES", fs |-> d]
      BY <1>2, <2>2
    <3>2. mpoint[i] \in [name : Dir, type : FsType, fs : Pointer] /\ mpoint[i].fs = d
      BY <1>3, <3>1 DEF FsType, Pointer
    <3> QED
      BY <1>3, <2>2, <3>2
  <2>3. CASE i # 0 /\ i # 1
    <3>1. mpoint[i] = [name |-> TmpDir, type |-> "VFILES", fs |-> NULL]
      BY <1>2, <2>3
    <3>2. mpoint[i] \in [name : Dir, type : FsType, fs : Pointer] /\ mpoint[i].fs = NULL
      BY <1>3, <3>1 DEF FsType, Pointer
    <3>3. ~(i < 2)
      BY <2>3 DEF MSlot
    <3> QED
      BY <3>2, <3>3
  <2> QED
    BY <2>1, <2>2, <2>3
<1>5. Table /\ nbmountpoints \in 0 .. NBMAX_MOUNTINGPOINT
  <2>1. nbmountpoints = 2
    BY DEF Init
  <2>2. \A i \in Below(2) : i \in MSlot /\ i < 2
    BY <1>1 DEF Below, MSlot
  <2> QED
    BY <1>1, <1>4, <2>1, <2>2 DEF Table
<1>6. mpoint \in [MSlot -> [name : Dir, type : FsType, fs : Pointer]]
  <2>1. mpoint = [i \in MSlot |-> mpoint[i]]
    BY <1>2
  <2> QED
    BY <1>4, <2>1
<1>7. fs \in [Blk -> [list : [NSlot -> Pointer], nb : 0 .. NBMAX_NODE]]
  <2>1. 0 \in 0 .. NBMAX_NODE
    BY <1>1
  <2>2. EmptyFs \in [list : [NSlot -> Pointer], nb : 0 .. NBMAX_NODE]
    BY <2>1 DEF EmptyFs, Pointer
  <2> QED
    BY <2>2 DEF Init
<1>8. /\ name \in [Blk -> File] /\ fd_table \in [Proc -> [Fd -> Pointer]] /\ owned \subseteq Blk
      /\ path \in [Proc -> [Fd -> (Dir \X File) \cup {<<>>}]] /\ spoilt \in BOOLEAN
  <2>1. (CHOOSE f \in File : TRUE) \in File
    BY NameAssumption
  <2> QED
    BY <1>2, <2>1 DEF Init, NoFds, Pointer
<1> QED
  BY <1>5, <1>6, <1>7, <1>8 DEF Base, TypeOK

LEMMA CallBase ==
  ASSUME Base, Call
  PROVE  Base'
<1>1. ASSUME NEW d \in Dir, NEW t \in FsType, NEW b \in Blk, Mount(d, t, b) PROVE Base'
  BY <1>1, MountedIs
<1>2. ASSUME NEW d \in Dir, Unmount(d) PROVE Base'
  BY <1>2, UnmountedIs
<1>3. ASSUME NEW p \in Proc, NEW d \in Dir, NEW f \in File, Open(p, d, f) PROVE Base'
  <2>1. NodeAt(d, f) \in Pointer
    <3>1. FsAt(d) \in Blk /\ Entries(FsAt(d), f) # {}
      BY <1>3, LookupIs DEF Open, Exists
    <3>2. Least(Entries(FsAt(d), f)) \in Below(fs[FsAt(d)].nb)
      BY <3>1, EntryIs
    <3>3. Below(fs[FsAt(d)].nb) \subseteq NSlot
      BY <3>1, SizeAssumption DEF Below, NSlot, Base, TypeOK
    <3>4. fs[FsAt(d)].list \in [NSlot -> Pointer]
      BY <3>1 DEF Base, TypeOK
    <3> QED
      BY <3>2, <3>3, <3>4 DEF NodeAt
  <2>2. fd_table' \in [Proc -> [Fd -> Pointer]] /\ path' \in [Proc -> [Fd -> (Dir \X File) \cup {<<>>}]]
    BY <1>3, <2>1, GrantIs DEF Open, Base
  <2> QED
    BY <1>3, <2>2 DEF Open, Base, TypeOK, Table, Below
<1>4. ASSUME NEW s \in Blk, NEW b \in Blk, NEW f \in File, fs[s].nb < NBMAX_NODE,
             Enter(s, b, f), UNCHANGED <<mpoint, nbmountpoints, spoilt>>,
             fd_table' \in [Proc -> [Fd -> Pointer]],
             path' \in [Proc -> [Fd -> (Dir \X File) \cup {<<>>}]]
      PROVE  Base'
  BY <1>4, EnterIs DEF Base, TypeOK, Table, Below
<1>5. ASSUME NEW p \in Proc, NEW d \in Dir, NEW f \in File, NEW b \in Blk, OpenCreate(p, d, f, b)
      PROVE  Base'
  <2>1. FsAt(d) \in Blk
    BY <1>5, LookupIs DEF OpenCreate, Mounted
  <2>2. fd_table' \in [Proc -> [Fd -> Pointer]] /\ path' \in [Proc -> [Fd -> (Dir \X File) \cup {<<>>}]]
    BY <1>5, GrantIs DEF OpenCreate, Base, Pointer
  <2> QED
    BY <1>4, <1>5, <2>1, <2>2 DEF OpenCreate
<1>6. ASSUME NEW d \in Dir, NEW f \in File, NEW b \in Blk, Insmod(d, f, b) PROVE Base'
  <2>1. FsAt(d) \in Blk
    BY <1>6, LookupIs DEF Insmod, Mounted
  <2>2. fs[FsAt(d)].nb < NBMAX_NODE
    BY <1>6, <2>1, SizeAssumption DEF Insmod, Base, TypeOK
  <2> QED
    BY <1>4, <1>6, <2>1, <2>2 DEF Insmod, Base, TypeOK
<1>7. ASSUME NEW d \in Dir, NEW f \in File, NEW clear, Drop(d, f, clear) PROVE Base'
  <2>1. PICK s \in Blk : s = FsAt(d) /\ Entries(s, f) # {}
    BY <1>7, LookupIs DEF Drop, Exists
  <2>2. PICK j \in Below(fs[s].nb) : j = Least(Entries(s, f))
    BY <2>1, EntryIs
  <2>3. /\ UNCHANGED <<mpoint, nbmountpoints, name, fd_table, spoilt>> /\ Forget({<<d, f>>})
        /\ fs' \in [Blk -> [list : [NSlot -> Pointer], nb : 0 .. NBMAX_NODE]]
        /\ owned' \subseteq owned
    BY <1>7, <2>1, <2>2, DropIs DEF Gone
  <2>4. path' \in [Proc -> [Fd -> (Dir \X File) \cup {<<>>}]]
    BY <2>3, ForgetIs DEF Base
  <2> QED
    BY <2>3, <2>4 DEF Base, TypeOK, Table, Below
<1>8. ASSUME NEW d \in Dir, NEW f \in File, RemoveFile(d, f) \/ RemoveDevice(d, f) PROVE Base'
  BY <1>7, <1>8 DEF RemoveFile, RemoveDevice
<1>9. ASSUME NEW p \in Proc, NEW k \in Fd, Close(p, k) PROVE Base'
  <2>1. fd_table' \in [Proc -> [Fd -> Pointer]] /\ path' \in [Proc -> [Fd -> (Dir \X File) \cup {<<>>}]]
    BY <1>9 DEF Close, Base, TypeOK, Pointer
  <2> QED
    BY <1>9, <2>1 DEF Close, Base, TypeOK, Table, Below
<1>10. ASSUME NEW p \in Proc, NewProcess(p) PROVE Base'
  <2>1. fd_table' \in [Proc -> [Fd -> Pointer]] /\ path' \in [Proc -> [Fd -> (Dir \X File) \cup {<<>>}]]
    BY <1>10 DEF NewProcess, NoFds, Base, TypeOK, Pointer
  <2> QED
    BY <1>10, <2>1 DEF NewProcess, Base, TypeOK, Table, Below
<1> QED
  BY <1>1, <1>2, <1>3, <1>5, <1>6, <1>8, <1>9, <1>10 DEF Call

THEOREM BaseCorrect == Spec => []Base
<1>1. Init => Base
  BY BaseInit
<1>2. Base /\ [Next]_vars => Base'
  <2>1. Base /\ UNCHANGED vars => Base'
    BY DEF vars, Base, TypeOK, Table, Below
  <2> QED
    BY <2>1, CallBase DEF Next
<1> QED
  BY <1>1, <1>2, PTL DEF Spec

\* Tables, counts and pointers keep their types (vfs.h, vffs.h, devfs.h): no
\* list and no count runs past its end, whatever order mount points go in.
THEOREM VfsTypeCorrect == Spec => []TypeOK
<1>1. Base => TypeOK
  BY DEF Base
<1> QED
  BY <1>1, BaseCorrect, PTL

-----------------------------------------------------------------------------
(***************************************************************************)
(* Every block is owned once.  The invariant needs that no file system is  *)
(* listed as a node: a block that were both would be freed twice by one    *)
(* unmount.                                                                *)
(***************************************************************************)
Distinct(b) == \A i, j \in Below(fs[b].nb) : i # j => fs[b].list[i] # fs[b].list[j]

Once ==
  /\ \A i, j \in Below(nbmountpoints) : i # j => mpoint[i].fs # mpoint[j].fs
  /\ \A b \in MountedFs : Distinct(b)
  /\ \A b, c \in MountedFs : b # c => Listed(b) \cap Listed(c) = {}
  /\ \A x : x \in owned <=> x \in MountedFs \/ \E b \in MountedFs : x \in Listed(b)
  /\ \A b, c \in MountedFs : b \notin Listed(c)

Ownership == Base /\ Once

LEMMA OwnedOnceIs == Ownership => OwnedOnce
<1> SUFFICES ASSUME Ownership PROVE OwnedOnce
  OBVIOUS
<1>1. MountedFs \ {NULL} = MountedFs
  BY MountIs, NameAssumption DEF Ownership
<1>2. owned = MountedFs \cup UNION {Listed(b) : b \in MountedFs}
  <2>1. \A x : x \in owned <=> x \in MountedFs \/ \E b \in MountedFs : x \in Listed(b)
    BY DEF Ownership, Once
  <2> QED
    BY <2>1
<1> QED
  BY <1>1, <1>2 DEF OwnedOnce, Ownership, Once, Distinct

LEMMA OwnedIs ==
  ASSUME Ownership
  PROVE  \A c \in MountedFs : /\ c \in owned /\ Listed(c) \subseteq owned
                              /\ Listed(c) \subseteq Blk /\ Listed(c) \subseteq Nodes(c)
<1> SUFFICES ASSUME NEW c \in MountedFs
             PROVE  /\ c \in owned /\ Listed(c) \subseteq owned
                    /\ Listed(c) \subseteq Blk /\ Listed(c) \subseteq Nodes(c)
  OBVIOUS
<1>1. c \in owned /\ Listed(c) \subseteq owned
  BY DEF Ownership, Once
<1>2. Listed(c) \subseteq Blk
  BY <1>1 DEF Ownership, Base, TypeOK
<1>3. Below(fs[c].nb) \subseteq NSlot
  <2>1. c \in Blk /\ NBMAX_NODE \in Nat
    BY MountIs DEF Ownership
  <2>2. fs[c].nb \in 0 .. NBMAX_NODE
    BY <2>1 DEF Ownership, Base, TypeOK
  <2> QED
    BY <2>1, <2>2 DEF Below, NSlot
<1> QED
  BY <1>1, <1>2, <1>3, NameAssumption DEF Listed, Nodes

\* Nothing but the open files changes.
LEMMA OwnershipKept ==
  ASSUME Ownership, Base', UNCHANGED <<owned, mpoint, nbmountpoints, fs>>
  PROVE  Ownership' /\ MountedFs' = MountedFs /\ \A b \in Blk : Listed(b)' = Listed(b)
<1>1. MountedFs' = MountedFs /\ \A b : Listed(b)' = Listed(b) /\ (Distinct(b) => Distinct(b)')
  BY DEF MountedFs, Listed, Distinct, Below
<1>2. \A i, j \in Below(nbmountpoints)' : i # j => mpoint'[i].fs # mpoint'[j].fs
  BY DEF Ownership, Once, Below
<1>3. Once'
  BY <1>1, <1>2 DEF Ownership, Once
<1> QED
  BY <1>1, <1>3 DEF Ownership

\* A file system is added, with nothing in its list.
LEMMA OwnershipMounted ==
  ASSUME Ownership, NEW d \in Dir, NEW t \in FsType, NEW b \in Blk, Mount(d, t, b), ~spoilt'
  PROVE  /\ Ownership'
         /\ b \notin MountedFs /\ MountedFs' = MountedFs \cup {b}
         /\ \A c \in MountedFs : Listed(c)' = Listed(c)
<1> DEFINE n == nbmountpoints
<1>1. /\ Base /\ Base' /\ n \in Nat /\ MountedFs \subseteq Blk
      /\ b \notin owned /\ owned' = owned \cup {b}
      /\ nbmountpoints' = n + 1
      /\ mpoint'[n].fs = b
      /\ \A i \in Below(n) : mpoint'[i].fs = mpoint[i].fs
      /\ fs'[b].nb = 0 /\ \A c \in Blk \ {b} : fs'[c] = fs[c]
  <2>1. Base /\ n \in Nat /\ MountedFs \subseteq Blk
    BY MountIs DEF Ownership
  <2>2. /\ Base' /\ b \notin owned /\ owned' = owned \cup {b}
        /\ nbmountpoints' = n + 1
        /\ mpoint'[n].fs = b
        /\ \A i \in Below(n) : mpoint'[i] = mpoint[i]
        /\ fs'[b].nb = 0 /\ \A c \in Blk \ {b} : fs'[c] = fs[c]
    <3>1. /\ Base'
          /\ b \notin owned /\ owned' = owned \cup {b}
          /\ nbmountpoints' = nbmountpoints + 1 /\ nbmountpoints < NBMAX_MOUNTINGPOINT
          /\ ~spoilt' => /\ mpoint'[nbmountpoints] = [name |-> d, type |-> t, fs |-> b]
                         /\ mpoint'[nbmountpoints].fs = b
          /\ \A i \in Below(nbmountpoints) : mpoint'[i] = mpoint[i]
          /\ fs'[b].nb = 0 /\ \A c \in Blk \ {b} : fs'[c] = fs[c]
      BY <2>1, MountedIs
    <3> QED
      BY <3>1
  <2> QED
    BY <2>1, <2>2
<1>2. Below(n + 1) = Below(n) \cup {n} /\ n \notin Below(n)
  BY <1>1 DEF Below
<1>3. b \notin MountedFs /\ \A c \in MountedFs : b \notin Listed(c)
  BY <1>1, OwnedIs
<1>4. MountedFs' = MountedFs \cup {b}
  BY <1>1, <1>2 DEF MountedFs
<1>5. \A c \in MountedFs : Listed(c)' = Listed(c) /\ (Distinct(c) => Distinct(c)')
  BY <1>1, <1>3 DEF Listed, Distinct
<1>6. Listed(b)' = {} /\ Distinct(b)'
  <2>1. Below(fs'[b].nb) = {}
    BY <1>1 DEF Below
  <2> QED
    BY <2>1 DEF Listed, Distinct, Below
<1>7. \A i, j \in Below(n + 1) : i # j => mpoint'[i].fs # mpoint'[j].fs
  <2>1. \A i \in Below(n) : mpoint[i].fs # b
    BY <1>3 DEF MountedFs
  <2>2. \A i, j \in Below(n) : i # j => mpoint[i].fs # mpoint[j].fs
    BY DEF Ownership, Once
  <2> QED
    BY <1>1, <1>2, <2>1, <2>2
<1>8. /\ \A c \in MountedFs : Distinct(c)
      /\ \A c, e \in MountedFs : c # e => Listed(c) \cap Listed(e) = {}
      /\ \A x : x \in owned <=> x \in MountedFs \/ \E c \in MountedFs : x \in Listed(c)
      /\ \A c, e \in MountedFs : c \notin Listed(e)
  BY DEF Ownership, Once
<1>9. \A c \in MountedFs' : Distinct(c)'
  BY <1>4, <1>5, <1>6, <1>8
<1>10. \A c, e \in MountedFs' : c # e => Listed(c)' \cap Listed(e)' = {}
  BY <1>4, <1>5, <1>6, <1>8
<1>11. \A x : x \in owned' <=> x \in MountedFs' \/ \E c \in MountedFs' : x \in Listed(c)'
  BY <1>1, <1>4, <1>5, <1>6, <1>8
<1>12. \A c, e \in MountedFs' : c \notin Listed(e)'
  BY <1>3, <1>4, <1>5, <1>6, <1>8
<1>13. \A i, j \in Below(nbmountpoints)' : i # j => mpoint'[i].fs # mpoint'[j].fs
  BY <1>1, <1>7 DEF Below
<1>14. Once'
  BY <1>9, <1>10, <1>11, <1>12, <1>13 DEF Once
<1> QED
  BY <1>1, <1>3, <1>4, <1>5, <1>14 DEF Ownership

\* A file system goes, with all that its list holds and no more.
LEMMA OwnershipUnmounted ==
  ASSUME Ownership, NEW d \in Dir, Unmount(d), ~spoilt'
  PROVE  Ownership'
<1>1. PICK i : i = Least(Mounts(d))
  OBVIOUS
<1>2. PICK n : n = nbmountpoints - 1
  OBVIOUS
<1> DEFINE b == mpoint[i].fs
<1>3. /\ Base /\ Base' /\ MountedFs \subseteq Blk
      /\ n \in Nat /\ i \in 0 .. n /\ nbmountpoints' = n /\ nbmountpoints = n + 1
      /\ Moved(mpoint, mpoint', i, n)
      /\ owned' = owned \ (Nodes(b) \cup {b})
      /\ Stale(b) = {}
      /\ UNCHANGED <<fs, name, fd_table>>
  BY <1>1, <1>2, UnmountedIs, MountIs DEF Ownership
<1>4. PICK l : l = [k \in Below(n + 1) |-> mpoint[k].fs]
  OBVIOUS
<1>5. PICK m : m = [k \in Below(n) |-> mpoint'[k].fs]
  OBVIOUS
<1>6. MountedFs = {l[k] : k \in Below(n + 1)} /\ MountedFs' = {m[k] : k \in Below(n)}
  BY <1>3, <1>4, <1>5 DEF MountedFs, Below
<1>7. i \in Below(n + 1) /\ l[i] = b
  BY <1>3, <1>4 DEF Below
<1>8. NoRepeat(l, n + 1)
  BY <1>3, <1>4 DEF NoRepeat, Ownership, Once, Below
<1>9. Moved(l, m, i, n)
  <2>1. \A k \in Below(n) : k \in Below(n + 1) /\ k + 1 \in Below(n + 1)
    BY <1>3 DEF Below
  <2> QED
    BY <1>3, <1>4, <1>5, <2>1 DEF Moved
<1>10. /\ \A x : Holds(m, n, x) <=> x # b /\ Holds(l, n + 1, x)
       /\ NoRepeat(m, n)
  BY <1>3, <1>7, <1>8, <1>9, Shifted
<1>11. b \in MountedFs
  BY <1>6, <1>7
<1>12. MountedFs' = MountedFs \ {b}
  <2>1. \A x : x \in MountedFs <=> Holds(l, n + 1, x)
    BY <1>6 DEF Holds
  <2>2. \A x : x \in MountedFs' <=> Holds(m, n, x)
    BY <1>6 DEF Holds
  <2> QED
    BY <1>10, <2>1, <2>2
<1>13. Nodes(b) = Listed(b)
  <2>1. Listed(b) \subseteq Nodes(b)
    BY <1>11, OwnedIs
  <2>2. Nodes(b) \subseteq Listed(b) \cup Stale(b)
    BY DEF Nodes, Listed, Stale
  <2> QED
    BY <1>3, <2>1, <2>2
<1> HIDE DEF b
<1>14. \A c : Listed(c)' = Listed(c) /\ (Distinct(c) => Distinct(c)')
  BY <1>3 DEF Listed, Distinct
<1>15. /\ \A c \in MountedFs : Distinct(c)
       /\ \A c, e \in MountedFs : c # e => Listed(c) \cap Listed(e) = {}
       /\ \A x : x \in owned <=> x \in MountedFs \/ \E c \in MountedFs : x \in Listed(c)
       /\ \A c, e \in MountedFs : c \notin Listed(e)
  BY DEF Ownership, Once
<1>16. \A j, k \in Below(nbmountpoints)' : j # k => mpoint'[j].fs # mpoint'[k].fs
  BY <1>3, <1>5, <1>10 DEF NoRepeat, Below
<1>17. \A c \in MountedFs' : Distinct(c)'
  BY <1>12, <1>14, <1>15
<1>18. \A c, e \in MountedFs' : c # e => Listed(c)' \cap Listed(e)' = {}
  BY <1>12, <1>14, <1>15
<1>19. \A x : x \in owned' <=> x \in MountedFs' \/ \E c \in MountedFs' : x \in Listed(c)'
  <2> SUFFICES ASSUME NEW x
               PROVE  x \in owned' <=> x \in MountedFs' \/ \E c \in MountedFs' : x \in Listed(c)'
    OBVIOUS
  <2>1. x \in owned' <=> x \in owned /\ x \notin Listed(b) /\ x # b
    BY <1>3, <1>13
  <2>2. CASE x \in MountedFs
    BY <1>11, <1>12, <1>14, <1>15, <2>1, <2>2
  <2>3. CASE x \notin MountedFs
    BY <1>11, <1>12, <1>14, <1>15, <2>1, <2>3
  <2> QED
    BY <2>2, <2>3
<1>20. \A c, e \in MountedFs' : c \notin Listed(e)'
  BY <1>12, <1>14, <1>15
<1>21. Once'
  BY <1>16, <1>17, <1>18, <1>19, <1>20 DEF Once
<1> QED
  BY <1>3, <1>21 DEF Ownership

\* A block that nothing owned becomes a node of one list.
LEMMA OwnershipEntered ==
  ASSUME Ownership, Base', NEW s \in MountedFs, NEW b \in Blk, NEW f \in File,
         fs[s].nb < NBMAX_NODE, Enter(s, b, f), UNCHANGED <<mpoint, nbmountpoints>>
  PROVE  /\ Ownership' /\ MountedFs' = MountedFs
         /\ \A c \in MountedFs : Listed(c) \subseteq Listed(c)'
         /\ b \in Listed(s)'
<1> DEFINE n == fs[s].nb
<1>1. s \in Blk /\ MountedFs \subseteq Blk /\ Base
  BY MountIs DEF Ownership
<1>2. n \in Nat
  BY <1>1 DEF Base, TypeOK
<1>3. /\ b \notin owned /\ owned' = owned \cup {b}
      /\ fs'[s].nb = n + 1
      /\ \A j \in Below(n) : fs'[s].list[j] = fs[s].list[j]
      /\ fs'[s].list[n] = b
      /\ \A c \in Blk \ {s} : fs'[c] = fs[c]
  BY <1>1, EnterIs
<1>4. Below(n + 1) = Below(n) \cup {n} /\ n \notin Below(n)
  BY <1>2 DEF Below
<1>5. MountedFs' = MountedFs
  BY DEF MountedFs, Below
<1>6. b \notin MountedFs /\ \A c \in MountedFs : b \notin Listed(c)
  BY <1>3, OwnedIs
<1>7. Listed(s)' = Listed(s) \cup {b}
  <2>1. Listed(s)' = {fs'[s].list[j] : j \in Below(n + 1)}
    BY <1>3 DEF Listed, Below
  <2> QED
    BY <1>3, <1>4, <2>1 DEF Listed
<1>8. \A c \in MountedFs \ {s} : Listed(c)' = Listed(c) /\ (Distinct(c) => Distinct(c)')
  BY <1>1, <1>3 DEF Listed, Distinct, Below
<1>9. Distinct(s)'
  <2>1. \A i \in Below(n) : fs[s].list[i] # b
    BY <1>6 DEF Listed
  <2>2. \A i, j \in Below(n) : i # j => fs[s].list[i] # fs[s].list[j]
    BY DEF Ownership, Once, Distinct
  <2>3. \A i, j \in Below(n + 1) : i # j => fs'[s].list[i] # fs'[s].list[j]
    BY <1>3, <1>4, <2>1, <2>2
  <2> QED
    BY <1>3, <2>3 DEF Distinct, Below
<1> HIDE DEF n
<1>10. /\ \A c \in MountedFs : Distinct(c)
       /\ \A c, e \in MountedFs : c # e => Listed(c) \cap Listed(e) = {}
       /\ \A x : x \in owned <=> x \in MountedFs \/ \E c \in MountedFs : x \in Listed(c)
       /\ \A c, e \in MountedFs : c \notin Listed(e)
  BY DEF Ownership, Once
<1>11. \A i, j \in Below(nbmountpoints)' : i # j => mpoint'[i].fs # mpoint'[j].fs
  BY DEF Ownership, Once, Below
<1>12. \A c \in MountedFs' : Distinct(c)'
  BY <1>5, <1>8, <1>9, <1>10
<1>13. \A c, e \in MountedFs' : c # e => Listed(c)' \cap Listed(e)' = {}
  BY <1>5, <1>6, <1>7, <1>8, <1>10
<1>14. \A x : x \in owned' <=> x \in MountedFs' \/ \E c \in MountedFs' : x \in Listed(c)'
  BY <1>3, <1>5, <1>7, <1>8, <1>10
<1>15. \A c, e \in MountedFs' : c \notin Listed(e)'
  BY <1>5, <1>6, <1>7, <1>8, <1>10
<1>16. Once'
  BY <1>11, <1>12, <1>13, <1>14, <1>15 DEF Once
<1> QED
  BY <1>5, <1>7, <1>8, <1>16 DEF Ownership

\* A node goes from the one list that holds it.
LEMMA OwnershipDropped ==
  ASSUME Ownership, Base', NEW d \in Dir, NEW f \in File, NEW clear, Drop(d, f, clear)
  PROVE  Ownership'
<1>1. PICK s \in MountedFs : s = FsAt(d) /\ Entries(s, f) # {}
  <2>1. Base /\ Mounts(d) # {} /\ Entries(FsAt(d), f) # {}
    BY DEF Drop, Exists, Ownership
  <2> QED
    BY <2>1, LookupIs
<1>2. PICK j \in Below(fs[s].nb) : j = Least(Entries(s, f))
  BY <1>1, EntryIs, MountIs DEF Ownership
<1> DEFINE n == fs[s].nb - 1
           l == fs[s].list
           x == l[j]
           m == fs'[s].list
<1>3. s \in Blk /\ MountedFs \subseteq Blk /\ Base
  BY MountIs DEF Ownership
<1>4. n \in Nat /\ n < NBMAX_NODE /\ fs[s].nb = n + 1 /\ l \in [NSlot -> Pointer] /\ j \in 0 .. n
  BY <1>3, SizeAssumption DEF Base, TypeOK, Below
<1>5. /\ owned' = owned \ {x}
      /\ fs'[s].nb = n
      /\ Moved(l, m, j, n)
      /\ \A c \in Blk \ {s} : fs'[c] = fs[c]
  <2> HIDE DEF n, l, x, m
  <2>1. s = FsAt(d) /\ j = Least(Entries(s, f))
    BY <1>1, <1>2
  <2>2. Gone(s, j)
    BY <1>3, <2>1, DropIs
  <2> QED
    BY <2>2 DEF Gone, n, l, x, m
<1>6. UNCHANGED <<mpoint, nbmountpoints, fd_table>>
  BY DEF Drop
<1>7. MountedFs' = MountedFs
  BY <1>6 DEF MountedFs, Below
<1>8. Listed(s) = {l[k] : k \in Below(n + 1)} /\ x \in Listed(s)
      /\ \A i, k \in Below(n + 1) : i # k => l[i] # l[k]
  BY <1>4 DEF Listed, Ownership, Once, Distinct
<1>9. /\ \A y : Holds(m, n, y) <=> y # x /\ Holds(l, n + 1, y)
      /\ NoRepeat(m, n)
  <2>1. NoRepeat(l, n + 1)
    BY <1>8 DEF NoRepeat
  <2> HIDE DEF l, n, m
  <2> QED
    BY <1>4, <1>5, <2>1, Shifted
<1>10. Listed(s)' = Listed(s) \ {x}
  <2>1. Listed(s)' = {fs'[s].list[k] : k \in Below(n)}
    BY <1>5 DEF Listed, Below
  <2> QED
    BY <1>5, <1>8, <1>9, <2>1 DEF Holds
<1>11. Distinct(s)'
  BY <1>5, <1>9 DEF Distinct, NoRepeat, Below
<1> HIDE DEF n, l, x
<1>12. \A c \in MountedFs \ {s} : Listed(c)' = Listed(c) /\ (Distinct(c) => Distinct(c)')
  BY <1>3, <1>5 DEF Listed, Distinct, Below
<1>13. /\ \A c \in MountedFs : Distinct(c)
       /\ \A c, e \in MountedFs : c # e => Listed(c) \cap Listed(e) = {}
       /\ \A y : y \in owned <=> y \in MountedFs \/ \E c \in MountedFs : y \in Listed(c)
       /\ \A c, e \in MountedFs : c \notin Listed(e)
  BY DEF Ownership, Once
<1>14. \A i, k \in Below(nbmountpoints)' : i # k => mpoint'[i].fs # mpoint'[k].fs
  BY <1>6 DEF Ownership, Once, Below
<1>15. \A c \in MountedFs' : Distinct(c)'
  BY <1>7, <1>11, <1>12, <1>13
<1>16. \A c, e \in MountedFs' : c # e => Listed(c)' \cap Listed(e)' = {}
  BY <1>7, <1>10, <1>12, <1>13
<1>17. \A y : y \in owned' <=> y \in MountedFs' \/ \E c \in MountedFs' : y \in Listed(c)'
  <2> SUFFICES ASSUME NEW y
               PROVE  y \in owned' <=> y \in MountedFs' \/ \E c \in MountedFs' : y \in Listed(c)'
    OBVIOUS
  <2>1. CASE y = x
    BY <1>5, <1>7, <1>8, <1>10, <1>12, <1>13, <2>1
  <2>2. CASE y # x
    BY <1>5, <1>7, <1>10, <1>12, <1>13, <2>2
  <2> QED
    BY <2>1, <2>2
<1>18. \A c, e \in MountedFs' : c \notin Listed(e)'
  BY <1>7, <1>10, <1>12, <1>13
<1>19. Once'
  BY <1>14, <1>15, <1>16, <1>17, <1>18 DEF Once
<1> QED
  BY <1>19 DEF Ownership

LEMMA OwnershipInit == Init => Ownership
<1> SUFFICES ASSUME Init PROVE Ownership
  OBVIOUS
<1>1. PICK t \in Blk, d \in Blk :
        /\ t # d /\ owned = {t, d}
        /\ mpoint = [i \in MSlot |->
             CASE i = 0 -> [name |-> TmpDir, type |-> "VFILES", fs |-> t]
               [] i = 1 -> [name |-> DevDir, type |-> "DEVICES", fs |-> d]
               [] OTHER -> [name |-> TmpDir, type |-> "VFILES", fs |-> NULL]]
  BY DEF Init
<1>2. nbmountpoints = 2 /\ Below(nbmountpoints) = {0, 1} /\ 0 \in MSlot /\ 1 \in MSlot
  BY SizeAssumption DEF Init, Below, MSlot
<1>3. mpoint[0].fs = t /\ mpoint[1].fs = d
  <2>1. mpoint[0] = [name |-> TmpDir, type |-> "VFILES", fs |-> t]
    BY <1>1, <1>2
  <2>2. mpoint[1] = [name |-> DevDir, type |-> "DEVICES", fs |-> d]
    BY <1>1, <1>2
  <2> QED
    BY <2>1, <2>2
<1>4. MountedFs = {t, d}
  BY <1>2, <1>3 DEF MountedFs
<1>5. \A b \in Blk : Listed(b) = {} /\ Distinct(b)
  BY DEF Init, EmptyFs, Listed, Distinct, Below
<1>6. Once
  BY <1>1, <1>2, <1>3, <1>4, <1>5 DEF Once
<1> QED
  BY <1>6, BaseInit DEF Ownership

LEMMA OwnershipStep ==
  ASSUME Ownership, Call, ~spoilt'
  PROVE  Ownership'
<1>1. Base /\ Base'
  BY CallBase DEF Ownership
<1>2. ASSUME NEW d \in Dir, NEW t \in FsType, NEW b \in Blk, Mount(d, t, b) PROVE Ownership'
  BY <1>2, OwnershipMounted
<1>3. ASSUME NEW d \in Dir, Unmount(d) PROVE Ownership'
  BY <1>3, OwnershipUnmounted
<1>4. ASSUME NEW p \in Proc, NEW d \in Dir, NEW f \in File, Open(p, d, f) PROVE Ownership'
  BY <1>1, <1>4, OwnershipKept DEF Open
<1>5. ASSUME NEW p \in Proc, NEW d \in Dir, NEW f \in File, NEW b \in Blk, OpenCreate(p, d, f, b)
      PROVE  Ownership'
  <2>1. FsAt(d) \in MountedFs
    BY <1>1, <1>5, LookupIs DEF OpenCreate, Mounted
  <2> QED
    BY <1>1, <1>5, <2>1, OwnershipEntered DEF OpenCreate
<1>6. ASSUME NEW d \in Dir, NEW f \in File, NEW b \in Blk, Insmod(d, f, b) PROVE Ownership'
  <2>1. FsAt(d) \in MountedFs /\ fs[FsAt(d)].nb \in 0 .. NBMAX_NODE
    BY <1>1, <1>6, LookupIs DEF Insmod, Mounted, Base, TypeOK
  <2>2. fs[FsAt(d)].nb < NBMAX_NODE
    BY <1>6, <2>1, SizeAssumption DEF Insmod
  <2> QED
    BY <1>1, <1>6, <2>1, <2>2, OwnershipEntered DEF Insmod
<1>7. ASSUME NEW d \in Dir, NEW f \in File, RemoveFile(d, f) \/ RemoveDevice(d, f) PROVE Ownership'
  BY <1>1, <1>7, OwnershipDropped DEF RemoveFile, RemoveDevice
<1>8. ASSUME NEW p \in Proc, NEW k \in Fd, Close(p, k) PROVE Ownership'
  BY <1>1, <1>8, OwnershipKept DEF Close
<1>9. ASSUME NEW p \in Proc, NewProcess(p) PROVE Ownership'
  BY <1>1, <1>9, OwnershipKept DEF NewProcess
<1> QED
  BY <1>2, <1>3, <1>4, <1>5, <1>6, <1>7, <1>8, <1>9 DEF Call

-----------------------------------------------------------------------------
(***************************************************************************)
(* Where a path leads.  A lookup takes the first match, so it is not       *)
(* enough that a node stays: no other may come before it.                  *)
(***************************************************************************)
LEMMA LeastOf ==
  ASSUME NEW S \in SUBSET Nat, NEW i \in S, \A j \in S : i <= j
  PROVE  Least(S) = i
<1>1. PICK a \in S : a = Least(S) /\ \A j \in S : a <= j
  BY LeastIs
<1>2. a <= i /\ i <= a /\ a \in Nat /\ i \in Nat
  BY <1>1
<1> QED
  BY <1>1, <1>2

\* An entry that does not match goes.
LEMMA FirstMoved ==
  ASSUME NEW n \in Nat, NEW j \in 0 .. n, NEW l, NEW m, Moved(l, m, j, n), NEW X, l[j] \notin X,
         NEW S, S = {k \in Below(n + 1) : l[k] \in X}, S # {},
         NEW T, T = {k \in Below(n) : m[k] \in X}
  PROVE  T # {} /\ m[Least(T)] = l[Least(S)]
<1>1. S \in SUBSET Nat /\ T \in SUBSET Nat
  BY DEF Below
<1>2. PICK a \in S : a = Least(S) /\ \A i \in S : a <= i
  BY <1>1, LeastIs
<1>3. a \in Below(n + 1) /\ l[a] \in X /\ a # j
  BY <1>2
<1>4. \A k \in Below(n) : (k < j => m[k] = l[k]) /\ (~(k < j) => m[k] = l[k + 1])
  BY DEF Moved
<1>5. CASE a < j
  <2>1. a \in Below(n) /\ m[a] = l[a]
    BY <1>3, <1>4, <1>5 DEF Below
  <2>2. a \in T
    BY <1>3, <2>1
  <2>3. ASSUME NEW k \in T, k < a PROVE FALSE
    <3>1. k \in Below(n) /\ k < j /\ m[k] = l[k] /\ k \in Below(n + 1)
      BY <1>3, <1>4, <1>5, <2>3 DEF Below
    <3>2. k \in S
      BY <3>1
    <3> QED
      BY <1>1, <1>2, <2>3, <3>2
  <2>4. \A k \in T : a <= k
    BY <1>1, <1>2, <2>3
  <2>5. Least(T) = a
    BY <1>1, <2>2, <2>4, LeastOf
  <2> QED
    BY <1>2, <2>1, <2>2, <2>5
<1>6. CASE j < a
  <2> DEFINE c == a - 1
  <2>1. c \in Below(n) /\ ~(c < j) /\ c + 1 = a
    BY <1>3, <1>6 DEF Below
  <2> HIDE DEF c
  <2>2. m[c] = l[a]
    BY <1>4, <2>1
  <2>3. c \in T
    BY <1>3, <2>1, <2>2
  <2>4. ASSUME NEW k \in T, k < c PROVE FALSE
    <3>1. k \in Below(n) /\ k \in Below(n + 1) /\ k + 1 \in Below(n + 1) /\ k \in Nat /\ c \in Nat
      BY <2>1 DEF Below
    <3>2. k \in S \/ k + 1 \in S
      BY <1>4, <3>1
    <3>3. k < a /\ k + 1 < a
      BY <2>1, <2>4, <3>1
    <3> QED
      BY <1>1, <1>2, <3>2, <3>3
  <2>5. \A k \in T : c <= k
    BY <1>1, <2>3, <2>4
  <2>6. Least(T) = c
    BY <1>1, <2>3, <2>5, LeastOf
  <2> QED
    BY <1>2, <2>2, <2>3, <2>6
<1> QED
  BY <1>3, <1>5, <1>6 DEF Below

\* An entry is added at the end.
LEMMA FirstAdded ==
  ASSUME NEW n \in Nat, NEW S, S \subseteq Below(n), S # {},
         NEW T, S \subseteq T, T \subseteq S \cup {n}
  PROVE  Least(T) = Least(S) /\ Least(S) \in Below(n)
<1>1. S \in SUBSET Nat /\ T \in SUBSET Nat
  BY DEF Below
<1>2. PICK a \in S : a = Least(S) /\ \A i \in S : a <= i
  BY <1>1, LeastIs
<1>3. a \in Below(n) /\ a <= n
  BY DEF Below
<1>4. \A i \in T : a <= i
  BY <1>2, <1>3
<1> QED
  BY <1>1, <1>2, <1>3, <1>4, LeastOf

\* A step leaves the first mount point d where it leads, the first entry f
\* of s what it is, and so the path <<d, f>>.
FsKept(d) == Mounts(d) # {} => Mounts(d)' # {} /\ FsAt(d)' = FsAt(d)

First(s, f) == fs[s].list[Least(Entries(s, f))]
EntryKept(s, f) == Entries(s, f) # {} => Entries(s, f)' # {} /\ First(s, f)' = First(s, f)

Kept(d, f) == Exists(d, f) => Exists(d, f)' /\ NodeAt(d, f)' = NodeAt(d, f)

LEMMA KeptIs ==
  ASSUME NEW d, NEW f, FsKept(d), NEW s, s = FsAt(d), Mounts(d) # {} => EntryKept(s, f)
  PROVE  Kept(d, f)
<1> SUFFICES ASSUME Exists(d, f) PROVE Exists(d, f)' /\ NodeAt(d, f)' = NodeAt(d, f)
  BY DEF Kept
<1>1. Mounts(d) # {} /\ Entries(s, f) # {}
  BY DEF Exists
<1>2. Mounts(d)' # {} /\ FsAt(d)' = s
  BY <1>1 DEF FsKept
<1>3. Entries(s, f)' # {} /\ First(s, f)' = First(s, f)
  BY <1>1 DEF EntryKept
<1>4. Entries(FsAt(d), f)' = Entries(s, f)'
  BY <1>2 DEF Entries
<1>5. NodeAt(d, f)' = First(s, f)' /\ NodeAt(d, f) = First(s, f)
  BY <1>2, <1>4 DEF NodeAt, First
<1> QED
  BY <1>2, <1>3, <1>4, <1>5 DEF Exists

LEMMA KeptSame ==
  ASSUME NEW d, NEW f, UNCHANGED <<mpoint, nbmountpoints, fs, name>>
  PROVE  Kept(d, f)
<1>1. Mounts(d)' = Mounts(d)
  BY DEF Mounts, Below
<1>2. FsAt(d)' = FsAt(d)
  BY <1>1 DEF FsAt
<1>3. Entries(FsAt(d), f)' = Entries(FsAt(d), f)
  BY <1>2 DEF Entries, Below
<1>4. NodeAt(d, f)' = NodeAt(d, f)
  BY <1>2, <1>3 DEF NodeAt
<1> QED
  BY <1>1, <1>3, <1>4 DEF Kept, Exists

LEMMA FsSame ==
  ASSUME NEW d, UNCHANGED <<mpoint, nbmountpoints>>
  PROVE  FsKept(d) /\ Mounts(d)' = Mounts(d)
<1>1. Mounts(d)' = Mounts(d)
  BY DEF Mounts, Below
<1>2. FsAt(d)' = FsAt(d)
  BY <1>1 DEF FsAt
<1> QED
  BY <1>1, <1>2 DEF FsKept

\* A list and its names that stay.
LEMMA EntrySame ==
  ASSUME NEW s, NEW f, fs'[s] = fs[s], \A x \in Listed(s) : name'[x] = name[x]
  PROVE  EntryKept(s, f)
<1>1. \A j \in Below(fs[s].nb) : fs[s].list[j] \in Listed(s)
  BY DEF Listed
<1>2. Entries(s, f)' = {j \in Below(fs[s].nb) : name'[fs[s].list[j]] = f}
  BY DEF Entries, Below
<1>3. Entries(s, f)' = Entries(s, f)
  BY <1>1, <1>2 DEF Entries
<1>4. First(s, f)' = First(s, f)
  BY <1>3 DEF First
<1> QED
  BY <1>3, <1>4 DEF EntryKept

\* The new mount point is behind the others.
LEMMA KeptMounted ==
  ASSUME Ownership, NEW d0 \in Dir, NEW t \in FsType, NEW b \in Blk, Mount(d0, t, b), ~spoilt',
         NEW d, NEW f
  PROVE  Kept(d, f)
<1>0. PICK n \in Nat : n = nbmountpoints
  BY MountIs DEF Ownership
<1>1. /\ Base /\ nbmountpoints' = n + 1 /\ name' = name
      /\ \A i \in Below(n) : mpoint'[i] = mpoint[i]
      /\ \A c \in Blk \ {b} : fs'[c] = fs[c]
  <2>1. Base
    BY DEF Ownership
  <2>2. name' = name
    BY DEF Mount
  <2> QED
    BY <1>0, <2>1, <2>2, MountedIs
<1>2. b \notin MountedFs /\ MountedFs \subseteq Blk
  BY <1>1, OwnershipMounted, MountIs
<1> SUFFICES ASSUME Mounts(d) # {} PROVE Kept(d, f)
  BY DEF Kept, Exists
<1>3. Mounts(d)' = {i \in Below(n + 1) : mpoint'[i].name = d}
  BY <1>1 DEF Mounts, Below
<1>4. Mounts(d) = {i \in Below(n) : mpoint[i].name = d}
  BY <1>0 DEF Mounts
<1>5. \A i \in Below(n) : i \in Below(n + 1)
  BY DEF Below
<1>6. \A i \in Below(n + 1) : i \in Below(n) \/ i = n
  BY DEF Below
<1>7. Mounts(d) \subseteq Mounts(d)' /\ Mounts(d)' \subseteq Mounts(d) \cup {n}
  BY <1>1, <1>3, <1>4, <1>5, <1>6
<1>8. PICK S, T : S = Mounts(d) /\ T = Mounts(d)'
  OBVIOUS
<1>9. Least(T) = Least(S) /\ Least(S) \in Below(n)
  BY <1>4, <1>7, <1>8, FirstAdded
<1>10. FsAt(d)' = FsAt(d)
  BY <1>1, <1>8, <1>9 DEF FsAt
<1>11. FsKept(d)
  BY <1>7, <1>10 DEF FsKept
<1>12. PICK s \in MountedFs : s = FsAt(d)
  BY <1>1, LookupIs
<1>13. fs'[s] = fs[s]
  BY <1>1, <1>2
<1>14. EntryKept(s, f)
  BY <1>1, <1>13, EntrySame
<1> QED
  BY <1>11, <1>12, <1>14, KeptIs

\* The mount points behind the one that goes keep their order.
LEMMA KeptUnmounted ==
  ASSUME Ownership, NEW d0 \in Dir, Unmount(d0), NEW d, NEW f, d # d0
  PROVE  Kept(d, f)
<1>1. PICK i : i = Least(Mounts(d0))
  OBVIOUS
<1>2. PICK n : n = nbmountpoints - 1
  OBVIOUS
<1>3. /\ Base /\ n \in Nat /\ i \in 0 .. n /\ nbmountpoints' = n /\ nbmountpoints = n + 1
      /\ Moved(mpoint, mpoint', i, n)
      /\ UNCHANGED <<fs, name>>
  BY <1>1, <1>2, UnmountedIs DEF Ownership
<1> SUFFICES ASSUME Mounts(d) # {} PROVE Kept(d, f)
  BY DEF Kept, Exists
<1> DEFINE X == [name : {d}, type : FsType, fs : Pointer]
<1>4. mpoint[i].name = d0
  <2>1. Mounts(d0) # {} /\ Mounts(d0) \in SUBSET Nat
    BY <1>3 DEF Unmount, Mounts, Below
  <2> QED
    BY <1>1, <2>1, LeastIs DEF Mounts
<1>5. \A k \in MSlot : mpoint[k] \in X <=> mpoint[k].name = d
  <2>1. \A k \in MSlot : mpoint[k] \in [name : Dir, type : FsType, fs : Pointer]
    BY <1>3 DEF Base, TypeOK
  <2> QED
    BY <2>1
<1>6. \A k \in Below(n + 1) : k \in MSlot
  BY <1>3, MountIs
<1>7. \A k \in Below(n) : k \in MSlot
  BY <1>3, <1>6 DEF Below
<1>8. Base'
  BY UnmountedIs, <1>3
<1>9. \A k \in MSlot : mpoint'[k] \in X <=> mpoint'[k].name = d
  <2>1. \A k \in MSlot : mpoint'[k] \in [name : Dir, type : FsType, fs : Pointer]
    BY <1>8 DEF Base, TypeOK
  <2> QED
    BY <2>1
<1>10. mpoint[i] \notin X
  BY <1>4
<1> HIDE DEF X
<1>11. PICK S, T, l, m : S = Mounts(d) /\ T = Mounts(d)' /\ l = mpoint /\ m = mpoint'
  OBVIOUS
<1>12. S = {k \in Below(n + 1) : l[k] \in X}
  BY <1>3, <1>5, <1>6, <1>11 DEF Mounts
<1>13. T = {k \in Below(n) : m[k] \in X}
  <2>1. Mounts(d)' = {k \in Below(n) : mpoint'[k].name = d}
    BY <1>3 DEF Mounts, Below
  <2> QED
    BY <1>7, <1>9, <1>11, <2>1
<1>14. T # {} /\ m[Least(T)] = l[Least(S)]
  BY <1>3, <1>10, <1>11, <1>12, <1>13, FirstMoved
<1>15. FsKept(d)
  BY <1>11, <1>14 DEF FsKept, FsAt
<1>16. \A s : EntryKept(s, f)
  BY <1>3, EntrySame
<1> QED
  BY <1>15, <1>16, KeptIs

\* A new node is behind the others of its list, and is found when no other
\* has its name.
LEMMA KeptEntered ==
  ASSUME Ownership, NEW s \in MountedFs, NEW b \in Blk, NEW f0 \in File,
         fs[s].nb < NBMAX_NODE, Enter(s, b, f0), UNCHANGED <<mpoint, nbmountpoints>>,
         NEW d, NEW f
  PROVE  /\ Kept(d, f)
         /\ Mounts(d) # {} /\ s = FsAt(d) /\ f = f0 /\ ~Exists(d, f) =>
              Exists(d, f)' /\ NodeAt(d, f)' = b
<1>1. s \in Blk /\ MountedFs \subseteq Blk /\ Base
  BY MountIs DEF Ownership
<1>2. PICK n \in Nat : n = fs[s].nb
  BY <1>1 DEF Base, TypeOK
<1>3. /\ b \notin owned /\ fs'[s].nb = n + 1
      /\ \A j \in Below(n) : fs'[s].list[j] = fs[s].list[j]
      /\ fs'[s].list[n] = b
      /\ \A c \in Blk \ {s} : fs'[c] = fs[c]
  BY <1>1, <1>2, EnterIs
<1>4. name'[b] = f0 /\ \A x \in Blk \ {b} : name'[x] = name[x]
  BY <1>1 DEF Enter, Base, TypeOK
<1>5. \A c \in MountedFs : \A x \in Listed(c) : x \in Blk \ {b}
  BY <1>3, OwnedIs
<1>6. \A c \in MountedFs \ {s} : EntryKept(c, f)
  BY <1>1, <1>3, <1>4, <1>5, EntrySame
<1>7. Below(n + 1) = Below(n) \cup {n} /\ n \notin Below(n)
  BY DEF Below
<1>8. Entries(s, f)' = {j \in Below(n + 1) : name'[fs'[s].list[j]] = f}
      /\ Entries(s, f) = {j \in Below(n) : name[fs[s].list[j]] = f}
  BY <1>2, <1>3 DEF Entries, Below
<1>9. \A j \in Below(n) : name'[fs'[s].list[j]] = name[fs[s].list[j]]
  <2>1. \A j \in Below(n) : fs[s].list[j] \in Listed(s)
    BY <1>2 DEF Listed
  <2> QED
    BY <1>3, <1>4, <1>5, <2>1
<1>10. name'[fs'[s].list[n]] = f0
  BY <1>3, <1>4
<1>11. Entries(s, f) \subseteq Entries(s, f)' /\ Entries(s, f)' \subseteq Entries(s, f) \cup {n}
  BY <1>7, <1>8, <1>9
<1>12. Entries(s, f) \subseteq Below(n) /\ (f = f0 => n \in Entries(s, f)')
  BY <1>7, <1>8, <1>10
<1>13. PICK S, T : S = Entries(s, f) /\ T = Entries(s, f)'
  OBVIOUS
<1>14. EntryKept(s, f)
  <2> SUFFICES ASSUME S # {} PROVE Entries(s, f)' # {} /\ First(s, f)' = First(s, f)
    BY <1>13 DEF EntryKept
  <2>1. Least(T) = Least(S) /\ Least(S) \in Below(n)
    BY <1>11, <1>12, <1>13, FirstAdded
  <2> QED
    BY <1>3, <1>11, <1>13, <2>1 DEF First
<1>15. FsKept(d) /\ Mounts(d)' = Mounts(d)
  BY FsSame
<1>16. Kept(d, f)
  <2> SUFFICES ASSUME Mounts(d) # {} PROVE Kept(d, f)
    BY DEF Kept, Exists
  <2>1. PICK c \in MountedFs : c = FsAt(d)
    BY <1>1, LookupIs
  <2>2. EntryKept(c, f)
    BY <1>6, <1>14
  <2> QED
    BY <1>15, <2>1, <2>2, KeptIs
<1>17. ASSUME Mounts(d) # {}, s = FsAt(d), f = f0, ~Exists(d, f)
       PROVE  Exists(d, f)' /\ NodeAt(d, f)' = b
  <2>1. S = {}
    BY <1>13, <1>17 DEF Exists
  <2>2. T = {n}
    BY <1>11, <1>12, <1>13, <1>17, <2>1
  <2>3. Least(T) = n
    BY <2>2, LeastOf
  <2>4. FsAt(d)' = s /\ Mounts(d)' # {}
    BY <1>15, <1>17 DEF FsKept
  <2>5. Entries(FsAt(d), f)' = T
    BY <1>13, <2>4 DEF Entries
  <2>6. NodeAt(d, f)' = fs'[s].list[Least(T)]
    BY <2>4, <2>5 DEF NodeAt
  <2> QED
    BY <1>3, <2>2, <2>3, <2>4, <2>5, <2>6 DEF Exists
<1> QED
  BY <1>16, <1>17

\* The entries behind the one that goes keep their order, and those of other
\* directories are in other lists.
LEMMA KeptDropped ==
  ASSUME Ownership, NEW d0 \in Dir, NEW f0 \in File, NEW clear, Drop(d0, f0, clear),
         NEW d, NEW f, d # d0 \/ f # f0
  PROVE  Kept(d, f)
<1>1. PICK s \in MountedFs : s = FsAt(d0) /\ Entries(s, f0) # {} /\ Mounts(d0) # {}
  <2>1. Base /\ Mounts(d0) # {} /\ Entries(FsAt(d0), f0) # {}
    BY DEF Drop, Exists, Ownership
  <2> QED
    BY <2>1, LookupIs
<1>2. PICK j \in Below(fs[s].nb) : j = Least(Entries(s, f0))
  BY <1>1, EntryIs, MountIs DEF Ownership
<1>3. s \in Blk /\ MountedFs \subseteq Blk /\ Base
  BY MountIs DEF Ownership
<1>4. PICK n \in Nat : fs[s].nb = n + 1 /\ n = fs[s].nb - 1 /\ j \in 0 .. n /\ n < NBMAX_NODE
  <2> DEFINE n == fs[s].nb - 1
  <2>1. n \in Nat /\ fs[s].nb = n + 1 /\ j \in 0 .. n /\ n < NBMAX_NODE
    BY <1>3, SizeAssumption DEF Base, TypeOK, Below
  <2> QED
    BY <2>1
<1>5. Gone(s, j) /\ UNCHANGED <<mpoint, nbmountpoints, name>>
      /\ fs' \in [Blk -> [list : [NSlot -> Pointer], nb : 0 .. NBMAX_NODE]]
  BY <1>1, <1>2, <1>3, DropIs
<1>6. PICK l, m : l = fs[s].list /\ m = fs'[s].list
  OBVIOUS
<1>7. fs'[s].nb = n /\ Moved(l, m, j, n) /\ \A c \in Blk \ {s} : fs'[c] = fs[c]
  BY <1>4, <1>5, <1>6 DEF Gone
<1>8. FsKept(d)
  BY <1>5, FsSame
<1> SUFFICES ASSUME Mounts(d) # {} PROVE Kept(d, f)
  BY DEF Kept, Exists
<1>9. PICK c \in MountedFs : c = FsAt(d)
  BY <1>3, LookupIs
<1>10. CASE c # s
  <2>1. fs'[c] = fs[c]
    BY <1>3, <1>7, <1>10
  <2>2. EntryKept(c, f)
    BY <1>5, <2>1, EntrySame
  <2> QED
    BY <1>8, <1>9, <2>2, KeptIs
<1>11. CASE c = s
  <2>1. /\ Least(Mounts(d)) \in Below(nbmountpoints) /\ mpoint[Least(Mounts(d))].name = d
        /\ Least(Mounts(d0)) \in Below(nbmountpoints) /\ mpoint[Least(Mounts(d0))].name = d0
    <3>1. Mounts(d) \in SUBSET Nat /\ Mounts(d0) \in SUBSET Nat
      BY DEF Mounts, Below
    <3>2. Least(Mounts(d)) \in Mounts(d) /\ Least(Mounts(d0)) \in Mounts(d0)
      BY <1>1, <3>1, LeastIs
    <3> QED
      BY <3>2 DEF Mounts
  <2>2. Least(Mounts(d)) = Least(Mounts(d0))
    <3>1. mpoint[Least(Mounts(d))].fs = mpoint[Least(Mounts(d0))].fs
      BY <1>1, <1>9, <1>11 DEF FsAt
    <3> QED
      BY <2>1, <3>1 DEF Ownership, Once
  <2>3. f # f0
    BY <2>1, <2>2
  <2> DEFINE X == {x \in Pointer : name[x] = f}
  <2>4. l \in [NSlot -> Pointer] /\ m \in [NSlot -> Pointer]
    BY <1>3, <1>5, <1>6 DEF Base, TypeOK
  <2>5. l[j] \notin X
    <3>1. Entries(s, f0) \in SUBSET Nat
      BY <1>4 DEF Entries, Below
    <3>2. j \in Entries(s, f0)
      BY <1>1, <1>2, <3>1, LeastIs
    <3> QED
      BY <1>6, <2>3, <3>2 DEF Entries
  <2>6. \A k \in Below(n + 1) : k \in NSlot
    BY <1>4, SizeAssumption DEF Below, NSlot
  <2>7. \A k \in Below(n) : k \in NSlot
    BY <2>6 DEF Below
  <2>8. PICK S, T : S = Entries(s, f) /\ T = Entries(s, f)'
    OBVIOUS
  <2>9. S = {k \in Below(n + 1) : l[k] \in X}
    BY <1>4, <1>6, <2>4, <2>6, <2>8 DEF Entries
  <2>10. T = {k \in Below(n) : m[k] \in X}
    <3>1. T = {k \in Below(n) : name[m[k]] = f}
      BY <1>5, <1>6, <1>7, <2>8 DEF Entries, Below
    <3> QED
      BY <2>4, <2>7, <3>1
  <2> HIDE DEF X
  <2>11. S # {} => T # {} /\ m[Least(T)] = l[Least(S)]
    <3>1. n \in Nat /\ j \in 0 .. n /\ Moved(l, m, j, n)
      BY <1>4, <1>7
    <3> QED
      BY <2>5, <2>9, <2>10, <3>1, FirstMoved
  <2>12. EntryKept(s, f)
    BY <1>6, <2>8, <2>11 DEF EntryKept, First
  <2> QED
    BY <1>8, <1>9, <1>11, <2>12, KeptIs
<1> QED
  BY <1>10, <1>11

\* FdsFollowPaths, of tables that are not spoilt.
Follows ==
  \A p \in Proc, k \in Fd, d \in Dir, f \in File :
    path[p][k] = <<d, f>> => Exists(d, f) /\ fd_table[p][k] = NodeAt(d, f)

LEMMA FollowsFrom ==
  ASSUME Follows,
         \A p \in Proc, k \in Fd, d \in Dir, f \in File : path'[p][k] = <<d, f>> =>
           \/ path[p][k] = <<d, f>> /\ fd_table'[p][k] = fd_table[p][k] /\ Kept(d, f)
           \/ Exists(d, f)' /\ fd_table'[p][k] = NodeAt(d, f)'
  PROVE  Follows'
<1> SUFFICES ASSUME NEW p \in Proc, NEW k \in Fd, NEW d \in Dir, NEW f \in File,
                    path'[p][k] = <<d, f>>
             PROVE  Exists(d, f)' /\ fd_table'[p][k] = NodeAt(d, f)'
  BY DEF Follows
<1>1. ASSUME path[p][k] = <<d, f>>, fd_table'[p][k] = fd_table[p][k], Kept(d, f)
      PROVE  Exists(d, f)' /\ fd_table'[p][k] = NodeAt(d, f)'
  <2>1. Exists(d, f) /\ fd_table[p][k] = NodeAt(d, f)
    BY <1>1 DEF Follows
  <2> QED
    BY <1>1, <2>1 DEF Kept
<1> QED
  BY <1>1

\* A descriptor is granted for what its path leads to.
LEMMA FollowsGranted ==
  ASSUME Base, Follows, NEW p \in Proc, NEW d \in Dir, NEW f \in File, NEW b \in Pointer,
         Grant(p, d, f, b), \A e \in Dir, g \in File : Kept(e, g),
         Exists(d, f)', NodeAt(d, f)' = b
  PROVE  Follows'
<1>1. \A q \in Proc, i \in Fd :
        \/ fd_table'[q][i] = fd_table[q][i] /\ path'[q][i] = path[q][i]
        \/ fd_table'[q][i] = b /\ path'[q][i] = <<d, f>>
  BY GrantIs DEF Base
<1> SUFFICES ASSUME NEW q \in Proc, NEW i \in Fd, NEW e \in Dir, NEW g \in File,
                    path'[q][i] = <<e, g>>
             PROVE  \/ path[q][i] = <<e, g>> /\ fd_table'[q][i] = fd_table[q][i] /\ Kept(e, g)
                    \/ Exists(e, g)' /\ fd_table'[q][i] = NodeAt(e, g)'
  BY FollowsFrom
<1>2. CASE fd_table'[q][i] = b /\ path'[q][i] = <<d, f>>
  <2>1. e = d /\ g = f
    BY <1>2
  <2> QED
    BY <1>2, <2>1
<1> QED
  BY <1>1, <1>2

\* A descriptor forgets a path that is removed or unmounted, and no other.
LEMMA FollowsForgot ==
  ASSUME Base, Follows, NEW S, Forget(S), fd_table' = fd_table,
         \A d \in Dir, f \in File : <<d, f>> \notin S => Kept(d, f)
  PROVE  Follows'
<1>1. \A q \in Proc, i \in Fd, d \in Dir, f \in File :
        path'[q][i] = <<d, f>> => path[q][i] = <<d, f>> /\ <<d, f>> \notin S
  BY ForgetIs DEF Base
<1> SUFFICES ASSUME NEW q \in Proc, NEW i \in Fd, NEW d \in Dir, NEW f \in File,
                    path'[q][i] = <<d, f>>
             PROVE  path[q][i] = <<d, f>> /\ fd_table'[q][i] = fd_table[q][i] /\ Kept(d, f)
  BY FollowsFrom
<1>2. path[q][i] = <<d, f>> /\ <<d, f>> \notin S
  BY <1>1, Zenon
<1>3. Kept(d, f)
  BY <1>2, Zenon
<1> QED
  BY <1>2, <1>3

LEMMA FollowsStep ==
  ASSUME Ownership, Follows, Call, ~spoilt'
  PROVE  Follows'
<1>1. Base /\ MountedFs \subseteq Blk
  BY MountIs DEF Ownership
<1>2. ASSUME NEW d0 \in Dir, NEW t \in FsType, NEW b \in Blk, Mount(d0, t, b) PROVE Follows'
  <2>1. \A d \in Dir, f \in File : Kept(d, f)
    BY <1>2, KeptMounted
  <2>2. path' = path /\ fd_table' = fd_table
    BY <1>2 DEF Mount
  <2> QED
    BY <2>1, <2>2, FollowsFrom
<1>3. ASSUME NEW d0 \in Dir, Unmount(d0) PROVE Follows'
  <2>1. \A d \in Dir, f \in File : <<d, f>> \notin {d0} \X File => Kept(d, f)
    BY <1>3, KeptUnmounted
  <2>2. Forget({d0} \X File) /\ fd_table' = fd_table
    BY <1>3 DEF Unmount
  <2> QED
    BY <1>1, <2>1, <2>2, FollowsForgot
<1>4. ASSUME NEW p \in Proc, NEW d0 \in Dir, NEW f0 \in File, Open(p, d0, f0) PROVE Follows'
  <2>1. /\ Exists(d0, f0) /\ Grant(p, d0, f0, NodeAt(d0, f0))
        /\ UNCHANGED <<mpoint, nbmountpoints, fs, name>>
    BY <1>4 DEF Open
  <2>2. \A d \in Dir, f \in File : Kept(d, f)
    BY <2>1, KeptSame
  <2>3. PICK b : b = NodeAt(d0, f0)
    OBVIOUS
  <2>4. Exists(d0, f0)' /\ NodeAt(d0, f0)' = b
    BY <2>1, <2>2, <2>3 DEF Kept
  <2>5. b \in Pointer
    <3>1. PICK s \in MountedFs : s = FsAt(d0)
      BY <1>1, <2>1, LookupIs DEF Exists
    <3>2. s \in Blk /\ Entries(s, f0) # {}
      BY <1>1, <2>1, <3>1 DEF Exists
    <3>3. b \in Listed(s)
      BY <1>1, <2>3, <3>1, <3>2, EntryIs DEF NodeAt
    <3> QED
      BY <3>3, OwnedIs DEF Pointer
  <2>6. Grant(p, d0, f0, b)
    BY <2>1, <2>3
  <2> QED
    BY <1>1, <2>2, <2>4, <2>5, <2>6, FollowsGranted
<1>5. ASSUME NEW p \in Proc, NEW d0 \in Dir, NEW f0 \in File, NEW b \in Blk,
             OpenCreate(p, d0, f0, b)
      PROVE  Follows'
  <2>1. /\ Mounts(d0) # {} /\ ~Exists(d0, f0) /\ fs[FsAt(d0)].nb < NBMAX_NODE
        /\ Enter(FsAt(d0), b, f0) /\ Grant(p, d0, f0, b) /\ UNCHANGED <<mpoint, nbmountpoints>>
    BY <1>5 DEF OpenCreate, Mounted
  <2>2. PICK s \in MountedFs : s = FsAt(d0)
    BY <1>1, <2>1, LookupIs
  <2>3. Enter(s, b, f0) /\ fs[s].nb < NBMAX_NODE
    BY <2>1, <2>2
  <2>4. \A d \in Dir, f \in File : Kept(d, f)
    BY <2>1, <2>3, KeptEntered
  <2>5. Exists(d0, f0)' /\ NodeAt(d0, f0)' = b
    BY <2>1, <2>2, <2>3, KeptEntered
  <2> QED
    BY <1>1, <2>1, <2>4, <2>5, FollowsGranted DEF Pointer
<1>6. ASSUME NEW d0 \in Dir, NEW f0 \in File, NEW b \in Blk, Insmod(d0, f0, b) PROVE Follows'
  <2>1. /\ Mounts(d0) # {} /\ fs[FsAt(d0)].nb < NBMAX_NODE - 1
        /\ Enter(FsAt(d0), b, f0) /\ UNCHANGED <<mpoint, nbmountpoints, fd_table, path>>
    BY <1>6 DEF Insmod, Mounted
  <2>2. PICK s \in MountedFs : s = FsAt(d0)
    BY <1>1, <2>1, LookupIs
  <2>3. fs[s].nb \in 0 .. NBMAX_NODE
    BY <1>1 DEF Base, TypeOK
  <2>4. Enter(s, b, f0) /\ fs[s].nb < NBMAX_NODE
    BY <2>1, <2>2, <2>3, SizeAssumption
  <2>5. \A d \in Dir, f \in File : Kept(d, f)
    BY <2>1, <2>4, KeptEntered
  <2> QED
    BY <2>1, <2>5, FollowsFrom
<1>7. ASSUME NEW d0 \in Dir, NEW f0 \in File, NEW clear, Drop(d0, f0, clear) PROVE Follows'
  <2>1. \A d \in Dir, f \in File : <<d, f>> \notin {<<d0, f0>>} => Kept(d, f)
    BY <1>7, KeptDropped
  <2>2. Forget({<<d0, f0>>}) /\ fd_table' = fd_table
    BY <1>7 DEF Drop
  <2> QED
    BY <1>1, <2>1, <2>2, FollowsForgot
<1>8. ASSUME NEW d \in Dir, NEW f \in File, RemoveFile(d, f) \/ RemoveDevice(d, f) PROVE Follows'
  BY <1>7, <1>8 DEF RemoveFile, RemoveDevice
<1>9. ASSUME NEW p \in Proc, UNCHANGED <<mpoint, nbmountpoints, fs, name>>,
             \A q \in Proc, i \in Fd : \/ path'[q][i] = <<>>
                                       \/ path'[q][i] = path[q][i] /\ fd_table'[q][i] = fd_table[q][i]
      PROVE  Follows'
  <2>1. \A d \in Dir, f \in File : Kept(d, f)
    BY <1>9, KeptSame
  <2>2. \A d \in Dir, f \in File : <<d, f>> # <<>>
    BY Zenon
  <2> SUFFICES ASSUME NEW q \in Proc, NEW i \in Fd, NEW d \in Dir, NEW f \in File,
                      path'[q][i] = <<d, f>>
               PROVE  path[q][i] = <<d, f>> /\ fd_table'[q][i] = fd_table[q][i] /\ Kept(d, f)
    BY FollowsFrom
  <2>3. path'[q][i] # <<>>
    BY <2>2
  <2> QED
    BY <1>9, <2>1, <2>3
<1>10. ASSUME NEW p \in Proc, NEW k \in Fd, Close(p, k) PROVE Follows'
  <2>1. \A q \in Proc, i \in Fd : \/ path'[q][i] = <<>>
                                  \/ path'[q][i] = path[q][i] /\ fd_table'[q][i] = fd_table[q][i]
    BY <1>1, <1>10 DEF Close, Base, TypeOK
  <2> QED
    BY <1>9, <1>10, <2>1 DEF Close
<1>11. ASSUME NEW p \in Proc, NewProcess(p) PROVE Follows'
  <2>1. \A q \in Proc, i \in Fd : \/ path'[q][i] = <<>>
                                  \/ path'[q][i] = path[q][i] /\ fd_table'[q][i] = fd_table[q][i]
    BY <1>1, <1>11 DEF NewProcess, Base, TypeOK
  <2> QED
    BY <1>9, <1>11, <2>1 DEF NewProcess
<1> QED
  BY <1>2, <1>3, <1>4, <1>5, <1>6, <1>8, <1>10, <1>11 DEF Call

\* The inductive invariant: which node a path leads to depends on every table
\* being sound, until a call spoils them.
IInv == Base /\ (~spoilt => Once /\ Follows)

THEOREM InvariantCorrect == Spec => []IInv
<1>1. Init => IInv
  <2> SUFFICES ASSUME Init PROVE Follows
    BY OwnershipInit DEF IInv, Ownership
  <2>1. \A p \in Proc, k \in Fd : path[p][k] = <<>>
    BY DEF Init
  <2>2. \A d \in Dir, f \in File : <<d, f>> # <<>>
    BY Zenon
  <2>3. ASSUME NEW p \in Proc, NEW k \in Fd, NEW d \in Dir, NEW f \in File,
               path[p][k] = <<d, f>>
        PROVE  FALSE
    <3>1. PICK x : x = <<d, f>>
      OBVIOUS
    <3> QED
      BY <2>1, <2>2, <2>3, <3>1
  <2> QED
    BY <2>3 DEF Follows
<1>2. IInv /\ [Next]_vars => IInv'
  <2>1. ASSUME IInv, Next PROVE IInv'
    <3>1. Ownership /\ Follows /\ Call
      BY <2>1 DEF IInv, Next, Ownership
    <3>2. Base'
      BY <3>1, CallBase DEF Ownership
    <3>3. ~spoilt' => Ownership' /\ Follows'
      BY <3>1, OwnershipStep, FollowsStep
    <3> QED
      BY <3>2, <3>3 DEF IInv, Ownership
  <2>2. ASSUME IInv, UNCHANGED vars PROVE IInv'
    <3>1. Base'
      BY <2>2 DEF IInv, vars, Base, TypeOK, Table, Below
    <3>2. ASSUME ~spoilt' PROVE Once' /\ Follows'
      <4>1. Ownership /\ Follows
        BY <2>2, <3>2 DEF IInv, Ownership, vars
      <4>2. Ownership'
        BY <2>2, <3>1, <4>1, OwnershipKept DEF vars
      <4>3. \A d \in Dir, f \in File : Kept(d, f)
        BY <2>2, KeptSame DEF vars
      <4>4. Follows'
        BY <2>2, <4>1, <4>3, FollowsFrom DEF vars
      <4> QED
        BY <4>2, <4>4 DEF Ownership
    <3> QED
      BY <3>1, <3>2 DEF IInv
  <2> QED
    BY <2>1, <2>2
<1> QED
  BY <1>1, <1>2, PTL DEF Spec

\* vfs.c 427-452, devfs.c 67-82: no block of the file systems is owned twice
\* and none is lost, in whatever order callers mount, unmount, create and
\* remove, and whatever is open, until a call spoils the tables.
THEOREM OwnedOnceCorrect == Spec => []OwnedOnce
<1>1. IInv => OwnedOnce
  <2>1. IInv /\ ~spoilt => OwnedOnce
    BY OwnedOnceIs DEF IInv, Ownership
  <2>2. spoilt => OwnedOnce
    BY DEF OwnedOnce
  <2>3. IInv => spoilt \in BOOLEAN
    BY DEF IInv, Base, TypeOK
  <2> QED
    BY <2>1, <2>2, <2>3
<1> QED
  BY <1>1, InvariantCorrect, PTL

\* vfs.c 122-142, 359-376, 427-452, vffs.c 42-58: a descriptor leads to what
\* opening its path again would find, until that path is itself removed or
\* unmounted, whatever happens to the rest of the tree.
THEOREM FdsFollowPathsCorrect == Spec => []FdsFollowPaths
<1>1. IInv => FdsFollowPaths
  BY DEF IInv, Follows, FdsFollowPaths
<1> QED
  BY <1>1, InvariantCorrect, PTL

-----------------------------------------------------------------------------
(***************************************************************************)
(* The tree.  TreeOf reads the table and the lists it leads to; a step     *)
(* changes what is read at one place, because nothing is in two.           *)
(***************************************************************************)
LEMMA MinIs ==
  ASSUME NEW S \in SUBSET Nat, NEW i \in S, \A j \in S : i <= j
  PROVE  Tree!Min(S) = i
<1>1. \A k \in S : (\A j \in S : k <= j) => k = i
  <2> SUFFICES ASSUME NEW k \in S, k <= i PROVE k = i
    OBVIOUS
  <2>1. k \in Nat /\ i \in Nat /\ i <= k
    OBVIOUS
  <2> QED
    BY <2>1
<1> QED
  BY <1>1 DEF Tree!Min

\* Sequences as functions.
LEMMA AppendIs ==
  ASSUME NEW n \in Nat, NEW s, s = [i \in 1 .. n |-> s[i]], NEW e
  PROVE  Append(s, e) = [i \in 1 .. (n + 1) |-> IF i = n + 1 THEN e ELSE s[i]]
<1> DEFINE S == {s[i] : i \in 1 .. n} \cup {e}
<1>1. s \in Seq(S) /\ Len(s) = n
  <2>1. s \in [1 .. n -> S]
    OBVIOUS
  <2> HIDE DEF S
  <2> QED
    BY <2>1
<1>2. e \in S
  OBVIOUS
<1> HIDE DEF S
<1> QED
  BY <1>1, <1>2

LEMMA RemoveIs ==
  ASSUME NEW n \in Nat, NEW s, s = [i \in 1 .. n |-> s[i]], NEW i \in 1 .. n
  PROVE  Tree!RemoveAt(s, i) = [k \in 1 .. (n - 1) |-> IF k < i THEN s[k] ELSE s[k + 1]]
<1> DEFINE S == {s[k] : k \in 1 .. n}
           a == SubSeq(s, 1, i - 1)
           b == SubSeq(s, i + 1, n)
<1>1. s \in Seq(S) /\ Len(s) = n
  <2>1. s \in [1 .. n -> S]
    OBVIOUS
  <2> HIDE DEF S
  <2> QED
    BY <2>1
<1> HIDE DEF S
<1>2. /\ a \in Seq(S) /\ Len(a) = i - 1
      /\ \A k \in 1 .. (i - 1) : a[k] = s[k]
  BY <1>1
<1>3. /\ b \in Seq(S) /\ Len(b) = n - i
      /\ \A k \in 1 .. (n - i) : b[k] = s[i + k]
  BY <1>1
<1>4. Tree!RemoveAt(s, i) = a \o b
  BY <1>1 DEF Tree!RemoveAt
<1> HIDE DEF a, b
<1>5. a \o b = [k \in 1 .. (n - 1) |-> IF k < i THEN a[k] ELSE b[k - (i - 1)]]
  <2>1. a \o b = [k \in 1 .. (Len(a) + Len(b)) |-> IF k <= Len(a) THEN a[k] ELSE b[k - Len(a)]]
    <3> DEFINE c == a \o b
    <3>1. /\ c \in Seq(S) /\ Len(c) = Len(a) + Len(b)
          /\ \A k \in 1 .. (Len(a) + Len(b)) : c[k] = IF k <= Len(a) THEN a[k] ELSE b[k - Len(a)]
      BY <1>2, <1>3, ConcatProperties
    <3> HIDE DEF c
    <3>2. c = [k \in 1 .. Len(c) |-> c[k]]
      BY <3>1
    <3> QED
      BY <3>1, <3>2 DEF c
  <2>2. Len(a) + Len(b) = n - 1 /\ \A k \in 1 .. (n - 1) : k <= Len(a) <=> k < i
    BY <1>2, <1>3
  <2> QED
    BY <1>2, <2>1, <2>2
<1>6. \A k \in 1 .. (n - 1) :
        (IF k < i THEN a[k] ELSE b[k - (i - 1)]) = (IF k < i THEN s[k] ELSE s[k + 1])
  <2> SUFFICES ASSUME NEW k \in 1 .. (n - 1)
               PROVE  /\ k < i => a[k] = s[k]
                      /\ ~(k < i) => b[k - (i - 1)] = s[k + 1]
    OBVIOUS
  <2>1. ASSUME k < i PROVE a[k] = s[k]
    <3>1. k \in 1 .. (i - 1)
      BY <2>1
    <3> QED
      BY <1>2, <3>1
  <2>2. ASSUME ~(k < i) PROVE b[k - (i - 1)] = s[k + 1]
    <3>1. k - (i - 1) \in 1 .. (n - i) /\ i + (k - (i - 1)) = k + 1
      BY <2>2
    <3> QED
      BY <1>3, <3>1
  <2> QED
    BY <2>1, <2>2
<1> QED
  BY <1>4, <1>5, <1>6

\* The directory at slot i, and the names in the list of block b.
Names(b) == [j \in 1 .. fs[b].nb |-> name[fs[b].list[j - 1]]]
Dirent(i) == [name |-> mpoint[i].name, type |-> mpoint[i].type, entries |-> Names(mpoint[i].fs)]

LEMMA TreeIs == TreeOf = [k \in 1 .. nbmountpoints |-> Dirent(k - 1)]
BY DEF TreeOf, Dirent, Names

\* Both look up the same directory,
LEMMA TreeLookup ==
  ASSUME Base, NEW d
  PROVE  /\ Tree!Mounted(d) <=> Mounts(d) # {}
         /\ Mounts(d) # {} => Tree!At(d) = Least(Mounts(d)) + 1
<1> DEFINE S == {i \in DOMAIN TreeOf : TreeOf[i].name = d}
<1>1. nbmountpoints \in Nat
  BY MountIs
<1>2. DOMAIN TreeOf = 1 .. nbmountpoints
  BY DEF TreeOf
<1>3. \A i \in 1 .. nbmountpoints : TreeOf[i].name = d <=> i - 1 \in Mounts(d)
  BY <1>1 DEF TreeOf, Mounts, Below
<1>4. \A i \in Mounts(d) : i \in Nat /\ i + 1 \in 1 .. nbmountpoints /\ (i + 1) - 1 = i
  BY <1>1 DEF Mounts, Below
<1>5. Tree!Mounted(d) <=> Mounts(d) # {}
  BY <1>2, <1>3, <1>4 DEF Tree!Mounted
<1>6. ASSUME Mounts(d) # {} PROVE Tree!At(d) = Least(Mounts(d)) + 1
  <2>1. Mounts(d) \in SUBSET Nat
    BY <1>4
  <2>2. Least(Mounts(d)) \in Mounts(d) /\ \A j \in Mounts(d) : Least(Mounts(d)) <= j
    BY <1>6, <2>1, LeastIs
  <2>3. Least(Mounts(d)) + 1 \in S
    BY <1>2, <1>3, <1>4, <2>2
  <2>4. \A j \in S : Least(Mounts(d)) + 1 <= j
    <3> SUFFICES ASSUME NEW j \in S PROVE Least(Mounts(d)) + 1 <= j
      OBVIOUS
    <3>1. j \in Nat /\ Least(Mounts(d)) <= j - 1 /\ Least(Mounts(d)) \in Nat
      BY <1>1, <1>2, <1>3, <1>4, <2>2
    <3> QED
      BY <3>1
  <2>5. S \in SUBSET Nat
    BY <1>1, <1>2
  <2> HIDE DEF S
  <2>6. Tree!Min(S) = Least(Mounts(d)) + 1
    BY <2>3, <2>4, <2>5, MinIs
  <2> QED
    BY <2>6 DEF Tree!At, S
<1> QED
  BY <1>5, <1>6

\* and the same entry in it.
LEMMA TreeEntry ==
  ASSUME Base, NEW s \in Blk, NEW f, NEW n, n = Names(s)
  PROVE  /\ (\E i \in DOMAIN n : n[i] = f) <=> Entries(s, f) # {}
         /\ Entries(s, f) # {} => /\ Tree!Min({j \in DOMAIN n : n[j] = f}) = Least(Entries(s, f)) + 1
                                  /\ Least(Entries(s, f)) + 1 \in DOMAIN n
<1> DEFINE S == {i \in DOMAIN n : n[i] = f}
<1>1. fs[s].nb \in Nat
  BY MountIs DEF Base, TypeOK
<1>2. DOMAIN n = 1 .. fs[s].nb
  BY DEF Names
<1>3. \A i \in 1 .. fs[s].nb : n[i] = f <=> i - 1 \in Entries(s, f)
  BY <1>1 DEF Names, Entries, Below
<1>4. \A i \in Entries(s, f) : i \in Nat /\ i + 1 \in 1 .. fs[s].nb /\ (i + 1) - 1 = i
  BY <1>1 DEF Entries, Below
<1>5. (\E i \in DOMAIN n : n[i] = f) <=> Entries(s, f) # {}
  BY <1>2, <1>3, <1>4
<1>6. ASSUME Entries(s, f) # {}
      PROVE  Tree!Min(S) = Least(Entries(s, f)) + 1 /\ Least(Entries(s, f)) + 1 \in DOMAIN n
  <2>1. Entries(s, f) \in SUBSET Nat
    BY <1>4
  <2>2. Least(Entries(s, f)) \in Entries(s, f) /\ \A j \in Entries(s, f) : Least(Entries(s, f)) <= j
    BY <1>6, <2>1, LeastIs
  <2>3. Least(Entries(s, f)) + 1 \in S
    BY <1>2, <1>3, <1>4, <2>2
  <2>4. \A j \in S : Least(Entries(s, f)) + 1 <= j
    <3> SUFFICES ASSUME NEW j \in S PROVE Least(Entries(s, f)) + 1 <= j
      OBVIOUS
    <3>1. j \in Nat /\ Least(Entries(s, f)) <= j - 1 /\ Least(Entries(s, f)) \in Nat
      BY <1>1, <1>2, <1>3, <1>4, <2>2
    <3> QED
      BY <3>1
  <2>5. S \in SUBSET Nat
    BY <1>1, <1>2
  <2> HIDE DEF S
  <2>6. Tree!Min(S) = Least(Entries(s, f)) + 1
    BY <2>3, <2>4, <2>5, MinIs
  <2>7. Least(Entries(s, f)) + 1 \in DOMAIN n
    BY <2>3 DEF S
  <2> QED
    BY <2>6, <2>7
<1> QED
  BY <1>5, <1>6

\* A directory that a step leaves alone.
LEMMA DirentKept ==
  ASSUME Base, NEW i \in Below(nbmountpoints), mpoint'[i] = mpoint[i],
         NEW b, b = mpoint[i].fs, fs'[b] = fs[b], \A x \in Listed(b) : name'[x] = name[x]
  PROVE  Dirent(i)' = Dirent(i)
<1>1. fs[b].nb \in Nat
  BY MountIs DEF Base, TypeOK
<1>2. \A j \in 1 .. fs[b].nb : fs[b].list[j - 1] \in Listed(b)
  BY <1>1 DEF Listed, Below
<1>3. [j \in 1 .. fs'[b].nb |-> name'[fs'[b].list[j - 1]]]
      = [j \in 1 .. fs[b].nb |-> name[fs[b].list[j - 1]]]
  BY <1>2
<1> QED
  BY <1>3 DEF Dirent, Names

LEMMA TreeMount ==
  ASSUME Ownership, NEW d \in Dir, NEW t \in FsType, NEW b \in Blk, Mount(d, t, b), ~spoilt'
  PROVE  Tree!Mount(d, t)
<1> DEFINE new == [name |-> d, type |-> t, entries |-> <<>>]
<1>0. PICK n \in Nat : n = nbmountpoints
  BY MountIs DEF Ownership
<1>1. /\ Base /\ nbmountpoints' = n + 1 /\ name' = name
      /\ mpoint'[n] = [name |-> d, type |-> t, fs |-> b]
      /\ \A i \in Below(n) : mpoint'[i] = mpoint[i] /\ mpoint[i].fs \in MountedFs
      /\ fs'[b].nb = 0 /\ \A c \in Blk \ {b} : fs'[c] = fs[c]
  <2>1. Base
    BY DEF Ownership
  <2>2. name' = name
    BY DEF Mount
  <2> QED
    BY <1>0, <2>1, <2>2, MountedIs, MountIs
<1>2. b \notin MountedFs /\ MountedFs \subseteq Blk
  BY <1>1, OwnershipMounted, MountIs
<1>3. \A i \in Below(n) : Dirent(i)' = Dirent(i)
  BY <1>0, <1>1, <1>2, DirentKept
<1>4. Dirent(n)' = new
  <2>1. mpoint'[n].fs = b /\ mpoint'[n].name = d /\ mpoint'[n].type = t
    BY <1>1
  <2>2. [j \in 1 .. fs'[mpoint'[n].fs].nb |-> name'[fs'[mpoint'[n].fs].list[j - 1]]] = <<>>
    <3>1. 1 .. fs'[mpoint'[n].fs].nb = {}
      BY <1>1, <2>1
    <3> QED
      BY <3>1
  <2>3. Dirent(n)' = [name |-> mpoint'[n].name, type |-> mpoint'[n].type, entries |->
          [j \in 1 .. fs'[mpoint'[n].fs].nb |-> name'[fs'[mpoint'[n].fs].list[j - 1]]]]
    BY DEF Dirent, Names
  <2> QED
    BY <2>1, <2>2, <2>3
<1> HIDE DEF new
<1>5. \A k \in 1 .. (n + 1) : Dirent(k - 1)' = IF k = n + 1 THEN new ELSE Dirent(k - 1)
  <2> SUFFICES ASSUME NEW k \in 1 .. (n + 1)
               PROVE  /\ k = n + 1 => Dirent(k - 1)' = new
                      /\ k # n + 1 => Dirent(k - 1)' = Dirent(k - 1)
    OBVIOUS
  <2>1. ASSUME k = n + 1 PROVE Dirent(k - 1)' = new
    <3>1. k - 1 = n
      BY <1>1, <2>1
    <3> QED
      BY <1>4, <3>1
  <2>2. ASSUME k # n + 1 PROVE Dirent(k - 1)' = Dirent(k - 1)
    <3>1. k - 1 \in Below(n)
      BY <1>1, <2>2 DEF Below
    <3> QED
      BY <1>3, <3>1
  <2> QED
    BY <2>1, <2>2
<1>6. TreeOf' = [k \in 1 .. (n + 1) |-> IF k = n + 1 THEN new ELSE TreeOf[k]]
  <2>1. TreeOf' = [k \in 1 .. (n + 1) |-> Dirent(k - 1)']
    BY <1>1 DEF TreeOf, Dirent, Names
  <2>2. \A k \in 1 .. (n + 1) : k # n + 1 => TreeOf[k] = Dirent(k - 1)
    BY <1>0, TreeIs
  <2> QED
    BY <1>5, <2>1, <2>2
<1>7. Append(TreeOf, new) = [k \in 1 .. (n + 1) |-> IF k = n + 1 THEN new ELSE TreeOf[k]]
  <2>1. TreeOf = [k \in 1 .. n |-> TreeOf[k]]
    BY <1>0, TreeIs
  <2> QED
    BY <2>1, AppendIs
<1> QED
  BY <1>6, <1>7 DEF Tree!Mount, new

LEMMA TreeUnmount ==
  ASSUME Ownership, NEW d \in Dir, Unmount(d)
  PROVE  Tree!Unmount(d)
<1>1. PICK i : i = Least(Mounts(d))
  OBVIOUS
<1>2. PICK n : n = nbmountpoints - 1
  OBVIOUS
<1>3. /\ Base /\ n \in Nat /\ i \in 0 .. n /\ nbmountpoints' = n /\ nbmountpoints = n + 1
      /\ Moved(mpoint, mpoint', i, n)
      /\ UNCHANGED <<fs, name>>
  BY <1>1, <1>2, UnmountedIs DEF Ownership
<1>4. Mounts(d) # {}
  BY DEF Unmount
<1>5. Tree!Mounted(d) /\ Tree!At(d) = i + 1
  BY <1>1, <1>3, <1>4, TreeLookup
<1>6. \A k \in 1 .. n : Dirent(k - 1)' = IF k < i + 1 THEN Dirent(k - 1) ELSE Dirent(k)
  <2> SUFFICES ASSUME NEW k \in 1 .. n
               PROVE  /\ k < i + 1 => Dirent(k - 1)' = Dirent(k - 1)
                      /\ ~(k < i + 1) => Dirent(k - 1)' = Dirent(k)
    OBVIOUS
  <2>1. k - 1 \in Below(n) /\ (k - 1 < i <=> k < i + 1) /\ (k - 1) + 1 = k
    BY <1>3 DEF Below
  <2>2. /\ k < i + 1 => mpoint'[k - 1] = mpoint[k - 1]
        /\ ~(k < i + 1) => mpoint'[k - 1] = mpoint[k]
    BY <1>3, <2>1 DEF Moved
  <2>3. \A j : mpoint'[k - 1] = mpoint[j] => Dirent(k - 1)' = Dirent(j)
    BY <1>3 DEF Dirent, Names
  <2> QED
    BY <2>2, <2>3
<1>7. \A k \in 1 .. (n + 1) : TreeOf[k] = Dirent(k - 1)
  BY <1>3, TreeIs
<1>8. \A k \in 1 .. n : k \in 1 .. (n + 1) /\ k + 1 \in 1 .. (n + 1) /\ (k + 1) - 1 = k
  BY <1>3
<1>9. TreeOf' = [k \in 1 .. n |-> IF k < i + 1 THEN TreeOf[k] ELSE TreeOf[k + 1]]
  <2>1. TreeOf' = [k \in 1 .. n |-> Dirent(k - 1)']
    BY <1>3 DEF TreeOf, Dirent, Names
  <2>2. \A k \in 1 .. n : TreeOf[k] = Dirent(k - 1) /\ TreeOf[k + 1] = Dirent(k)
    BY <1>7, <1>8
  <2> QED
    BY <1>6, <2>1, <2>2
<1>10. PICK m : m = n + 1
  OBVIOUS
<1>11. TreeOf = [k \in 1 .. m |-> TreeOf[k]] /\ m \in Nat /\ i + 1 \in 1 .. m /\ m - 1 = n
  BY <1>3, <1>10, TreeIs
<1>12. PICK c : c = i + 1
  OBVIOUS
<1>13. Tree!RemoveAt(TreeOf, c) = [k \in 1 .. (m - 1) |-> IF k < c THEN TreeOf[k] ELSE TreeOf[k + 1]]
  <2>1. TreeOf = [k \in 1 .. m |-> TreeOf[k]] /\ m \in Nat
    BY <1>11
  <2>2. c \in 1 .. m
    BY <1>11, <1>12
  <2> QED
    BY <2>1, <2>2, RemoveIs
<1>14. TreeOf' = Tree!RemoveAt(TreeOf, Tree!At(d))
  <2>1. TreeOf' = [k \in 1 .. n |-> IF k < c THEN TreeOf[k] ELSE TreeOf[k + 1]]
    BY <1>9, <1>12
  <2>2. Tree!RemoveAt(TreeOf, c) = [k \in 1 .. n |-> IF k < c THEN TreeOf[k] ELSE TreeOf[k + 1]]
    BY <1>11, <1>13
  <2>3. TreeOf' = Tree!RemoveAt(TreeOf, c)
    BY <2>1, <2>2
  <2>4. Tree!At(d) = c
    BY <1>5, <1>12
  <2> QED
    BY <2>3, <2>4
<1> QED
  BY <1>5, <1>14 DEF Tree!Unmount

\* Only the list of block s changes, and it is in the table at slot a.
LEMMA TreeChanged ==
  ASSUME Ownership, NEW a \in Below(nbmountpoints), NEW s, s = mpoint[a].fs,
         UNCHANGED <<mpoint, nbmountpoints>>,
         \A c \in Blk \ {s} : fs'[c] = fs[c],
         \A c \in MountedFs \ {s} : \A x \in Listed(c) : name'[x] = name[x]
  PROVE  TreeOf' = [TreeOf EXCEPT ![a + 1].entries = Names(s)']
<1>1. Base /\ nbmountpoints \in Nat /\ MountedFs \subseteq Blk
      /\ \A i \in Below(nbmountpoints) : mpoint[i].fs \in MountedFs
  BY MountIs DEF Ownership
<1>2. \A i \in Below(nbmountpoints) : i # a => mpoint[i].fs # s
  BY DEF Ownership, Once
<1>3. \A i \in Below(nbmountpoints) : i # a => Dirent(i)' = Dirent(i)
  BY <1>1, <1>2, DirentKept
<1>4. Dirent(a)' = [Dirent(a) EXCEPT !.entries = Names(s)']
  <2>1. Dirent(a)' = [name |-> mpoint[a].name, type |-> mpoint[a].type, entries |-> Names(s)']
    BY DEF Dirent, Names
  <2>2. Dirent(a) = [name |-> mpoint[a].name, type |-> mpoint[a].type, entries |-> Names(s)]
    BY DEF Dirent
  <2> QED
    BY <2>1, <2>2
<1>5. TreeOf' = [k \in 1 .. nbmountpoints |-> Dirent(k - 1)']
  BY DEF TreeOf, Dirent, Names
<1>6. \A k \in 1 .. nbmountpoints : TreeOf[k] = Dirent(k - 1)
  BY TreeIs
<1>7. a + 1 \in 1 .. nbmountpoints /\ (a + 1) - 1 = a
  BY <1>1 DEF Below
<1>8. \A k \in 1 .. nbmountpoints : k # a + 1 => TreeOf'[k] = TreeOf[k]
  <2> SUFFICES ASSUME NEW k \in 1 .. nbmountpoints, k # a + 1 PROVE TreeOf'[k] = TreeOf[k]
    OBVIOUS
  <2>1. k - 1 \in Below(nbmountpoints) /\ k - 1 # a
    BY <1>1, <1>7 DEF Below
  <2> QED
    BY <1>3, <1>5, <1>6, <2>1
<1>9. TreeOf'[a + 1] = [TreeOf[a + 1] EXCEPT !.entries = Names(s)']
  BY <1>4, <1>5, <1>6, <1>7
<1>10. TreeOf = [k \in 1 .. nbmountpoints |-> TreeOf[k]]
       /\ TreeOf' = [k \in 1 .. nbmountpoints |-> TreeOf'[k]]
  BY <1>5, TreeIs
<1> QED
  BY <1>7, <1>8, <1>9, <1>10

\* A name is added to the list of a directory.
LEMMA TreeEntered ==
  ASSUME Ownership, NEW d \in Dir, NEW t \in FsType, Mounted(d, t), NEW b \in Blk, NEW f \in File,
         fs[FsAt(d)].nb < NBMAX_NODE, Enter(FsAt(d), b, f), UNCHANGED <<mpoint, nbmountpoints>>
  PROVE  Tree!AddEntry(d, f, t)
<1>0. Base /\ Mounts(d) # {}
  BY DEF Ownership, Mounted
<1>1. PICK a \in Below(nbmountpoints) : a = Least(Mounts(d))
  BY <1>0, LookupIs
<1>2. PICK s \in Blk : s = FsAt(d) /\ s \in MountedFs
  BY <1>0, LookupIs
<1>3. s = mpoint[a].fs /\ mpoint[a].type = t
  BY <1>1, <1>2 DEF FsAt, Mounted
<1>4. PICK n \in Nat : n = fs[s].nb
  BY <1>0 DEF Base, TypeOK
<1>5. /\ b \notin owned /\ fs'[s].nb = n + 1
      /\ \A j \in Below(n) : fs'[s].list[j] = fs[s].list[j]
      /\ fs'[s].list[n] = b
      /\ \A c \in Blk \ {s} : fs'[c] = fs[c]
  <2>1. Enter(s, b, f) /\ fs[s].nb < NBMAX_NODE
    BY <1>2
  <2> QED
    BY <1>0, <1>4, <2>1, EnterIs
<1>6. name'[b] = f /\ \A x \in Blk \ {b} : name'[x] = name[x]
  BY <1>0 DEF Enter, Base, TypeOK
<1>7. \A c \in MountedFs : \A x \in Listed(c) : x \in Blk \ {b}
  BY <1>5, OwnedIs
<1>8. TreeOf' = [TreeOf EXCEPT ![a + 1].entries = Names(s)']
  BY <1>3, <1>5, <1>6, <1>7, TreeChanged
<1>9. Names(s)' = Append(Names(s), f)
  <2>1. Names(s) = [j \in 1 .. n |-> name[fs[s].list[j - 1]]]
    BY <1>4 DEF Names
  <2>2. Names(s)' = [j \in 1 .. (n + 1) |-> name'[fs'[s].list[j - 1]]]
    BY <1>5 DEF Names
  <2>3. \A j \in 1 .. (n + 1) :
          name'[fs'[s].list[j - 1]] = IF j = n + 1 THEN f ELSE name[fs[s].list[j - 1]]
    <3> SUFFICES ASSUME NEW j \in 1 .. (n + 1)
                 PROVE  /\ j = n + 1 => name'[fs'[s].list[j - 1]] = f
                        /\ j # n + 1 => name'[fs'[s].list[j - 1]] = name[fs[s].list[j - 1]]
      OBVIOUS
    <3>1. ASSUME j = n + 1 PROVE name'[fs'[s].list[j - 1]] = f
      <4>1. j - 1 = n
        BY <3>1
      <4> QED
        BY <1>5, <1>6, <4>1
    <3>2. ASSUME j # n + 1 PROVE name'[fs'[s].list[j - 1]] = name[fs[s].list[j - 1]]
      <4>1. j - 1 \in Below(n)
        BY <3>2 DEF Below
      <4>2. fs[s].list[j - 1] \in Listed(s)
        BY <1>4, <4>1 DEF Listed
      <4> QED
        BY <1>2, <1>5, <1>6, <1>7, <4>1, <4>2
    <3> QED
      BY <3>1, <3>2
  <2>4. \A j \in 1 .. (n + 1) : j # n + 1 => Names(s)[j] = name[fs[s].list[j - 1]]
    BY <2>1
  <2>5. Names(s)' = [j \in 1 .. (n + 1) |-> IF j = n + 1 THEN f ELSE Names(s)[j]]
    BY <2>2, <2>3, <2>4
  <2>6. Names(s) = [j \in 1 .. n |-> Names(s)[j]]
    BY <2>1
  <2> QED
    BY <2>5, <2>6, AppendIs
<1>10. /\ Tree!Mounted(d) /\ Tree!At(d) = a + 1
  BY <1>0, <1>1, TreeLookup
<1>11. TreeOf[a + 1].type = t /\ TreeOf[a + 1].entries = Names(s)
  <2>1. a + 1 \in 1 .. nbmountpoints /\ (a + 1) - 1 = a
    BY <1>0, MountIs DEF Below
  <2>2. TreeOf[a + 1] = Dirent(a)
    BY <2>1, TreeIs
  <2> QED
    BY <1>3, <2>2 DEF Dirent
<1> QED
  BY <1>8, <1>9, <1>10, <1>11 DEF Tree!AddEntry

\* The name that was looked up is removed from it.
LEMMA TreeDropped ==
  ASSUME Ownership, NEW d \in Dir, NEW f \in File, NEW clear, Drop(d, f, clear)
  PROVE  Tree!RemoveEntry(d, f)
<1>0. Base /\ Mounts(d) # {} /\ Entries(FsAt(d), f) # {}
  BY DEF Ownership, Drop, Exists
<1>1. PICK a \in Below(nbmountpoints) : a = Least(Mounts(d))
  BY <1>0, LookupIs
<1>2. PICK s \in Blk : s = FsAt(d) /\ s \in MountedFs
  BY <1>0, LookupIs
<1>3. s = mpoint[a].fs
  BY <1>1, <1>2 DEF FsAt
<1>4. Entries(s, f) # {}
  BY <1>0, <1>2
<1>5. PICK j \in Below(fs[s].nb) : j = Least(Entries(s, f))
  BY <1>0, <1>4, EntryIs
<1>6. PICK n \in Nat : n = fs[s].nb /\ n - 1 \in Nat /\ j \in 0 .. (n - 1)
                       /\ n - 1 < NBMAX_NODE /\ fs[s].list \in [NSlot -> Pointer]
  BY <1>0, <1>5, SizeAssumption DEF Base, TypeOK, Below
<1>7. Gone(s, j) /\ UNCHANGED <<mpoint, nbmountpoints, name>>
  BY <1>0, <1>2, <1>5, DropIs
<1>8. /\ fs'[s].nb = n - 1
      /\ Moved(fs[s].list, fs'[s].list, j, n - 1)
      /\ \A c \in Blk \ {s} : fs'[c] = fs[c]
  BY <1>6, <1>7 DEF Gone
<1>9. name' = name /\ UNCHANGED <<mpoint, nbmountpoints>>
  BY <1>7
<1>10. TreeOf' = [TreeOf EXCEPT ![a + 1].entries = Names(s)']
  BY <1>3, <1>8, <1>9, TreeChanged
<1>11. Names(s) = [k \in 1 .. n |-> name[fs[s].list[k - 1]]]
  BY <1>6 DEF Names
<1>12. Names(s)' = Tree!RemoveAt(Names(s), j + 1)
  <2>1. Names(s)' = [k \in 1 .. (n - 1) |-> name[fs'[s].list[k - 1]]]
    BY <1>8, <1>9 DEF Names
  <2>2. \A k \in 1 .. (n - 1) : fs'[s].list[k - 1]
          = IF k < j + 1 THEN fs[s].list[k - 1] ELSE fs[s].list[k]
    <3> SUFFICES ASSUME NEW k \in 1 .. (n - 1)
                 PROVE  /\ k < j + 1 => fs'[s].list[k - 1] = fs[s].list[k - 1]
                        /\ ~(k < j + 1) => fs'[s].list[k - 1] = fs[s].list[k]
      OBVIOUS
    <3>1. k - 1 \in Below(n - 1) /\ (k - 1) + 1 = k /\ (k - 1 < j <=> k < j + 1)
      BY <1>6 DEF Below
    <3> QED
      BY <1>8, <3>1 DEF Moved
  <2>3. \A k \in 1 .. (n - 1) :
          /\ k < j + 1 => Names(s)[k] = name[fs[s].list[k - 1]]
          /\ Names(s)[k + 1] = name[fs[s].list[k]]
    <3> SUFFICES ASSUME NEW k \in 1 .. (n - 1)
                 PROVE  Names(s)[k] = name[fs[s].list[k - 1]] /\ Names(s)[k + 1] = name[fs[s].list[k]]
      OBVIOUS
    <3>1. k \in 1 .. n /\ k + 1 \in 1 .. n /\ (k + 1) - 1 = k
      BY <1>6
    <3> QED
      BY <1>11, <3>1
  <2>4. Names(s)' = [k \in 1 .. (n - 1) |-> IF k < j + 1 THEN Names(s)[k] ELSE Names(s)[k + 1]]
    <3>1. \A k \in 1 .. (n - 1) :
            name[fs'[s].list[k - 1]] = IF k < j + 1 THEN Names(s)[k] ELSE Names(s)[k + 1]
      BY <2>2, <2>3
    <3> QED
      BY <2>1, <3>1
  <2>5. Names(s) = [k \in 1 .. n |-> Names(s)[k]] /\ j + 1 \in 1 .. n
    BY <1>6, <1>11
  <2> QED
    BY <2>4, <2>5, RemoveIs
<1>13. Tree!Mounted(d) /\ Tree!At(d) = a + 1
  BY <1>0, <1>1, TreeLookup
<1>14. TreeOf[a + 1].entries = Names(s) /\ a + 1 \in DOMAIN TreeOf
  <2>1. a + 1 \in 1 .. nbmountpoints /\ (a + 1) - 1 = a
    BY <1>0, MountIs DEF Below
  <2>2. TreeOf[a + 1] = Dirent(a) /\ DOMAIN TreeOf = 1 .. nbmountpoints
    BY <2>1, TreeIs
  <2> QED
    BY <1>3, <2>1, <2>2 DEF Dirent
<1>15. PICK m : m = Names(s)
  OBVIOUS
<1>16. /\ \E i \in DOMAIN m : m[i] = f
       /\ Tree!Min({i \in DOMAIN m : m[i] = f}) = j + 1
  BY <1>0, <1>4, <1>5, <1>15, TreeEntry
<1>17. Tree!Holds(d, f)
  BY <1>13, <1>14, <1>15, <1>16 DEF Tree!Holds
<1> QED
  BY <1>10, <1>12, <1>13, <1>14, <1>15, <1>16, <1>17 DEF Tree!RemoveEntry

LEMMA TreeInit == Init => Tree!Init
<1> SUFFICES ASSUME Init PROVE Tree!Init
  OBVIOUS
<1> DEFINE first == [name |-> TmpDir, type |-> "VFILES", entries |-> <<>>]
           second == [name |-> DevDir, type |-> "DEVICES", entries |-> <<>>]
<1>1. 0 \in MSlot /\ 1 \in MSlot
  BY SizeAssumption DEF MSlot
<1>2. PICK a, b \in Blk :
        mpoint = [i \in MSlot |->
          CASE i = 0 -> [name |-> TmpDir, type |-> "VFILES", fs |-> a]
            [] i = 1 -> [name |-> DevDir, type |-> "DEVICES", fs |-> b]
            [] OTHER -> [name |-> TmpDir, type |-> "VFILES", fs |-> NULL]]
  BY DEF Init
<1>3. /\ mpoint[0] = [name |-> TmpDir, type |-> "VFILES", fs |-> a]
      /\ mpoint[1] = [name |-> DevDir, type |-> "DEVICES", fs |-> b]
  BY <1>1, <1>2
<1>4. nbmountpoints = 2 /\ \A c \in Blk : fs[c].nb = 0
  BY DEF Init, EmptyFs
<1>5. \A c \in Blk : Names(c) = <<>>
  <2> SUFFICES ASSUME NEW c \in Blk PROVE Names(c) = <<>>
    OBVIOUS
  <2>1. 1 .. fs[c].nb = {}
    BY <1>4
  <2> QED
    BY <2>1 DEF Names
<1>6. Dirent(0) = first /\ Dirent(1) = second
  BY <1>3, <1>5 DEF Dirent
<1> HIDE DEF first, second
<1>7. TreeOf = <<first, second>>
  <2>1. TreeOf = [k \in 1 .. 2 |-> Dirent(k - 1)]
    BY <1>4, TreeIs
  <2>2. Dirent(1 - 1) = first /\ Dirent(2 - 1) = second
    BY <1>6
  <2> HIDE DEF first, second
  <2>3. \A k \in 1 .. 2 : k = 1 \/ k = 2
    OBVIOUS
  <2>4. \A k \in 1 .. 2 : Dirent(k - 1) = <<first, second>>[k]
    BY <2>2, <2>3
  <2> QED
    BY <2>1, <2>4
<1> QED
  BY <1>7, NameAssumption DEF Tree!Init, first, second

\* What the process tables hold is not in the tree.
LEMMA TreeKept ==
  ASSUME UNCHANGED <<mpoint, nbmountpoints, fs, name>>
  PROVE  UNCHANGED TreeOf
BY DEF TreeOf

LEMMA TreeStep ==
  ASSUME Ownership, Call, ~spoilt'
  PROVE  Tree!Next \/ UNCHANGED TreeOf
<1>0. Base
  BY DEF Ownership
<1>1. ASSUME NEW d \in Dir, NEW t \in FsType, NEW b \in Blk, Mount(d, t, b) PROVE Tree!Next
  <2>1. Tree!Mount(d, t)
    BY <1>1, TreeMount
  <2> QED
    BY <2>1 DEF Tree!Next
<1>2. ASSUME NEW d \in Dir, Unmount(d) PROVE Tree!Next
  BY <1>2, TreeUnmount DEF Tree!Next
<1>3. ASSUME NEW p \in Proc, NEW d \in Dir, NEW f \in File, NEW b \in Blk, OpenCreate(p, d, f, b)
      PROVE  Tree!Next
  <2>1. /\ Mounted(d, "VFILES") /\ ~Exists(d, f) /\ fs[FsAt(d)].nb < NBMAX_NODE
        /\ Enter(FsAt(d), b, f) /\ UNCHANGED <<mpoint, nbmountpoints>>
    BY <1>3 DEF OpenCreate
  <2>2. Tree!AddEntry(d, f, "VFILES")
    BY <2>1, TreeEntered DEF FsType
  <2>3. ~Tree!Holds(d, f)
    <3>1. Mounts(d) # {} /\ Entries(FsAt(d), f) = {}
      BY <2>1 DEF Mounted, Exists
    <3>2. PICK a \in Below(nbmountpoints) : a = Least(Mounts(d))
      BY <1>0, <3>1, LookupIs
    <3>3. PICK s \in Blk : s = FsAt(d)
      BY <1>0, <3>1, LookupIs
    <3>4. a + 1 \in 1 .. nbmountpoints /\ (a + 1) - 1 = a
      BY <1>0, MountIs DEF Below
    <3>5. Tree!At(d) = a + 1
      BY <1>0, <3>1, <3>2, TreeLookup
    <3>6. TreeOf[a + 1] = Dirent(a)
      BY <3>4, TreeIs
    <3>7. PICK m : m = Names(s)
      OBVIOUS
    <3>8. TreeOf[Tree!At(d)].entries = m
      BY <3>2, <3>3, <3>5, <3>6, <3>7 DEF Dirent, FsAt
    <3>9. ~ \E i \in DOMAIN m : m[i] = f
      BY <1>0, <3>1, <3>3, <3>7, TreeEntry
    <3> QED
      BY <3>8, <3>9 DEF Tree!Holds
  <2> QED
    BY <2>2, <2>3 DEF Tree!Next, Tree!Create
<1>4. ASSUME NEW d \in Dir, NEW f \in File, NEW b \in Blk, Insmod(d, f, b) PROVE Tree!Next
  <2>1. /\ Mounted(d, "DEVICES") /\ fs[FsAt(d)].nb < NBMAX_NODE - 1
        /\ Enter(FsAt(d), b, f) /\ UNCHANGED <<mpoint, nbmountpoints>>
    BY <1>4 DEF Insmod
  <2>2. fs[FsAt(d)].nb \in Nat
    <3>1. FsAt(d) \in Blk
      BY <1>0, <2>1, LookupIs DEF Mounted
    <3> QED
      BY <1>0, <3>1 DEF Base, TypeOK
  <2>3. fs[FsAt(d)].nb < NBMAX_NODE
    BY <2>1, <2>2, SizeAssumption
  <2>4. Tree!AddEntry(d, f, "DEVICES")
    BY <2>1, <2>3, TreeEntered DEF FsType
  <2> QED
    BY <2>4 DEF Tree!Next, Tree!Insmod
<1>5. ASSUME NEW d \in Dir, NEW f \in File, RemoveFile(d, f) \/ RemoveDevice(d, f) PROVE Tree!Next
  <2>1. Tree!RemoveEntry(d, f)
    BY <1>5, TreeDropped DEF RemoveFile, RemoveDevice
  <2> QED
    BY <2>1 DEF Tree!Next
<1>6. ASSUME NEW p \in Proc, NEW d \in Dir, NEW f \in File, Open(p, d, f) PROVE UNCHANGED TreeOf
  BY <1>6, TreeKept DEF Open
<1>7. ASSUME NEW p \in Proc, NEW k \in Fd, Close(p, k) PROVE UNCHANGED TreeOf
  BY <1>7, TreeKept DEF Close
<1>8. ASSUME NEW p \in Proc, NewProcess(p) PROVE UNCHANGED TreeOf
  BY <1>8, TreeKept DEF NewProcess
<1> QED
  BY <1>1, <1>2, <1>3, <1>4, <1>5, <1>6, <1>7, <1>8 DEF Call

\* vfs.h 11-14: the mount table and the lists behave as the tree of FileTree,
\* in whatever order mount points go and whatever is open: an operation
\* changes the entry it names and no other, until a call spoils the tables.
THEOREM ImplementsTreeCorrect == Spec => ImplementsTree
<1>1. Init => Tree!Init
  BY TreeInit
<1>2. IInv /\ [Next]_vars => [Tree!Next \/ spoilt']_TreeOf
  <2>1. ASSUME IInv, Next, ~spoilt' PROVE Tree!Next \/ UNCHANGED TreeOf
    <3>1. Ownership /\ Call
      BY <2>1 DEF IInv, Next, Ownership
    <3> QED
      BY <2>1, <3>1, TreeStep
  <2>2. UNCHANGED vars => UNCHANGED TreeOf
    BY TreeKept DEF vars
  <2> QED
    BY <2>1, <2>2
<1> QED
  BY <1>1, <1>2, InvariantCorrect, PTL DEF Spec, ImplementsTree
=============================================================================
