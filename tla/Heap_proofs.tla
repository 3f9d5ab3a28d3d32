---------------------------- MODULE Heap_proofs ----------------------------
(***************************************************************************)
(* Proofs for Heap, for a heap and requests of any size: the heap is right *)
(* until kfree merges away the block that heap_start is at.                *)
(***************************************************************************)
EXTENDS Heap, WellFoundedInduction, TLAPS

-----------------------------------------------------------------------------
(***************************************************************************)
(* The invariant.  F is the set of the blocks of the free list, which the  *)
(* list links in the order of their addresses.                             *)
(***************************************************************************)
Linked(nx, F) ==
  /\ heap_list \in F
  /\ \A f \in F : /\ nx[f] \in F
                  /\ nx[f] = heap_list \/ f < nx[f]
                  /\ \A g \in F : f < g => nx[f] # heap_list /\ nx[f] <= g

LiveAt == {b.at : b \in live}
Pending == IF op.pc \in {"free", "grow"} THEN {op.block} ELSE {}

\* The headers of the blocks that share the memory below the break.
Headers(F) == (F \ {heap_list}) \cup LiveAt \cup Pending

\* They cover it, and none reaches into another.
Tiled(l, end, H) ==
  /\ \A u \in H : 0 < u /\ 0 < l[u] /\ u + l[u] <= end
  /\ \A u, v \in H : u < v => u + l[u] <= v
  /\ \A x \in 1 .. (end - 1) : \E u \in H : u <= x /\ x < u + l[u]

\* No block ends where a free one other than the static header begins.
Merged(l, F) == l[heap_list] = 0 /\ \A f \in F : f + l[f] \notin F \ {heap_list, f}

\* A block is free, owned or on its way into the list.
Parted(F) ==
  /\ LiveAt \cap F = {} /\ Pending \cap F = {} /\ Pending \cap LiveAt = {}
  /\ \A b \in live : len[b.at] = b.n
  /\ \A b, c \in live : b.at = c.at => b = c

\* The locals of the call in progress are in the list.
Local(F) ==
  /\ heap_start \in F \/ (heap_start = NULL /\ op.pc = "idle" /\ live = {})
  /\ op.pc = "search" => op.prev_block \in F /\ op.cur = next[op.prev_block]
  /\ op.pc \in {"search", "grow"} => op.n \in Sizes /\ op.old \in LiveAt \cup {NULL}
  /\ op.pc \in {"free", "grow"} => op.cur \in F /\ op.block \in Unit

Right(F) == /\ Linked(next, F)
            /\ Tiled(len, heap_end, Headers(F))
            /\ Merged(len, F)
            /\ Parted(F)
            /\ Local(F)

HeapInv == TypeOK /\ \E F \in SUBSET Unit : Right(F)

-----------------------------------------------------------------------------
(***************************************************************************)
(* The list.                                                               *)
(***************************************************************************)
\* Only the links of the blocks in the list matter.
LEMMA LinkedSame ==
  ASSUME NEW F \in SUBSET Unit, NEW nx, NEW ny, Linked(nx, F), \A f \in F : ny[f] = nx[f]
  PROVE  Linked(ny, F)
BY DEF Linked

\* A block behind p is unlinked.
LEMMA Unlinked ==
  ASSUME NEW F \in SUBSET Unit, NEW nx \in [Unit -> Unit], Linked(nx, F),
         NEW p \in F, NEW c, c = nx[p], c # heap_list
  PROVE  /\ Linked([nx EXCEPT ![p] = nx[c]], F \ {c})
         /\ p < c /\ c \in F
<1> DEFINE ny == [nx EXCEPT ![p] = nx[c]]
           G == F \ {c}
<1>1. \A f \in F : f \in Int
  BY DEF Unit
<1>2. c \in F /\ p < c /\ c # heap_list /\ p \in G
  BY <1>1 DEF Linked
<1>3. ny[p] = nx[c] /\ \A f \in F : f # p => ny[f] = nx[f]
  OBVIOUS
<1> HIDE DEF ny
<1>4. heap_list \in G
  BY <1>2 DEF G, Linked
<1>5. ASSUME NEW f \in G, f = p
      PROVE  /\ ny[f] \in G
             /\ ny[f] = heap_list \/ f < ny[f]
             /\ \A g \in G : f < g => ny[f] # heap_list /\ ny[f] <= g
  <2>1. nx[c] \in F /\ (nx[c] = heap_list \/ c < nx[c])
        /\ \A g \in F : c < g => nx[c] # heap_list /\ nx[c] <= g
    BY <1>2 DEF Linked
  <2>2. nx[c] # c
    BY <1>1, <1>2, <2>1
  <2>3. \A g \in G : p < g => c < g
    <3>1. \A g \in F : p < g => c <= g
      BY <1>2 DEF Linked
    <3> QED
      BY <1>1, <1>2, <3>1 DEF G
  <2> QED
    BY <1>1, <1>2, <1>3, <1>5, <2>1, <2>2, <2>3 DEF G
<1>6. ASSUME NEW f \in G, f # p
      PROVE  /\ ny[f] \in G
             /\ ny[f] = heap_list \/ f < ny[f]
             /\ \A g \in G : f < g => ny[f] # heap_list /\ ny[f] <= g
  <2>1. nx[f] \in F /\ (nx[f] = heap_list \/ f < nx[f])
        /\ \A g \in F : f < g => nx[f] # heap_list /\ nx[f] <= g
    BY DEF Linked, G
  <2>2. nx[p] = c /\ \A g \in F : p < g => c <= g
    BY DEF Linked
  <2>3. nx[f] # c
    <3> SUFFICES ASSUME nx[f] = c PROVE FALSE
      OBVIOUS
    <3>1. f < c
      BY <1>2, <2>1
    <3>2. f < p \/ p < f
      BY <1>1, <1>6 DEF G
    <3>3. ~(f < p)
      BY <1>1, <1>2, <2>1
    <3>4. ~(p < f)
      BY <1>1, <1>2, <2>2, <3>1 DEF G
    <3> QED
      BY <3>2, <3>3, <3>4
  <2> QED
    BY <1>3, <1>6, <2>1, <2>3 DEF G
<1>7. Linked(ny, G)
  BY <1>4, <1>5, <1>6 DEF Linked
<1> QED
  BY <1>2, <1>7 DEF G, ny

\* A block is linked behind the last one below it.
LEMMA LinkedIn ==
  ASSUME NEW F \in SUBSET Unit, NEW nx \in [Unit -> Unit], Linked(nx, F),
         NEW c \in F, NEW b \in Unit, c < b, nx[c] = heap_list \/ b < nx[c]
  PROVE  Linked([nx EXCEPT ![b] = nx[c], ![c] = b], F \cup {b})
<1> DEFINE u == nx[c]
           ny == [nx EXCEPT ![b] = nx[c], ![c] = b]
           G == F \cup {b}
<1>1. \A f \in F : f \in Nat
  BY DEF Unit
<1>2. u \in F /\ heap_list \in F /\ b \in Nat /\ b # heap_list /\ b # c
      /\ (u = heap_list \/ b < u) /\ \A g \in F : c < g => u # heap_list /\ u <= g
  BY <1>1 DEF Linked, heap_list, Unit
<1>3. b \notin F
  <2>1. u \in Nat
    BY <1>1, <1>2
  <2> HIDE DEF u
  <2> QED
    BY <1>2, <2>1
<1>4. ny[b] = u /\ ny[c] = b /\ \A f \in F : f # c => ny[f] = nx[f]
  BY <1>2, <1>3
<1> HIDE DEF ny, u
<1>5. \A g \in G : b < g => u # heap_list /\ u <= g
  BY <1>1, <1>2 DEF G
<1>6. \A g \in G : c < g => b <= g
  BY <1>1, <1>2 DEF G
<1>7. ASSUME NEW f \in F, f # c
      PROVE  /\ nx[f] \in G
             /\ nx[f] = heap_list \/ f < nx[f]
             /\ \A g \in G : f < g => nx[f] # heap_list /\ nx[f] <= g
  <2>1. nx[f] \in F /\ (nx[f] = heap_list \/ f < nx[f])
        /\ \A g \in F : f < g => nx[f] # heap_list /\ nx[f] <= g
    BY DEF Linked
  <2>2. ASSUME f < b PROVE nx[f] # heap_list /\ nx[f] <= b
    <3>1. f < c
      BY <1>1, <1>2, <1>7, <2>2
    <3>2. nx[f] # heap_list /\ nx[f] <= c
      BY <2>1, <3>1
    <3>3. nx[f] \in Nat /\ c \in Nat /\ b \in Nat
      BY <1>1, <1>2, <2>1
    <3> QED
      BY <3>2, <3>3
  <2> QED
    BY <2>1, <2>2 DEF G
<1>8. Linked(ny, G)
  <2>1. heap_list \in G
    BY <1>2 DEF G
  <2>2. \A f \in G : /\ ny[f] \in G
                     /\ ny[f] = heap_list \/ f < ny[f]
                     /\ \A g \in G : f < g => ny[f] # heap_list /\ ny[f] <= g
    <3> SUFFICES ASSUME NEW f \in G
                 PROVE  /\ ny[f] \in G
                        /\ ny[f] = heap_list \/ f < ny[f]
                        /\ \A g \in G : f < g => ny[f] # heap_list /\ ny[f] <= g
      OBVIOUS
    <3>1. CASE f = b
      BY <1>2, <1>4, <1>5, <3>1 DEF G
    <3>2. CASE f = c
      BY <1>2, <1>4, <1>6, <3>2 DEF G
    <3>3. CASE f \in F /\ f # c
      BY <1>4, <1>7, <3>3
    <3> QED
      BY <3>1, <3>2, <3>3 DEF G
  <2> QED
    BY <2>1, <2>2 DEF Linked
<1> QED
  BY <1>8 DEF G, ny

-----------------------------------------------------------------------------
(***************************************************************************)
(* The memory.                                                             *)
(***************************************************************************)
\* Only the lengths in the headers of the blocks matter.
LEMMA TiledSame ==
  ASSUME NEW H, NEW end, NEW l, NEW m, Tiled(l, end, H), \A u \in H : m[u] = l[u]
  PROVE  Tiled(m, end, H)
BY DEF Tiled

\* A block is cut in two.
LEMMA TiledSplit ==
  ASSUME NEW H \in SUBSET Unit, NEW end \in Unit, NEW l \in [Unit -> 0 .. HeapMax],
         Tiled(l, end, H), NEW u \in H, NEW n \in Nat \ {0}, n < l[u],
         NEW v, v = u + (l[u] - n)
  PROVE  /\ v \in Unit /\ v \notin H
         /\ Tiled([l EXCEPT ![u] = l[u] - n, ![v] = n], end, H \cup {v})
<1> DEFINE k == l[u]
           m == [l EXCEPT ![u] = k - n, ![v] = n]
<1>0. HeapMax \in Nat
  BY HeapAssumption
<1>1. \A w \in H : w \in Nat /\ l[w] \in Nat /\ w \in Unit
  BY <1>0 DEF Unit
<1>2. /\ \A w \in H : 0 < w /\ 0 < l[w] /\ w + l[w] <= end
      /\ \A w, y \in H : w < y => w + l[w] <= y
      /\ \A x \in 1 .. (end - 1) : \E w \in H : w <= x /\ x < w + l[w]
  BY DEF Tiled
<1>3. k \in Nat /\ u \in Nat /\ n < k /\ v \in Nat /\ u < v /\ v = u + (k - n) /\ v + n = u + k
      /\ end \in Nat /\ end <= HeapMax /\ u + k <= end
  <2>1. k \in Nat /\ u \in Nat /\ n \in Nat /\ n < k /\ 0 < n /\ v = u + (k - n) /\ u + k <= end
        /\ end \in Nat /\ end <= HeapMax
    BY <1>0, <1>1, <1>2 DEF Unit
  <2> HIDE DEF k
  <2> QED
    BY <2>1
<1>4. v \in Unit
  BY <1>0, <1>3 DEF Unit
<1>5. v \notin H
  <2> SUFFICES ASSUME v \in H PROVE FALSE
    OBVIOUS
  <2>1. u + k <= v
    BY <1>2, <1>3
  <2> QED
    BY <1>3, <2>1
<1>6. m[u] = k - n /\ m[v] = n /\ \A w \in H : w # u => m[w] = l[w]
  BY <1>1, <1>3, <1>4, <1>5
<1> HIDE DEF m, k
<1>7. \A w \in H \cup {v} : 0 < w /\ 0 < m[w] /\ w + m[w] <= end
  <2> SUFFICES ASSUME NEW w \in H \cup {v} PROVE 0 < w /\ 0 < m[w] /\ w + m[w] <= end
    OBVIOUS
  <2>1. CASE w = v
    BY <1>3, <1>6, <2>1
  <2>2. CASE w = u
    BY <1>2, <1>3, <1>6, <2>2
  <2>3. CASE w \in H /\ w # u
    BY <1>2, <1>6, <2>3
  <2> QED
    BY <2>1, <2>2, <2>3
<1>8. \A w, y \in H \cup {v} : w < y => w + m[w] <= y
  <2> SUFFICES ASSUME NEW w \in H \cup {v}, NEW y \in H \cup {v}, w < y PROVE w + m[w] <= y
    OBVIOUS
  <2>1. CASE w \in H /\ w # u /\ y = v
    <3>1. w < u \/ u < w
      BY <1>1, <1>3, <2>1
    <3>2. ASSUME u < w PROVE FALSE
      <4>1. u + k <= w
        BY <1>2, <2>1, <3>2 DEF k
      <4>2. w \in Nat /\ w < v
        BY <1>1, <2>1
      <4> QED
        BY <1>3, <4>1, <4>2
    <3>3. w + l[w] <= u /\ w \in Nat /\ l[w] \in Nat
      BY <1>1, <1>2, <2>1, <3>1, <3>2
    <3> QED
      BY <1>3, <1>6, <2>1, <3>3
  <2>2. CASE w \in H /\ w # u /\ y \in H
    BY <1>2, <1>6, <2>2
  <2>3. CASE w = u /\ y \in H
    <3>1. u + k <= y /\ y \in Nat
      BY <1>1, <1>2, <2>3 DEF k
    <3> QED
      BY <1>3, <1>6, <2>3, <3>1
  <2>4. CASE w = u /\ y = v
    BY <1>3, <1>6, <2>4
  <2>5. CASE w = v /\ y \in H
    <3>1. y \in Nat /\ v < y
      BY <1>1, <2>5
    <3>2. u < y
      BY <1>3, <3>1
    <3>3. u + k <= y
      BY <1>2, <2>5, <3>2 DEF k
    <3> QED
      BY <1>3, <1>6, <2>5, <3>3
  <2>6. CASE w = v /\ y = v
    BY <1>3, <2>6
  <2> QED
    BY <2>1, <2>2, <2>3, <2>4, <2>5, <2>6
<1>9. \A x \in 1 .. (end - 1) : \E w \in H \cup {v} : w <= x /\ x < w + m[w]
  <2> SUFFICES ASSUME NEW x \in 1 .. (end - 1)
               PROVE  \E w \in H \cup {v} : w <= x /\ x < w + m[w]
    OBVIOUS
  <2>1. PICK w \in H : w <= x /\ x < w + l[w]
    BY <1>2
  <2>2. CASE w = u
    <3>1. x \in Nat /\ u <= x /\ x < u + k
      BY <2>1, <2>2, <1>3 DEF k
    <3>2. CASE x < v
      <4>1. x < u + m[u]
        BY <1>3, <1>6, <3>2
      <4> QED
        BY <3>1, <4>1
    <3>3. CASE v <= x
      <4>1. x < v + m[v]
        BY <1>3, <1>6, <3>1
      <4> QED
        BY <3>3, <4>1
    <3> QED
      BY <1>3, <3>1, <3>2, <3>3
  <2>3. CASE w # u
    BY <1>6, <2>1, <2>3
  <2> QED
    BY <2>2, <2>3
<1>10. Tiled(m, end, H \cup {v})
  BY <1>7, <1>8, <1>9 DEF Tiled
<1> QED
  BY <1>4, <1>5, <1>10 DEF m, k

\* The break moves up, and what it leaves is a block.
LEMMA TiledGrown ==
  ASSUME NEW H \in SUBSET Unit, NEW end \in Unit, 0 < end, NEW l \in [Unit -> 0 .. HeapMax],
         Tiled(l, end, H), NEW n \in Nat \ {0}
  PROVE  /\ end \notin H
         /\ Tiled([l EXCEPT ![end] = n], end + n, H \cup {end})
<1> DEFINE m == [l EXCEPT ![end] = n]
<1>0. HeapMax \in Nat
  BY HeapAssumption
<1>1. \A w \in H : w \in Nat /\ l[w] \in Nat /\ w \in Unit
  BY <1>0 DEF Unit
<1>2. /\ \A w \in H : 0 < w /\ 0 < l[w] /\ w + l[w] <= end
      /\ \A w, y \in H : w < y => w + l[w] <= y
      /\ \A x \in 1 .. (end - 1) : \E w \in H : w <= x /\ x < w + l[w]
  BY DEF Tiled
<1>3. end \in Nat /\ n \in Nat /\ 0 < n
  BY DEF Unit
<1>4. \A w \in H : w < end
  BY <1>1, <1>2, <1>3
<1>5. end \notin H
  BY <1>3, <1>4
<1>6. m[end] = n /\ \A w \in H : m[w] = l[w]
  BY <1>1, <1>5
<1> HIDE DEF m
<1>7. \A w \in H \cup {end} : 0 < w /\ 0 < m[w] /\ w + m[w] <= end + n
  BY <1>1, <1>2, <1>3, <1>6
<1>8. \A w, y \in H \cup {end} : w < y => w + m[w] <= y
  <2> SUFFICES ASSUME NEW w \in H \cup {end}, NEW y \in H \cup {end}, w < y PROVE w + m[w] <= y
    OBVIOUS
  <2>1. CASE w \in H /\ y \in H
    BY <1>2, <1>6, <2>1
  <2>2. CASE w \in H /\ y = end
    BY <1>2, <1>6, <2>2
  <2>3. CASE w = end
    BY <1>1, <1>3, <1>4, <2>3
  <2> QED
    BY <2>1, <2>2, <2>3
<1>9. \A x \in 1 .. ((end + n) - 1) : \E w \in H \cup {end} : w <= x /\ x < w + m[w]
  <2> SUFFICES ASSUME NEW x \in 1 .. ((end + n) - 1)
               PROVE  \E w \in H \cup {end} : w <= x /\ x < w + m[w]
    OBVIOUS
  <2>1. CASE x < end
    <3>1. x \in 1 .. (end - 1)
      BY <1>3, <2>1
    <3> QED
      BY <1>2, <1>6, <3>1
  <2>2. CASE ~(x < end)
    <3>1. end <= x /\ x < end + m[end]
      BY <1>3, <1>6, <2>2
    <3> QED
      BY <3>1
  <2> QED
    BY <2>1, <2>2
<1>10. Tiled(m, end + n, H \cup {end})
  BY <1>7, <1>8, <1>9 DEF Tiled
<1> QED
  BY <1>5, <1>10 DEF m

\* A block is merged with the next one.
LEMMA TiledJoined ==
  ASSUME NEW H \in SUBSET Unit, NEW end \in Unit, NEW l \in [Unit -> 0 .. HeapMax],
         Tiled(l, end, H), NEW u \in H, NEW v \in H, u + l[u] = v
  PROVE  /\ u < v /\ l[u] + l[v] \in 0 .. HeapMax
         /\ Tiled([l EXCEPT ![u] = l[u] + l[v]], end, H \ {v})
<1> DEFINE k == l[u]
           n == l[v]
           m == [l EXCEPT ![u] = k + n]
<1>0. HeapMax \in Nat
  BY HeapAssumption
<1>1. \A w \in H : w \in Nat /\ l[w] \in Nat /\ w \in Unit
  BY <1>0 DEF Unit
<1>2. /\ \A w \in H : 0 < w /\ 0 < l[w] /\ w + l[w] <= end
      /\ \A w, y \in H : w < y => w + l[w] <= y
      /\ \A x \in 1 .. (end - 1) : \E w \in H : w <= x /\ x < w + l[w]
  BY DEF Tiled
<1>3. k \in Nat /\ n \in Nat /\ u \in Nat /\ v \in Nat /\ 0 < k /\ 0 < n /\ u + k = v
      /\ 0 < u /\ v + n <= end /\ end \in Nat /\ end <= HeapMax
  BY <1>0, <1>1, <1>2 DEF Unit
<1>4. m[u] = k + n /\ \A w \in H : w # u => m[w] = l[w]
  BY <1>1
<1>5. \A w \in H : v < w => v + n <= w
  BY <1>2
<1>6. \A w \in H : u < w => v <= w
  BY <1>2, <1>3 DEF k
<1> HIDE DEF m, k, n
<1>7. \A w \in H \ {v} : 0 < w /\ 0 < m[w] /\ w + m[w] <= end
  <2> SUFFICES ASSUME NEW w \in H \ {v} PROVE 0 < w /\ 0 < m[w] /\ w + m[w] <= end
    OBVIOUS
  <2>1. CASE w = u
    BY <1>3, <1>4, <2>1
  <2>2. CASE w # u
    BY <1>2, <1>4, <2>2
  <2> QED
    BY <2>1, <2>2
<1>8. \A w, y \in H \ {v} : w < y => w + m[w] <= y
  <2> SUFFICES ASSUME NEW w \in H \ {v}, NEW y \in H \ {v}, w < y PROVE w + m[w] <= y
    OBVIOUS
  <2>1. CASE w = u
    <3>1. y \in Nat /\ v <= y /\ y # v
      BY <1>1, <1>6, <2>1
    <3>2. v < y
      BY <1>3, <3>1
    <3>3. v + n <= y
      BY <1>5, <3>2
    <3> QED
      BY <1>3, <1>4, <2>1, <3>1, <3>3
  <2>2. CASE w # u
    BY <1>2, <1>4, <2>2
  <2> QED
    BY <2>1, <2>2
<1>9. \A x \in 1 .. (end - 1) : \E w \in H \ {v} : w <= x /\ x < w + m[w]
  <2> SUFFICES ASSUME NEW x \in 1 .. (end - 1)
               PROVE  \E w \in H \ {v} : w <= x /\ x < w + m[w]
    OBVIOUS
  <2>1. PICK w \in H : w <= x /\ x < w + l[w]
    BY <1>2
  <2>2. u \in H \ {v} /\ x \in Nat
    BY <1>3
  <2>3. CASE w = u \/ w = v
    <3>1. u <= x /\ x < u + m[u]
      <4>1. CASE w = u
        BY <1>3, <1>4, <2>1, <2>2, <4>1 DEF k
      <4>2. CASE w = v
        BY <1>3, <1>4, <2>1, <2>2, <4>2 DEF n
      <4> QED
        BY <2>3, <4>1, <4>2
    <3> QED
      BY <2>2, <3>1
  <2>4. CASE w # u /\ w # v
    BY <1>4, <2>1, <2>4
  <2> QED
    BY <2>3, <2>4
<1>10. Tiled(m, end, H \ {v})
  BY <1>7, <1>8, <1>9 DEF Tiled
<1>11. u < v /\ k + n \in 0 .. HeapMax
  BY <1>0, <1>3
<1> QED
  BY <1>10, <1>11 DEF m, k, n

-----------------------------------------------------------------------------
(***************************************************************************)
(* The walk along the list from heap_list meets the blocks of F and no     *)
(* others.                                                                 *)
(***************************************************************************)
LEMMA LeastIs ==
  ASSUME NEW S \in SUBSET Nat, S # {}
  PROVE  \E i \in S : \A j \in S : i <= j
<1>1. PICK i \in S : \A j \in S : ~(<<j, i>> \in OpToRel(<, Nat))
  BY NatLessThanWellFounded, WFMin
<1>2. \A j \in S : i <= j
  <2> SUFFICES ASSUME NEW j \in S PROVE i <= j
    OBVIOUS
  <2>1. i \in Nat /\ j \in Nat
    OBVIOUS
  <2>2. ~(j < i)
    <3> DEFINE pair == <<j, i>>
    <3>1. pair \notin {ss \in Nat \X Nat : ss[1] < ss[2]}
      BY <1>1 DEF OpToRel
    <3>2. pair \in Nat \X Nat /\ pair[1] = j /\ pair[2] = i
      BY <2>1
    <3> HIDE DEF pair
    <3> QED
      BY <3>1, <3>2
  <2> QED
    BY <2>1, <2>2
<1> QED
  BY <1>2

Walked(g, m) == g = [i \in 0 .. m |-> IF i = 0 THEN heap_list ELSE next[g[i - 1]]]

LEMMA WalkExists ==
  ASSUME NEW m \in Nat
  PROVE  \E g : Walked(g, m)
<1> DEFINE S == {k \in Nat : \A g : ~Walked(g, k)}
<1> SUFFICES ASSUME S # {} PROVE FALSE
  OBVIOUS
<1>1. PICK k \in S : \A j \in S : k <= j
  BY LeastIs
<1>2. CASE k = 0
  <2> DEFINE g == [i \in 0 .. 0 |-> heap_list]
  <2>1. g = [i \in 0 .. 0 |-> IF i = 0 THEN heap_list ELSE next[g[i - 1]]]
    OBVIOUS
  <2> QED
    BY <1>2, <2>1 DEF Walked
<1>3. CASE k # 0
  <2>1. k - 1 \in Nat /\ k - 1 \notin S
    BY <1>1, <1>3
  <2>2. PICK g : Walked(g, k - 1)
    BY <2>1
  <2>3. g = [i \in 0 .. (k - 1) |-> IF i = 0 THEN heap_list ELSE next[g[i - 1]]]
    BY <2>2 DEF Walked
  <2> DEFINE h == [i \in 0 .. k |-> IF i = k THEN next[g[k - 1]] ELSE g[i]]
  <2>4. \A i \in 0 .. k : h[i] = IF i = 0 THEN heap_list ELSE next[h[i - 1]]
    <3> SUFFICES ASSUME NEW i \in 0 .. k
                 PROVE  h[i] = IF i = 0 THEN heap_list ELSE next[h[i - 1]]
      OBVIOUS
    <3>1. CASE i = 0
      <4>1. 0 \in 0 .. (k - 1) /\ 0 \in 0 .. k /\ 0 # k
        BY <1>3
      <4> QED
        BY <2>3, <3>1, <4>1
    <3>2. CASE i # 0 /\ i # k
      <4>1. i \in 0 .. (k - 1) /\ i - 1 \in 0 .. k /\ i - 1 # k
        BY <3>2
      <4> QED
        BY <2>3, <3>2, <4>1
    <3>3. CASE i # 0 /\ i = k
      <4>1. k - 1 \in 0 .. k /\ k - 1 # k
        BY <3>3
      <4> QED
        BY <3>3, <4>1
    <3> QED
      BY <3>1, <3>2, <3>3
  <2>5. h = [i \in 0 .. k |-> h[i]]
    OBVIOUS
  <2> HIDE DEF h
  <2>6. h = [i \in 0 .. k |-> IF i = 0 THEN heap_list ELSE next[h[i - 1]]]
    BY <2>4, <2>5
  <2> QED
    BY <2>6 DEF Walked
<1> QED
  BY <1>2, <1>3

LEMMA FreeListIs ==
  ASSUME TypeOK, NEW F \in SUBSET Unit, Linked(next, F)
  PROVE  FreeList = F
<1> DEFINE walk[i \in Unit] == IF i = 0 THEN heap_list ELSE next[walk[i - 1]]
<1>1. FreeList = {walk[i] : i \in Unit}
  BY DEF FreeList
<1>2. HeapMax \in Nat /\ Unit = 0 .. HeapMax
  BY HeapAssumption DEF Unit
<1>3. walk = [i \in Unit |-> IF i = 0 THEN heap_list ELSE next[walk[i - 1]]]
  <2>1. \E g : g = [i \in Unit |-> IF i = 0 THEN heap_list ELSE next[g[i - 1]]]
    BY <1>2, WalkExists DEF Walked
  <2> QED
    BY <2>1
<1> HIDE DEF walk
<1>4. walk[0] = heap_list /\ \A i \in Unit : i # 0 => walk[i] = next[walk[i - 1]]
  BY <1>2, <1>3
<1>5. \A f \in F : f \in Nat /\ f <= HeapMax
  BY <1>2
<1>6. \A i \in Unit : walk[i] \in F
  <2> DEFINE S == {i \in Unit : walk[i] \notin F}
  <2> SUFFICES ASSUME S # {} PROVE FALSE
    OBVIOUS
  <2>1. PICK i \in S : \A j \in S : i <= j
    <3>1. S \in SUBSET Nat
      BY <1>2
    <3> QED
      BY <3>1, LeastIs
  <2>2. i # 0
    BY <1>4 DEF Linked
  <2>3. i \in Nat /\ i - 1 \in Unit /\ i - 1 \notin S
    BY <1>2, <2>1, <2>2
  <2>4. walk[i - 1] \in F
    BY <2>3
  <2> QED
    BY <1>4, <2>2, <2>4 DEF Linked
<1>7. \A f \in F : \E i \in Unit : i <= f /\ walk[i] = f
  <2> DEFINE S == {f \in F : \A i \in Unit : i <= f => walk[i] # f}
  <2> SUFFICES ASSUME S # {} PROVE FALSE
    OBVIOUS
  <2>1. PICK f \in S : \A g \in S : f <= g
    <3>1. S \in SUBSET Nat
      BY <1>5
    <3> QED
      BY <3>1, LeastIs
  <2>2. f # heap_list /\ f \in F /\ f \in Nat
    <3>1. 0 \in Unit
      BY <1>2
    <3> QED
      BY <1>4, <1>5, <3>1 DEF heap_list
  \* What is below f is not empty, and its greatest element leads to f.
  <2> DEFINE D == {f - g : g \in {x \in F : x < f}}
  <2>3. D \in SUBSET Nat /\ D # {}
    <3>1. heap_list \in F /\ heap_list < f
      BY <2>2 DEF Linked, heap_list
    <3> QED
      BY <1>5, <2>2, <3>1
  <2>4. PICK d \in D : \A e \in D : d <= e
    BY <2>3, LeastIs
  <2>5. PICK p \in F : p < f /\ d = f - p
    BY <2>4
  <2>6. \A g \in F : g < f => g <= p
    <3> SUFFICES ASSUME NEW g \in F, g < f PROVE g <= p
      OBVIOUS
    <3>1. f - g \in D
      BY <2>2
    <3>2. f - p <= f - g
      BY <2>4, <2>5, <3>1
    <3> QED
      BY <1>5, <2>2, <3>2
  <2>7. next[p] = f
    <3>1. next[p] \in F /\ next[p] # heap_list /\ p < next[p] /\ next[p] <= f
      BY <2>2, <2>5 DEF Linked
    <3>2. next[p] \in Nat /\ p \in Nat
      BY <1>5, <3>1
    <3>3. ~(next[p] < f)
      BY <2>6, <3>1, <3>2
    <3> QED
      BY <2>2, <3>1, <3>2, <3>3
  <2>8. p \notin S
    BY <1>5, <2>1, <2>2, <2>5
  <2>9. PICK i \in Unit : i <= p /\ walk[i] = p
    BY <2>8
  <2>10. i + 1 \in Unit /\ i + 1 # 0 /\ i + 1 <= f /\ (i + 1) - 1 = i
    BY <1>2, <1>5, <2>2, <2>5, <2>9
  <2>11. walk[i + 1] = f
    BY <1>4, <2>7, <2>9, <2>10
  <2> QED
    BY <2>1, <2>10, <2>11
<1> QED
  BY <1>1, <1>6, <1>7

-----------------------------------------------------------------------------
(***************************************************************************)
(* What the invariant says of the heap.                                    *)
(***************************************************************************)
LEMMA SizeIs ==
  ASSUME NEW n \in Sizes
  PROVE  n \in Nat \ {0} /\ n \in 0 .. HeapMax /\ HeapMax \in Nat
BY HeapAssumption

LEMMA TypeIs ==
  ASSUME TypeOK
  PROVE  /\ HeapMax \in Nat /\ heap_list \in Unit
         /\ heap_end \in Nat /\ heap_end \in Unit /\ 0 < heap_end /\ heap_end <= HeapMax
         /\ len \in [Unit -> 0 .. HeapMax] /\ next \in [Unit -> Unit]
         /\ \A u \in Unit : u \in Nat /\ len[u] \in Nat /\ len[u] <= HeapMax
<1>1. HeapMax \in Nat
  BY HeapAssumption
<1>2. heap_end \in 1 .. HeapMax /\ len \in [Unit -> 0 .. HeapMax] /\ next \in [Unit -> Unit]
  BY DEF TypeOK
<1>3. heap_end \in Nat /\ heap_end \in Unit /\ 0 < heap_end /\ heap_end <= HeapMax
  BY <1>1, <1>2 DEF Unit
<1>4. \A u \in Unit : len[u] \in 0 .. HeapMax
  BY <1>2
<1>5. \A u \in Unit : u \in Nat
  BY DEF Unit
<1>6. heap_list \in Unit
  BY <1>1 DEF heap_list, Unit
<1> QED
  BY <1>1, <1>2, <1>3, <1>4, <1>5, <1>6

LEMMA HeadersIs ==
  ASSUME TypeOK, NEW F \in SUBSET Unit, Right(F)
  PROVE  /\ Headers(F) \in SUBSET Unit
         /\ \A u \in Headers(F) : u \in Nat /\ len[u] \in Nat
         /\ LiveAt \subseteq Unit /\ Pending \subseteq Unit
         /\ heap_list \notin Headers(F)
<1>1. LiveAt \subseteq Unit
  BY DEF LiveAt, TypeOK
<1>2. Pending \subseteq Unit
  BY DEF Pending, Right, Local
<1>3. Headers(F) \in SUBSET Unit
  BY <1>1, <1>2 DEF Headers
<1>4. \A u \in Unit : u \in Nat /\ len[u] \in Nat
  BY TypeIs
<1>5. \A u \in Headers(F) : u # heap_list
  <2>1. \A u \in Headers(F) : 0 < u /\ u \in Nat
    BY <1>3, <1>4 DEF Right, Tiled
  <2> QED
    BY <2>1 DEF heap_list
<1> QED
  BY <1>1, <1>2, <1>3, <1>4, <1>5

\* The units of two blocks are apart.
LEMMA SpansApart ==
  ASSUME TypeOK, NEW F \in SUBSET Unit, Right(F), NEW u \in Headers(F), NEW v \in Headers(F), u # v
  PROVE  Span(u, len[u]) \cap Span(v, len[v]) = {}
<1>1. \A w \in Headers(F) : w \in Nat /\ len[w] \in Nat
  BY HeadersIs
<1>2. \A w, y \in Headers(F) : w < y => w + len[w] <= y
  BY DEF Right, Tiled
<1>3. u + len[u] <= v \/ v + len[v] <= u
  BY <1>1, <1>2
<1> QED
  BY <1>1, <1>3 DEF Span

LEMMA HeapIsRight ==
  ASSUME TypeOK, NEW F \in SUBSET Unit, Right(F)
  PROVE  NoOverlap /\ Conserved /\ RovingListed
<1>1. FreeList = F
  BY FreeListIs DEF Right
<1>2. /\ \A b \in live : len[b.at] = b.n /\ b.at \in Headers(F) /\ b.at \notin F
      /\ \A b, c \in live : b.at = c.at => b = c
  BY DEF Right, Parted, LiveAt, Headers
<1>3. Span(heap_list, len[heap_list]) = {}
  BY DEF Right, Merged, Span, heap_list
<1>4. \A f \in F : f # heap_list => f \in Headers(F)
  BY DEF Headers
<1>5. NoOverlap
  <2>1. ASSUME NEW b \in live, NEW c \in live, b # c PROVE Owned(b) \cap Owned(c) = {}
    <3>1. b.at # c.at
      BY <1>2, <2>1
    <3> QED
      BY <1>2, <3>1, SpansApart DEF Owned
  <2>2. ASSUME NEW b \in live, NEW f \in F PROVE Owned(b) \cap Span(f, len[f]) = {}
    <3>1. CASE f = heap_list
      BY <1>3, <3>1
    <3>2. CASE f # heap_list
      <4>1. f \in Headers(F) /\ f # b.at
        BY <1>2, <1>4, <3>2
      <4> QED
        BY <1>2, <4>1, SpansApart DEF Owned
    <3> QED
      BY <3>1, <3>2
  <2> QED
    BY <1>1, <2>1, <2>2 DEF NoOverlap, Free
<1>6. ASSUME op.pc = "idle"
      PROVE  1 .. (heap_end - 1) = Free \cup UNION {Owned(b) : b \in live}
  <2>1. \A u \in Headers(F) : /\ u \in Nat /\ len[u] \in Nat
                              /\ 0 < u /\ u + len[u] <= heap_end
    BY HeadersIs DEF Right, Tiled
  <2>2. heap_end \in Nat /\ heap_end \in Int
    BY HeapAssumption DEF TypeOK
  <2>3. \A u \in Headers(F) : Span(u, len[u]) \subseteq 1 .. (heap_end - 1)
    BY <2>1, <2>2 DEF Span
  <2>4. \A x \in 1 .. (heap_end - 1) : \E u \in Headers(F) : x \in Span(u, len[u])
    <3> SUFFICES ASSUME NEW x \in 1 .. (heap_end - 1)
                 PROVE  \E u \in Headers(F) : x \in Span(u, len[u])
      OBVIOUS
    <3>1. PICK u \in Headers(F) : u <= x /\ x < u + len[u]
      BY DEF Right, Tiled
    <3>2. x \in Span(u, len[u])
      BY <2>1, <2>2, <3>1 DEF Span
    <3> QED
      BY <3>2
  <2>5. Headers(F) = (F \ {heap_list}) \cup LiveAt
    BY <1>6 DEF Headers, Pending
  <2>6. \A x : x \in Free \cup UNION {Owned(b) : b \in live} <=>
                 \E u \in Headers(F) : x \in Span(u, len[u])
    <3>1. \A x : x \in Free <=> \E u \in F \ {heap_list} : x \in Span(u, len[u])
      BY <1>1, <1>3 DEF Free
    <3>2. \A x : x \in UNION {Owned(b) : b \in live} <=> \E u \in LiveAt : x \in Span(u, len[u])
      BY <1>2 DEF LiveAt, Owned
    <3> QED
      BY <2>5, <3>1, <3>2
  <2> QED
    BY <2>3, <2>4, <2>6
<1>7. Conserved
  BY <1>1, <1>6 DEF Conserved, Right, Merged
<1>8. RovingListed
  BY <1>1 DEF RovingListed, Right, Local
<1> QED
  BY <1>5, <1>7, <1>8

-----------------------------------------------------------------------------
(***************************************************************************)
(* The calls begin, and look for a block.                                  *)
(***************************************************************************)
LEMMA RightInit == Init => HeapInv
<1> SUFFICES ASSUME Init PROVE HeapInv
  OBVIOUS
<1>1. HeapMax \in Nat /\ 0 < HeapMax /\ heap_list \in Unit
  BY HeapAssumption DEF heap_list, Unit
<1>2. next[heap_list] = heap_list /\ len[heap_list] = 0
  BY <1>1 DEF Init
<1>3. op = Idle /\ op.pc = "idle" /\ live = {} /\ heap_start = NULL /\ heap_end = 1
  BY DEF Init, Idle
<1>4. Idle \in Op
  <2>1. 0 \in 0 .. HeapMax
    BY <1>1
  <2> QED
    BY <2>1 DEF Idle, Op, Pointer
<1>5. TypeOK
  <2>1. 0 \in 0 .. HeapMax /\ 1 \in 1 .. HeapMax
    BY <1>1
  <2>2. next \in [Unit -> Unit] /\ len \in [Unit -> 0 .. HeapMax]
    BY <1>1, <2>1 DEF Init
  <2> QED
    BY <1>3, <1>4, <2>1, <2>2 DEF TypeOK, Init, Pointer
<1> DEFINE F == {heap_list}
<1>6. Headers(F) = {} /\ LiveAt = {} /\ Pending = {}
  BY <1>3 DEF Headers, LiveAt, Pending
<1>7. Linked(next, F)
  BY <1>2 DEF Linked, heap_list
<1>8. Tiled(len, heap_end, {})
  <2>1. 1 .. (heap_end - 1) = {}
    BY <1>3
  <2> QED
    BY <2>1 DEF Tiled
<1>9. Merged(len, F)
  BY <1>2 DEF Merged
<1>10. Parted(F)
  BY <1>3, <1>6 DEF Parted
<1>11. Local(F)
  BY <1>3 DEF Local
<1>12. Right(F)
  BY <1>6, <1>7, <1>8, <1>9, <1>10, <1>11 DEF Right
<1> QED
  BY <1>1, <1>5, <1>12 DEF HeapInv

LEMMA RequestStep ==
  ASSUME TypeOK, NEW F \in SUBSET Unit, Right(F), NEW n \in Sizes, NEW old \in LiveAt \cup {NULL},
         Request(n, old)
  PROVE  TypeOK' /\ Right(F)'
<1> DEFINE start == IF heap_start = NULL THEN heap_list ELSE heap_start
<1>1. /\ op.pc = "idle" /\ heap_start' = start
      /\ op' = [Idle EXCEPT !.pc = "search", !.n = n, !.old = old,
                            !.prev_block = start, !.cur = next[start]]
      /\ UNCHANGED <<next, len, heap_end, live, absorbed>>
  BY DEF Request
<1>2. start \in F /\ next[start] \in F
  BY DEF Right, Local, Linked
<1> HIDE DEF start
<1>3. op' = [pc |-> "search", cur |-> next[start], prev_block |-> start, n |-> n,
             block |-> NULL, old |-> old]
  BY <1>1 DEF Idle
<1>4. LiveAt \subseteq Unit /\ n \in 0 .. HeapMax
  BY HeadersIs, SizeIs
<1>5. op' \in Op
  BY <1>2, <1>3, <1>4 DEF Op, Pointer
<1>6. TypeOK'
  BY <1>1, <1>2, <1>5 DEF TypeOK, Pointer
<1>7. Pending = {} /\ Pending' = {} /\ LiveAt' = LiveAt
  BY <1>1, <1>3 DEF Pending, LiveAt
<1>8. Headers(F)' = Headers(F)
  BY <1>7 DEF Headers
<1>9. Parted(F)'
  BY <1>1, <1>7 DEF Right, Parted
<1>10. Local(F)'
  BY <1>1, <1>2, <1>3, <1>7 DEF Local
<1> QED
  BY <1>1, <1>6, <1>8, <1>9, <1>10 DEF Right

LEMMA SearchOnStep ==
  ASSUME TypeOK, NEW F \in SUBSET Unit, Right(F), SearchOn
  PROVE  TypeOK' /\ Right(F)'
<1>1. /\ op.pc = "search" /\ op' = [op EXCEPT !.prev_block = op.cur, !.cur = next[op.cur]]
      /\ UNCHANGED <<next, len, heap_start, heap_end, live, absorbed>>
  BY DEF SearchOn
<1>2. op.cur \in F /\ next[op.cur] \in F
  BY <1>1 DEF Right, Local, Linked
<1>3. op \in Op
  BY DEF TypeOK
<1>4. /\ op' \in Op /\ op'.pc = "search" /\ op'.n = op.n /\ op'.old = op.old
      /\ op'.prev_block = op.cur /\ op'.cur = next[op.cur]
  BY <1>1, <1>2, <1>3 DEF Op, Pointer
<1>5. TypeOK'
  BY <1>1, <1>4 DEF TypeOK
<1>6. Pending' = Pending /\ LiveAt' = LiveAt
  BY <1>1, <1>4 DEF Pending, LiveAt
<1>7. Headers(F)' = Headers(F)
  BY <1>6 DEF Headers
<1>8. Parted(F)'
  BY <1>1, <1>6 DEF Right, Parted
<1>9. Local(F)'
  <2>1. heap_start' = heap_start /\ live' = live /\ next' = next
    BY <1>1
  <2> QED
    BY <1>1, <1>2, <1>4, <1>6, <2>1 DEF Right, Local
<1> QED
  BY <1>1, <1>5, <1>7, <1>8, <1>9 DEF Right

-----------------------------------------------------------------------------
(***************************************************************************)
(* A block is found.                                                       *)
(***************************************************************************)
\* The block at "at", which G does not list, goes to the caller.
LEMMA Delivered ==
  ASSUME TypeOK, NEW F \in SUBSET Unit, Right(F), op.pc = "search",
         NEW G \in SUBSET F, NEW at \in Unit, at \notin G, at \notin LiveAt,
         len'[at] = op.n, \A b \in live : len'[b.at] = len[b.at],
         heap_start' = op.prev_block, op.prev_block \in G, Deliver(at)
  PROVE  /\ live' \subseteq [at : Unit, n : Sizes] /\ op' \in Op
         /\ heap_start' \in Pointer /\ UNCHANGED <<heap_end, absorbed>>
         /\ LiveAt' \cup Pending' = LiveAt \cup {at} /\ Pending = {}
         /\ Parted(G)' /\ Local(G)'
<1> DEFINE new == [at |-> at, n |-> op.n]
<1>1. op.n \in Sizes /\ op.old \in LiveAt \cup {NULL} /\ op.prev_block \in Unit
  BY DEF Right, Local
<1>2. new \in [at : Unit, n : Sizes] /\ new.at = at /\ new.n = op.n
  BY <1>1
<1>3. /\ LiveAt \cap G = {}
      /\ \A b \in live : len[b.at] = b.n
      /\ \A b, c \in live : b.at = c.at => b = c
  BY DEF Right, Parted
<1>4. live \subseteq [at : Unit, n : Sizes] /\ LiveAt \subseteq Unit /\ NULL \notin Unit
  BY HeadersIs DEF TypeOK, NULL, Unit
<1>5. Pending = {} /\ UNCHANGED <<heap_end, absorbed>> /\ heap_start' \in Pointer
  BY <1>1 DEF Pending, Deliver, Pointer
<1> HIDE DEF new
<1>6. CASE op.old = NULL
  <2>1. op' = Idle /\ live' = live \cup {new}
    BY <1>6 DEF Deliver, new
  <2>2. Idle \in Op /\ op'.pc = "idle"
    <3>1. 0 \in 0 .. HeapMax
      BY HeapAssumption
    <3> QED
      BY <2>1, <3>1 DEF Idle, Op, Pointer
  <2>3. LiveAt' = LiveAt \cup {at} /\ Pending' = {}
    BY <1>2, <2>1, <2>2 DEF LiveAt, Pending
  <2>4. \A b, c \in live' : b.at = c.at => b = c
    BY <1>2, <1>3, <2>1 DEF LiveAt
  <2>5. \A b \in live' : len'[b.at] = b.n
    BY <1>2, <1>3, <2>1
  <2>6. Parted(G)'
    BY <1>3, <2>3, <2>4, <2>5 DEF Parted
  <2>7. Local(G)'
    BY <2>2 DEF Local
  <2> QED
    BY <1>2, <1>4, <1>5, <2>1, <2>2, <2>3, <2>6, <2>7
<1>7. CASE op.old # NULL
  <2>1. /\ op' = FreeFrom(op.prev_block, op.old, [Idle EXCEPT !.pc = "free"])
        /\ live' = {b \in live : b.at # op.old} \cup {new}
    BY <1>7 DEF Deliver, new
  <2>2. op.old \in LiveAt /\ op.old \in Unit /\ op.old # at
    BY <1>1, <1>4, <1>7
  <2>3. op' = [pc |-> "free", cur |-> op.prev_block, prev_block |-> NULL, n |-> 0,
               block |-> op.old, old |-> NULL]
    BY <2>1 DEF FreeFrom, Idle
  <2>4. /\ op' \in Op /\ op'.pc = "free" /\ op'.cur = op.prev_block /\ op'.block = op.old
    <3>1. 0 \in 0 .. HeapMax
      BY HeapAssumption
    <3> QED
      BY <1>1, <2>2, <2>3, <3>1 DEF Op, Pointer
  <2>5. Pending' = {op.old}
    BY <2>4 DEF Pending
  <2>6. LiveAt' = (LiveAt \ {op.old}) \cup {at}
    BY <1>2, <2>1 DEF LiveAt
  <2>7. \A b, c \in live' : b.at = c.at => b = c
    BY <1>2, <1>3, <2>1 DEF LiveAt
  <2>8. \A b \in live' : len'[b.at] = b.n
    BY <1>2, <1>3, <2>1
  <2>9. Parted(G)'
    BY <1>3, <2>2, <2>5, <2>6, <2>7, <2>8 DEF Parted
  <2>10. Local(G)'
    BY <2>2, <2>4 DEF Local
  <2> QED
    BY <1>2, <1>4, <1>5, <2>1, <2>2, <2>4, <2>5, <2>6, <2>9, <2>10
<1> QED
  BY <1>6, <1>7

LEMMA TakeWholeStep ==
  ASSUME TypeOK, NEW F \in SUBSET Unit, Right(F), TakeWhole
  PROVE  TypeOK' /\ \E G \in SUBSET Unit : Right(G)'
<1>1. op.pc = "search" /\ op.prev_block \in F /\ op.cur = next[op.prev_block] /\ op.cur \in F
      /\ op.n \in Sizes
  BY DEF TakeWhole, Right, Local, Linked
<1>2. PICK p \in F, c \in F : p = op.prev_block /\ c = op.cur
  BY <1>1
<1> DEFINE G == F \ {c}
<1>3. /\ len[c] = op.n /\ next' = [next EXCEPT ![p] = next[c]] /\ c = next[p]
      /\ heap_start' = p /\ len' = len /\ Deliver(c)
  BY <1>1, <1>2 DEF TakeWhole
<1>4. next \in [Unit -> Unit] /\ Linked(next, F) /\ next[c] \in F
  BY DEF TypeOK, Right, Linked
<1>5. c # heap_list
  <2>1. len[heap_list] = 0 /\ op.n # 0
    BY <1>1, SizeIs DEF Right, Merged
  <2> QED
    BY <1>3, <2>1
<1>6. Linked(next', G) /\ p < c
  BY <1>3, <1>4, <1>5, Unlinked
<1>7. p \in G /\ c \notin G /\ c \in Unit /\ p \in Unit
  <2>1. p \in Nat /\ c \in Nat
    BY DEF Unit
  <2>2. p # c
    BY <1>6, <2>1
  <2> QED
    BY <2>2
<1>8. c \notin LiveAt /\ G \in SUBSET F /\ G \in SUBSET Unit
  BY DEF Right, Parted
<1> HIDE DEF G
<1>9. /\ live' \subseteq [at : Unit, n : Sizes] /\ op' \in Op
      /\ heap_start' \in Pointer /\ UNCHANGED <<heap_end, absorbed>>
      /\ LiveAt' \cup Pending' = LiveAt \cup {c} /\ Pending = {}
      /\ Parted(G)' /\ Local(G)'
  BY <1>1, <1>2, <1>3, <1>7, <1>8, Delivered
<1>10. next' \in [Unit -> Unit]
  BY <1>3, <1>4, <1>7
<1>11. TypeOK'
  BY <1>3, <1>9, <1>10 DEF TypeOK
<1>12. Headers(G)' = Headers(F)
  <2>1. Headers(G)' = (G \ {heap_list}) \cup (LiveAt' \cup Pending')
    BY DEF Headers
  <2> QED
    BY <1>5, <1>9, <2>1 DEF Headers, G
<1>13. Merged(len', G)
  BY <1>3 DEF Right, Merged, G
<1>14. Tiled(len', heap_end', Headers(G)')
  BY <1>3, <1>9, <1>12 DEF Right
<1>15. Right(G)'
  BY <1>6, <1>9, <1>13, <1>14 DEF Right
<1> QED
  BY <1>8, <1>11, <1>15

\* The tail of a longer block is cut off and becomes a block of its own.
LEMMA TakeTailStep ==
  ASSUME TypeOK, NEW F \in SUBSET Unit, Right(F), TakeTail
  PROVE  TypeOK' /\ Right(F)'
<1>1. op.pc = "search" /\ op.prev_block \in F /\ op.cur = next[op.prev_block] /\ op.cur \in F
      /\ op.n \in Sizes
  BY DEF TakeTail, Right, Local, Linked
<1>2. PICK c \in F, n \in Sizes : c = op.cur /\ n = op.n
  BY <1>1
<1>3. PICK v : v = c + (len[c] - n)
  OBVIOUS
<1>4. /\ n < len[c] /\ len' = [len EXCEPT ![c] = len[c] - n, ![v] = n]
      /\ heap_start' = op.prev_block /\ next' = next /\ Deliver(v)
  BY <1>2, <1>3 DEF TakeTail
<1>5. n \in Nat \ {0} /\ c \in Unit /\ len \in [Unit -> 0 .. HeapMax] /\ len[c] \in Nat
      /\ HeapMax \in Nat /\ heap_end \in Unit
  BY SizeIs, TypeIs
<1>6. c # heap_list /\ c \in Headers(F)
  <2>1. len[heap_list] = 0 /\ ~(n < 0)
    BY <1>5 DEF Right, Merged
  <2> QED
    BY <1>4, <2>1 DEF Headers
<1>7. /\ v \in Unit /\ v \notin Headers(F)
      /\ Tiled(len', heap_end, Headers(F) \cup {v})
  <2>1. Headers(F) \in SUBSET Unit /\ Tiled(len, heap_end, Headers(F))
    BY HeadersIs DEF Right
  <2> QED
    BY <1>3, <1>4, <1>5, <1>6, <2>1, TiledSplit, ZenonT(30)
<1>8. v # heap_list /\ v \notin F /\ v \notin LiveAt
  <2>1. v # 0
    BY <1>3, <1>4, <1>5 DEF Unit
  <2> QED
    BY <1>7, <2>1 DEF Headers, heap_list
<1>9. len'[v] = n /\ len'[c] = len[c] - n /\ \A u \in Unit \ {c, v} : len'[u] = len[u]
  BY <1>4, <1>5, <1>6, <1>7
<1>10. \A b \in live : len'[b.at] = len[b.at]
  <2>1. \A b \in live : b.at \in LiveAt /\ b.at \in Unit
    BY HeadersIs DEF LiveAt
  <2>2. c \notin LiveAt
    BY DEF Right, Parted
  <2> QED
    BY <1>8, <1>9, <2>1, <2>2
<1>11. /\ live' \subseteq [at : Unit, n : Sizes] /\ op' \in Op
       /\ heap_start' \in Pointer /\ UNCHANGED <<heap_end, absorbed>>
       /\ LiveAt' \cup Pending' = LiveAt \cup {v} /\ Pending = {}
       /\ Parted(F)' /\ Local(F)'
  BY <1>1, <1>2, <1>4, <1>7, <1>8, <1>9, <1>10, Delivered
<1>12. len' \in [Unit -> 0 .. HeapMax]
  <2>1. len[c] - n \in 0 .. HeapMax /\ n \in 0 .. HeapMax
    <3>1. len[c] \in 0 .. HeapMax
      BY <1>5
    <3> QED
      BY <1>4, <1>5, <3>1
  <2> QED
    BY <1>4, <1>5, <2>1
<1>13. TypeOK'
  BY <1>4, <1>11, <1>12 DEF TypeOK
<1>14. Headers(F)' = Headers(F) \cup {v}
  <2>1. Headers(F)' = (F \ {heap_list}) \cup (LiveAt' \cup Pending')
    BY DEF Headers
  <2> QED
    BY <1>11, <2>1 DEF Headers
<1>15. Merged(len', F)
  <2>1. len'[heap_list] = 0
    <3>1. heap_list \in Unit
      BY <1>5 DEF heap_list, Unit
    <3> QED
      BY <1>6, <1>8, <1>9, <3>1 DEF Right, Merged
  <2>2. c + len'[c] = v
    BY <1>3, <1>5, <1>9 DEF Unit
  <2>3. \A f \in F : f # c => len'[f] = len[f]
    BY <1>8, <1>9
  <2> QED
    BY <1>8, <2>1, <2>2, <2>3 DEF Right, Merged
<1>16. Tiled(len', heap_end', Headers(F)')
  BY <1>7, <1>11, <1>14
<1> QED
  BY <1>4, <1>11, <1>13, <1>15, <1>16 DEF Right

\* No block fits: the break moves up, or the call returns NULL.
LEMMA SbrkStep ==
  ASSUME TypeOK, NEW F \in SUBSET Unit, Right(F), Sbrk
  PROVE  TypeOK' /\ Right(F)'
<1> DEFINE alloc_sz == IF op.n < NBALLOC THEN NBALLOC ELSE op.n
<1>1. op.pc = "search" /\ UNCHANGED <<next, heap_start, live, absorbed>>
  BY DEF Sbrk
<1>2. op.n \in Sizes /\ op.old \in LiveAt \cup {NULL} /\ heap_start \in F /\ op \in Op
  BY <1>1 DEF Right, Local, TypeOK
<1>3. LiveAt' = LiveAt /\ Pending = {}
  BY <1>1 DEF LiveAt, Pending
<1>4. CASE heap_end + alloc_sz > HeapMax
  <2>1. op' = Idle /\ UNCHANGED <<len, heap_end>>
    BY <1>4 DEF Sbrk
  <2>2. op' \in Op /\ op'.pc = "idle"
    <3>1. 0 \in 0 .. HeapMax
      BY HeapAssumption
    <3> QED
      BY <2>1, <3>1 DEF Idle, Op, Pointer
  <2>3. Pending' = {}
    BY <2>2 DEF Pending
  <2>4. Headers(F)' = Headers(F)
    BY <1>3, <2>3 DEF Headers
  <2>5. TypeOK'
    BY <1>1, <2>1, <2>2 DEF TypeOK
  <2>6. Parted(F)'
    BY <1>1, <1>3, <2>1, <2>3 DEF Right, Parted
  <2>7. Local(F)'
    BY <1>1, <1>2, <2>2 DEF Local
  <2> QED
    BY <1>1, <2>1, <2>4, <2>5, <2>6, <2>7 DEF Right
<1>5. CASE ~(heap_end + alloc_sz > HeapMax)
  <2>1. PICK n \in Nat \ {0}, e \in Unit : n = alloc_sz /\ e = heap_end
    BY <1>2, SizeIs, TypeIs, HeapAssumption
  <2>2. /\ len' = [len EXCEPT ![e] = n] /\ heap_end' = e + n
        /\ op' = FreeFrom(heap_start, e, [op EXCEPT !.pc = "grow"])
    BY <1>5, <2>1 DEF Sbrk
  <2>3. e + n <= HeapMax /\ 0 < e /\ e \in Nat /\ n \in Nat /\ HeapMax \in Nat
    BY <1>5, <2>1, TypeIs
  <2>4. e \notin Headers(F) /\ Tiled(len', e + n, Headers(F) \cup {e})
    <3>1. Headers(F) \in SUBSET Unit /\ Tiled(len, e, Headers(F)) /\ len \in [Unit -> 0 .. HeapMax]
      BY <2>1, HeadersIs, TypeIs DEF Right
    <3> QED
      BY <2>2, <2>3, <3>1, TiledGrown
  <2>5. e # heap_list /\ e \notin F /\ e \notin LiveAt
    BY <2>3, <2>4 DEF Headers, heap_list
  <2>6. /\ op' \in Op /\ op'.pc = "grow" /\ op'.block = e /\ op'.cur = heap_start
        /\ op'.n = op.n /\ op'.old = op.old
    BY <1>2, <2>2 DEF FreeFrom, Op, Pointer
  <2>7. Pending' = {e}
    BY <2>6 DEF Pending
  <2>8. Headers(F)' = Headers(F) \cup {e}
    BY <1>3, <2>7 DEF Headers
  <2>9. \A u \in Unit \ {e} : len'[u] = len[u]
    BY <2>2, TypeIs
  <2>10. TypeOK'
    <3>1. n \in 0 .. HeapMax /\ e + n \in 1 .. HeapMax
      BY <2>3
    <3>2. len' \in [Unit -> 0 .. HeapMax]
      BY <2>2, <3>1, TypeIs
    <3> QED
      BY <1>1, <2>2, <2>6, <3>1, <3>2 DEF TypeOK
  <2>11. Merged(len', F)
    BY <2>5, <2>9, TypeIs DEF Right, Merged
  <2>12. Parted(F)'
    <3>1. \A b \in live : b.at \in LiveAt /\ b.at \in Unit
      BY HeadersIs DEF LiveAt
    <3>2. \A b \in live : len'[b.at] = b.n
      BY <2>5, <2>9, <3>1 DEF Right, Parted
    <3> QED
      BY <1>1, <1>3, <2>5, <2>7, <3>2 DEF Right, Parted
  <2>13. Local(F)'
    BY <1>1, <1>2, <1>3, <2>6 DEF Local
  <2>14. Tiled(len', heap_end', Headers(F)')
    BY <2>2, <2>4, <2>8
  <2> QED
    BY <1>1, <2>10, <2>11, <2>12, <2>13, <2>14 DEF Right
<1> QED
  BY <1>4, <1>5

-----------------------------------------------------------------------------
(***************************************************************************)
(* A block is given back.                                                  *)
(***************************************************************************)
LEMMA KfreeStep ==
  ASSUME TypeOK, NEW F \in SUBSET Unit, Right(F), NEW b \in live, Kfree(b)
  PROVE  TypeOK' /\ Right(F)'
<1>1. /\ op.pc = "idle" /\ live' = live \ {b}
      /\ UNCHANGED <<next, len, heap_start, heap_end, absorbed>>
      /\ op' = FreeFrom(heap_start, b.at, [Idle EXCEPT !.pc = "free"])
  BY DEF Kfree
<1>2. heap_start \in F /\ b.at \in Unit /\ b.at \in LiveAt
  <2>1. b.at \in LiveAt
    BY DEF LiveAt
  <2> QED
    BY <2>1, HeadersIs DEF Right, Local
<1>3. op' = [pc |-> "free", cur |-> heap_start, prev_block |-> NULL, n |-> 0,
             block |-> b.at, old |-> NULL]
  BY <1>1 DEF FreeFrom, Idle
<1>4. op' \in Op /\ op'.pc = "free" /\ op'.cur = heap_start /\ op'.block = b.at
  <2>1. 0 \in 0 .. HeapMax
    BY HeapAssumption
  <2> QED
    BY <1>2, <1>3, <2>1 DEF Op, Pointer
<1>5. LiveAt' = LiveAt \ {b.at} /\ Pending' = {b.at} /\ Pending = {}
  <2>1. \A c \in live : c.at = b.at => c = b
    BY DEF Right, Parted
  <2> QED
    BY <1>1, <1>4, <2>1 DEF LiveAt, Pending
<1>6. Headers(F)' = Headers(F)
  BY <1>2, <1>5 DEF Headers
<1>7. TypeOK'
  BY <1>1, <1>4 DEF TypeOK
<1>8. Parted(F)'
  BY <1>1, <1>2, <1>5 DEF Right, Parted
<1>9. Local(F)'
  BY <1>1, <1>2, <1>4 DEF Local
<1> QED
  BY <1>1, <1>6, <1>7, <1>8, <1>9 DEF Right

LEMMA FreeOnStep ==
  ASSUME TypeOK, NEW F \in SUBSET Unit, Right(F), FreeOn
  PROVE  TypeOK' /\ Right(F)'
<1>1. /\ op.pc \in {"free", "grow"} /\ op' = [op EXCEPT !.cur = next[op.cur]]
      /\ UNCHANGED <<next, len, heap_start, heap_end, live, absorbed>>
  BY DEF FreeOn
<1>2. op.cur \in F /\ next[op.cur] \in F /\ op \in Op /\ op.block \in Unit
  BY <1>1 DEF Right, Local, Linked, TypeOK
<1>3. /\ op' \in Op /\ op'.pc = op.pc /\ op'.n = op.n /\ op'.old = op.old
      /\ op'.cur = next[op.cur] /\ op'.block = op.block
  BY <1>1, <1>2 DEF Op, Pointer
<1>4. TypeOK'
  BY <1>1, <1>3 DEF TypeOK
<1>5. Pending' = Pending /\ LiveAt' = LiveAt
  BY <1>1, <1>3 DEF Pending, LiveAt
<1>6. Headers(F)' = Headers(F)
  BY <1>5 DEF Headers
<1>7. Parted(F)'
  BY <1>1, <1>5 DEF Right, Parted
<1>8. Local(F)'
  BY <1>1, <1>2, <1>3, <1>5 DEF Right, Local
<1> QED
  BY <1>1, <1>4, <1>6, <1>7, <1>8 DEF Right

\* When it does not, no other block begins where b ends.
LEMMA UpApart ==
  ASSUME TypeOK, NEW F \in SUBSET Unit, Right(F), NEW b \in Unit, Pending = {b},
         NEW c \in F, c < b, next[c] = heap_list \/ b < next[c],
         b + len[b] # next[c]
  PROVE  b + len[b] \notin F
<1> SUFFICES ASSUME b + len[b] \in F PROVE FALSE
  OBVIOUS
<1>1. PICK g \in F : g = b + len[b]
  OBVIOUS
<1>2. /\ b \in Headers(F) /\ Tiled(len, heap_end, Headers(F)) /\ Linked(next, F)
  BY DEF Headers, Right
<1>3. 0 < b /\ 0 < len[b] /\ next[c] \in F
  BY <1>2 DEF Tiled, Linked
<1>4. g \in Nat /\ c \in Nat /\ b \in Nat /\ next[c] \in Nat /\ len[b] \in Nat
  BY <1>3, TypeIs
<1>5. c < g
  BY <1>1, <1>3, <1>4
<1>6. next[c] # heap_list /\ next[c] <= g
  BY <1>2, <1>5 DEF Linked
<1>7. next[c] \in Headers(F) /\ b < next[c]
  BY <1>3, <1>6 DEF Headers
<1>8. b + len[b] <= next[c]
  BY <1>2, <1>7 DEF Tiled
<1> QED
  BY <1>1, <1>4, <1>6, <1>8

\* The place where block b is linked: G, nx and l are the list and the
\* lengths when b is merged with its upper neighbour, or not, and blen and
\* bnext what its header holds.
Placed(F, G, nx, l, b, c, blen, bnext) ==
  /\ G \in SUBSET F /\ c \in G
  /\ Linked(nx, G) /\ nx \in [Unit -> Unit] /\ nx[c] = bnext
  /\ bnext = heap_list \/ b < bnext
  /\ Tiled(l, heap_end, (G \ {heap_list}) \cup LiveAt \cup {b})
  /\ l \in [Unit -> 0 .. HeapMax] /\ l[b] = blen
  /\ \A w \in Unit \ {b} : l[w] = len[w]
  /\ \A w \in Unit \ {c} : nx[w] = next[w]
  /\ b + blen \notin G

\* The upper neighbour of block b, if it ends there, is taken off the list
\* and becomes part of b.
LEMMA PlaceMerged ==
  ASSUME TypeOK, NEW F \in SUBSET Unit, Right(F), NEW b \in Unit, Pending = {b},
         NEW c \in F, c < b, next[c] = heap_list \/ b < next[c],
         NEW up, up = next[c], b + len[b] = up
  PROVE  \E nx, l : Placed(F, F \ {up}, nx, l, b, c, len[b] + len[up], next[up])
<1> DEFINE nx == [next EXCEPT ![c] = next[up]]
           l == [len EXCEPT ![b] = len[b] + len[up]]
           G == F \ {up}
<1>1. /\ HeapMax \in Nat /\ heap_end \in Unit
      /\ len \in [Unit -> 0 .. HeapMax] /\ next \in [Unit -> Unit]
      /\ \A w \in Unit : w \in Nat /\ len[w] \in Nat
  BY TypeIs
<1>2. b \in Headers(F) /\ Tiled(len, heap_end, Headers(F)) /\ Linked(next, F)
      /\ Headers(F) \in SUBSET Unit
  BY HeadersIs DEF Headers, Right
<1>3. 0 < b /\ 0 < len[b] /\ up \in F /\ (next[up] \in F) /\ c \in Unit /\ up \in Unit
  BY <1>2 DEF Tiled, Linked
<1>4. up # heap_list
  BY <1>1, <1>3 DEF heap_list
<1>5. Linked(nx, F \ {up}) /\ c < up
  BY <1>1, <1>2, <1>4, Unlinked
<1>6. c # up
  BY <1>1, <1>3, <1>5
<1>7. up \in Headers(F)
  BY <1>3, <1>4 DEF Headers
<1>8. /\ len[b] + len[up] \in 0 .. HeapMax
      /\ Tiled(l, heap_end, Headers(F) \ {up})
  BY <1>1, <1>2, <1>7, TiledJoined
<1>9. l \in [Unit -> 0 .. HeapMax]
  BY <1>1, <1>8
<1>10. next[up] = heap_list \/ b < next[up]
  <2>1. next[up] = heap_list \/ up < next[up]
    BY <1>2, <1>3 DEF Linked
  <2>2. b < up
    BY <1>1, <1>3
  <2>3. next[up] \in Nat /\ up \in Nat
    BY <1>1, <1>3
  <2> QED
    BY <1>1, <2>1, <2>2, <2>3
<1>11. b + (len[b] + len[up]) \notin F
  <2>1. up + len[up] \notin F \ {heap_list, up}
    BY <1>3 DEF Right, Merged
  <2>2. 0 < len[up] /\ len[up] \in Nat /\ up \in Nat /\ b \in Nat /\ len[b] \in Nat
    BY <1>1, <1>2, <1>3, <1>7 DEF Tiled
  <2>3. up + len[up] # up /\ up + len[up] # heap_list /\ b + (len[b] + len[up]) = up + len[up]
    <3> DEFINE k == len[up]
               n == len[b]
    <3>1. b + n = up /\ 0 < k /\ k \in Nat /\ up \in Nat /\ b \in Nat /\ n \in Nat
      BY <2>2
    <3> HIDE DEF k, n
    <3>2. up + k # up /\ up + k # 0 /\ b + (n + k) = up + k
      BY <3>1
    <3> QED
      BY <3>2 DEF k, n, heap_list
  <2> QED
    BY <2>1, <2>3
<1>12. nx \in [Unit -> Unit] /\ nx[c] = next[up] /\ \A w \in Unit \ {c} : nx[w] = next[w]
  BY <1>1, <1>3
<1>13. l[b] = len[b] + len[up] /\ \A w \in Unit \ {b} : l[w] = len[w]
  BY <1>1
<1>14. Headers(F) \ {up} = (G \ {heap_list}) \cup LiveAt \cup {b}
  <2>1. Headers(F) = (F \ {heap_list}) \cup LiveAt \cup {b} /\ b \notin F /\ LiveAt \cap F = {}
    BY DEF Headers, Right, Parted
  <2> QED
    BY <1>3, <2>1
<1>15. G \in SUBSET F /\ c \in G /\ b + (len[b] + len[up]) \notin G
  BY <1>6, <1>11
<1> HIDE DEF nx, l
<1>16. Placed(F, G, nx, l, b, c, len[b] + len[up], next[up])
  BY <1>5, <1>8, <1>9, <1>10, <1>12, <1>13, <1>14, <1>15 DEF Placed
<1> QED
  BY <1>16

LEMMA PlaceApart ==
  ASSUME TypeOK, NEW F \in SUBSET Unit, Right(F), NEW b \in Unit, Pending = {b},
         NEW c \in F, c < b, next[c] = heap_list \/ b < next[c],
         NEW up, up = next[c], b + len[b] # up
  PROVE  Placed(F, F, next, len, b, c, len[b], up)
<1>1. /\ len \in [Unit -> 0 .. HeapMax] /\ next \in [Unit -> Unit]
      /\ Linked(next, F) /\ Tiled(len, heap_end, Headers(F))
  BY TypeIs DEF Right
<1>2. Headers(F) = (F \ {heap_list}) \cup LiveAt \cup {b}
  BY DEF Headers
<1>3. b + len[b] \notin F
  BY UpApart
<1> QED
  BY <1>1, <1>2, <1>3 DEF Placed

\* b becomes part of its lower neighbour.
LEMMA DownMerged ==
  ASSUME TypeOK, NEW F \in SUBSET Unit, Right(F), NEW b \in Unit, Pending = {b}, NEW c, c < b,
         NEW G, NEW nx, NEW l, NEW blen, NEW bnext, Placed(F, G, nx, l, b, c, blen, bnext),
         c + len[c] = b,
         len' = [len EXCEPT ![b] = blen, ![c] = len[c] + blen],
         next' = [next EXCEPT ![b] = bnext, ![c] = bnext]
  PROVE  /\ next' \in [Unit -> Unit] /\ len' \in [Unit -> 0 .. HeapMax]
         /\ Linked(next', G) /\ Merged(len', G)
         /\ Tiled(len', heap_end, (G \ {heap_list}) \cup LiveAt)
<1> DEFINE H == (G \ {heap_list}) \cup LiveAt \cup {b}
<1>1. /\ G \in SUBSET F /\ c \in G
      /\ Linked(nx, G) /\ nx \in [Unit -> Unit] /\ nx[c] = bnext
      /\ Tiled(l, heap_end, H)
      /\ l \in [Unit -> 0 .. HeapMax] /\ l[b] = blen
      /\ \A w \in Unit \ {b} : l[w] = len[w]
      /\ \A w \in Unit \ {c} : nx[w] = next[w]
      /\ b + blen \notin G
  BY DEF Placed
<1>2. /\ HeapMax \in Nat /\ heap_end \in Unit /\ len \in [Unit -> 0 .. HeapMax]
      /\ next \in [Unit -> Unit] /\ \A w \in Unit : w \in Nat /\ len[w] \in Nat
  BY TypeIs
<1>3. c \in Unit /\ c # b /\ b \notin G /\ b \notin LiveAt /\ LiveAt \subseteq Unit
      /\ bnext \in Unit /\ LiveAt \cap G = {}
  <2>1. b \notin F /\ b \notin LiveAt /\ LiveAt \cap F = {}
    BY DEF Right, Parted
  <2> QED
    BY <1>1, <2>1, HeadersIs
<1>4. c # heap_list
  <2>1. len[heap_list] = 0 /\ b \in Nat
    BY <1>2 DEF Right, Merged
  <2> QED
    BY <2>1 DEF heap_list
<1>5. H \in SUBSET Unit /\ c \in H /\ b \in H
  BY <1>1, <1>3, <1>4
<1>6. l[c] = len[c] /\ c + l[c] = b
  BY <1>1, <1>3
<1> HIDE DEF H
<1>7. /\ l[c] + l[b] \in 0 .. HeapMax
      /\ Tiled([l EXCEPT ![c] = l[c] + l[b]], heap_end, H \ {b})
  BY <1>1, <1>2, <1>5, <1>6, TiledJoined
<1>8. len' \in [Unit -> 0 .. HeapMax]
  <2>1. blen \in 0 .. HeapMax /\ len[c] + blen \in 0 .. HeapMax
    BY <1>1, <1>6, <1>7
  <2> QED
    BY <1>2, <2>1
<1>9. next' \in [Unit -> Unit] /\ \A f \in G : next'[f] = nx[f]
  BY <1>1, <1>2, <1>3
<1>10. Linked(next', G)
  <2>1. G \in SUBSET Unit
    BY <1>1
  <2> QED
    BY <1>1, <1>9, <2>1, LinkedSame
<1>11. \A w \in Unit \ {b, c} : len'[w] = len[w] /\ l[w] = len[w]
  BY <1>1, <1>2
<1>12. len'[c] = len[c] + blen
  BY <1>2, <1>3
<1>13. Tiled(len', heap_end, H \ {b})
  <2>1. \A w \in H \ {b} : len'[w] = [l EXCEPT ![c] = l[c] + l[b]][w]
    BY <1>1, <1>5, <1>6, <1>11, <1>12
  <2> QED
    BY <1>7, <2>1, TiledSame, ZenonT(30)
<1>14. H \ {b} = (G \ {heap_list}) \cup LiveAt
  BY <1>3 DEF H
<1>15. Merged(len', G)
  <2>1. len'[heap_list] = 0
    BY <1>3, <1>4, <1>11, TypeIs, HeadersIs DEF Right, Merged, Headers
  <2>2. ASSUME NEW f \in G PROVE f + len'[f] \notin G \ {heap_list, f}
    <3>1. CASE f = c
      <4>1. c + len'[c] = b + blen
        <5>1. blen \in Nat /\ c \in Nat /\ len[c] \in Nat /\ b \in Nat
          <6>1. blen \in 0 .. HeapMax
            BY <1>1
          <6> QED
            BY <1>2, <1>3, <6>1
        <5> QED
          BY <1>12, <5>1
      <4> QED
        BY <1>1, <3>1, <4>1
    <3>2. CASE f # c
      <4>1. f + len[f] \notin F \ {heap_list, f}
        BY <1>1 DEF Right, Merged
      <4>2. len'[f] = len[f]
        BY <1>1, <1>3, <1>11, <3>2
      <4> QED
        BY <1>1, <4>1, <4>2
    <3> QED
      BY <3>1, <3>2
  <2> QED
    BY <2>1, <2>2 DEF Merged
<1> QED
  BY <1>8, <1>9, <1>10, <1>13, <1>14, <1>15

\* b becomes a block of the list.
LEMMA LinkedBehind ==
  ASSUME TypeOK, NEW F \in SUBSET Unit, Right(F), NEW b \in Unit, Pending = {b}, NEW c \in F, c < b,
         next[c] = heap_list \/ b < next[c],
         NEW G, NEW nx, NEW l, NEW blen, NEW bnext, Placed(F, G, nx, l, b, c, blen, bnext),
         c + len[c] # b,
         len' = [len EXCEPT ![b] = blen, ![c] = len[c]],
         next' = [next EXCEPT ![b] = bnext, ![c] = b]
  PROVE  /\ next' \in [Unit -> Unit] /\ len' \in [Unit -> 0 .. HeapMax]
         /\ Linked(next', G \cup {b}) /\ Merged(len', G \cup {b})
         /\ Tiled(len', heap_end, (G \ {heap_list}) \cup LiveAt \cup {b})
<1> DEFINE H == (G \ {heap_list}) \cup LiveAt \cup {b}
<1>1. /\ G \in SUBSET F /\ c \in G
      /\ Linked(nx, G) /\ nx \in [Unit -> Unit] /\ nx[c] = bnext
      /\ bnext = heap_list \/ b < bnext
      /\ Tiled(l, heap_end, H)
      /\ l \in [Unit -> 0 .. HeapMax] /\ l[b] = blen
      /\ \A w \in Unit \ {b} : l[w] = len[w]
      /\ \A w \in Unit \ {c} : nx[w] = next[w]
      /\ b + blen \notin G
  BY DEF Placed
<1>2. /\ HeapMax \in Nat /\ heap_end \in Unit /\ len \in [Unit -> 0 .. HeapMax]
      /\ next \in [Unit -> Unit] /\ \A w \in Unit : w \in Nat /\ len[w] \in Nat
  BY TypeIs
<1>3. c \in Unit /\ c # b /\ b \notin F /\ b \notin G /\ LiveAt \subseteq Unit /\ bnext \in Unit
      /\ G \in SUBSET Unit /\ b # heap_list
  <2>1. b \notin F /\ heap_list \in F
    BY DEF Right, Parted, Linked
  <2> QED
    BY <1>1, <2>1, HeadersIs
<1>4. next' \in [Unit -> Unit] /\ len' \in [Unit -> 0 .. HeapMax]
  <2>1. blen \in 0 .. HeapMax /\ len[c] \in 0 .. HeapMax
    BY <1>1, <1>2, <1>3
  <2> QED
    BY <1>2, <1>3, <2>1
<1>5. Linked(next', G \cup {b})
  <2> DEFINE ny == [nx EXCEPT ![b] = nx[c], ![c] = b]
  <2>1. Linked(ny, G \cup {b})
    BY <1>1, <1>3, LinkedIn
  <2>2. \A f \in G \cup {b} : next'[f] = ny[f]
    BY <1>1, <1>2, <1>3
  <2>3. G \cup {b} \in SUBSET Unit
    BY <1>3
  <2> HIDE DEF ny
  <2> QED
    BY <2>1, <2>2, <2>3, LinkedSame
<1>6. len'[b] = blen /\ \A w \in Unit \ {b} : len'[w] = len[w]
  BY <1>2, <1>3
<1>7. Tiled(len', heap_end, H)
  <2>1. \A w \in H : w \in Unit
    BY <1>3
  <2> HIDE DEF H
  <2>2. \A w \in H : len'[w] = l[w]
    BY <1>1, <1>6, <2>1
  <2> QED
    BY <1>1, <2>2, TiledSame
<1>8. \A f \in F : f # heap_list => f + len[f] # b
  <2> SUFFICES ASSUME NEW f \in F, f # heap_list, f + len[f] = b PROVE FALSE
    OBVIOUS
  <2>1. f \in Headers(F) /\ Tiled(len, heap_end, Headers(F)) /\ Linked(next, F)
    BY DEF Headers, Right
  <2>2. f \in Nat /\ c \in Nat /\ b \in Nat /\ len[f] \in Nat /\ 0 < len[f] /\ f # c
    BY <1>2, <1>3, <2>1 DEF Tiled
  <2>3. CASE f < c
    <3>1. c \in Headers(F)
      <4>1. c # 0
        BY <2>2, <2>3
      <4> QED
        BY <4>1 DEF Headers, heap_list
    <3>2. f + len[f] <= c
      BY <2>1, <2>3, <3>1 DEF Tiled
    <3> QED
      BY <2>2, <3>2
  <2>4. CASE c < f
    <3>1. next[c] # heap_list /\ next[c] <= f /\ next[c] \in F
      BY <2>1, <2>4 DEF Linked
    <3>2. b < next[c] /\ next[c] \in Nat
      BY <1>2, <3>1
    <3> QED
      BY <2>2, <3>1, <3>2
  <2> QED
    BY <2>2, <2>3, <2>4
<1>9. Merged(len', G \cup {b})
  <2>1. len'[heap_list] = 0 /\ len[heap_list] = 0
    BY <1>3, <1>6, TypeIs DEF Right, Merged
  <2>2. b + len'[b] \notin (G \cup {b}) \ {heap_list, b}
    BY <1>1, <1>6
  <2>3. ASSUME NEW f \in G PROVE f + len'[f] \notin (G \cup {b}) \ {heap_list, f}
    <3>1. len'[f] = len[f] /\ f \in F /\ f + len[f] \notin F \ {heap_list, f}
      BY <1>1, <1>3, <1>6 DEF Right, Merged
    <3>2. f + len[f] # b
      <4>1. CASE f = heap_list
        BY <1>3, <2>1, <4>1 DEF heap_list
      <4>2. CASE f # heap_list
        BY <1>8, <3>1, <4>2
      <4> QED
        BY <4>1, <4>2
    <3> QED
      BY <1>1, <3>1, <3>2
  <2> QED
    BY <2>1, <2>2, <2>3 DEF Merged
<1> QED
  BY <1>4, <1>5, <1>7, <1>9

\* Once the block is in, the call is over, or goes on with its search.
LEMMA FreeLinkDone ==
  ASSUME TypeOK, NEW F \in SUBSET Unit, Right(F), FreeLink,
         NEW G \in SUBSET (F \cup {op.block}), heap_start \in G,
         next' \in [Unit -> Unit], len' \in [Unit -> 0 .. HeapMax],
         Linked(next', G), Merged(len', G),
         Tiled(len', heap_end, (G \ {heap_list}) \cup LiveAt),
         \A a \in LiveAt : len'[a] = len[a]
  PROVE  TypeOK' /\ Right(G)' /\ G \in SUBSET Unit
<1>1. /\ op.pc \in {"free", "grow"} /\ UNCHANGED <<heap_start, heap_end, live>>
      /\ absorbed' \in BOOLEAN
      /\ op' = IF op.pc = "free" THEN Idle
               ELSE [op EXCEPT !.pc = "search", !.block = NULL,
                               !.prev_block = heap_start, !.cur = next'[heap_start]]
  BY DEF FreeLink
<1>2. op \in Op /\ op.block \in Unit /\ Pending = {op.block}
  BY <1>1 DEF TypeOK, Right, Local, Pending
<1>3. G \in SUBSET Unit /\ next'[heap_start] \in Unit /\ heap_start \in Unit
  BY <1>2
<1>4. /\ op' \in Op /\ op'.pc \in {"idle", "search"}
      /\ op'.pc = "search" => /\ op'.prev_block = heap_start /\ op'.cur = next'[heap_start]
                              /\ op'.n = op.n /\ op'.old = op.old /\ op.pc = "grow"
  <2>1. CASE op.pc = "free"
    <3>1. 0 \in 0 .. HeapMax
      BY HeapAssumption
    <3> QED
      BY <1>1, <2>1, <3>1 DEF Op, Idle, Pointer
  <2>2. CASE op.pc = "grow"
    <3>1. op' = [pc |-> "search", cur |-> next'[heap_start], prev_block |-> heap_start,
                 n |-> op.n, block |-> NULL, old |-> op.old]
      BY <1>1, <1>2, <2>2 DEF Op
    <3> QED
      BY <1>2, <1>3, <2>2, <3>1 DEF Op, Pointer
  <2> QED
    BY <1>1, <2>1, <2>2
<1>5. TypeOK'
  BY <1>1, <1>4 DEF TypeOK
<1>6. LiveAt' = LiveAt /\ Pending' = {}
  BY <1>1, <1>4 DEF LiveAt, Pending
<1>7. Headers(G)' = (G \ {heap_list}) \cup LiveAt
  BY <1>6 DEF Headers
<1>8. Parted(G)'
  <2>1. LiveAt \cap F = {} /\ op.block \notin LiveAt
    BY <1>2 DEF Right, Parted
  <2>2. \A b \in live : b.at \in LiveAt
    BY DEF LiveAt
  <2>3. \A b \in live' : len'[b.at] = b.n
    BY <1>1, <2>2 DEF Right, Parted
  <2>4. \A b, c \in live' : b.at = c.at => b = c
    BY <1>1 DEF Right, Parted
  <2>5. LiveAt \cap G = {}
    BY <2>1
  <2> QED
    BY <1>6, <2>3, <2>4, <2>5 DEF Parted
<1>9. Local(G)'
  BY <1>1, <1>4, <1>6 DEF Right, Local
<1> QED
  BY <1>1, <1>3, <1>5, <1>7, <1>8, <1>9 DEF Right

LEMMA FreeLinkStep ==
  ASSUME TypeOK, NEW F \in SUBSET Unit, Right(F), FreeLink, ~absorbed'
  PROVE  TypeOK' /\ \E G \in SUBSET Unit : Right(G)'
<1>1. PICK b \in Unit : b = op.block
  BY DEF FreeLink, Right, Local
<1>2. PICK c \in F : c = op.cur
  BY DEF FreeLink, Right, Local
<1>3. PICK up \in F : up = next[c]
  BY DEF Right, Linked
<1>4. Pending = {b} /\ b \notin F /\ b \notin LiveAt /\ LiveAt \cap F = {} /\ heap_start \in F
  BY <1>1 DEF FreeLink, Right, Parted, Local, Pending
<1>5. c < b /\ (up = heap_list \/ b < up)
  <2>1. /\ up = heap_list \/ c < up
        /\ b \in Nat /\ c \in Nat /\ up \in Nat /\ b # c
    BY <1>3, <1>4, TypeIs DEF Right, Linked
  <2>2. (c < b /\ b < up) \/ (c >= up /\ (b > c \/ b < up))
    BY <1>1, <1>2, <1>3 DEF FreeLink, Between, AtEnd
  <2> QED
    BY <2>1, <2>2 DEF heap_list
<1>6. next[c] = heap_list \/ b < next[c]
  BY <1>3, <1>5
<1>7. PICK blen, bnext :
        /\ b + len[b] = up => blen = len[b] + len[up] /\ bnext = next[up] /\ up # heap_start
        /\ b + len[b] # up => blen = len[b] /\ bnext = up
        /\ len' = [len EXCEPT ![b] = blen, ![c] = IF c + len[c] = b THEN @ + blen ELSE @]
        /\ next' = [next EXCEPT ![b] = bnext, ![c] = IF c + len[c] = b THEN bnext ELSE b]
  <2> DEFINE k == IF b + len[b] = up THEN len[b] + len[up] ELSE len[b]
             n == IF b + len[b] = up THEN next[up] ELSE up
  <2>1. /\ len' = [len EXCEPT ![b] = k, ![c] = IF c + len[c] = b THEN @ + k ELSE @]
        /\ next' = [next EXCEPT ![b] = n, ![c] = IF c + len[c] = b THEN n ELSE b]
    BY <1>1, <1>2, <1>3 DEF FreeLink
  <2>2. ~(b + len[b] = up /\ up = heap_start)
    BY <1>1, <1>2, <1>3 DEF FreeLink
  <2>3. /\ b + len[b] = up => k = len[b] + len[up] /\ n = next[up] /\ up # heap_start
        /\ b + len[b] # up => k = len[b] /\ n = up
    BY <2>2
  <2> HIDE DEF k, n
  <2> QED
    BY <2>1, <2>3
<1>8. PICK G, nx, l : Placed(F, G, nx, l, b, c, blen, bnext) /\ heap_start \in G
  <2>1. CASE b + len[b] = up
    <3>1. PICK nx, l : Placed(F, F \ {up}, nx, l, b, c, len[b] + len[up], next[up])
      BY <1>3, <1>4, <1>5, <1>6, <2>1, PlaceMerged
    <3>2. Placed(F, F \ {up}, nx, l, b, c, blen, bnext)
      BY <1>7, <2>1, <3>1
    <3> QED
      BY <1>4, <1>7, <2>1, <3>2
  <2>2. CASE b + len[b] # up
    <3>1. Placed(F, F, next, len, b, c, len[b], up)
      BY <1>3, <1>4, <1>5, <1>6, <2>2, PlaceApart
    <3> QED
      BY <1>4, <1>7, <2>2, <3>1
  <2> QED
    BY <2>1, <2>2
<1>9. G \in SUBSET F
  BY <1>8 DEF Placed
<1>10. b # c /\ c \notin LiveAt /\ LiveAt \subseteq Unit /\ len \in [Unit -> 0 .. HeapMax]
       /\ next \in [Unit -> Unit]
  BY <1>4, TypeIs, HeadersIs
<1>11. CASE c + len[c] = b
  <2>1. /\ len' = [len EXCEPT ![b] = blen, ![c] = len[c] + blen]
        /\ next' = [next EXCEPT ![b] = bnext, ![c] = bnext]
    BY <1>7, <1>10, <1>11
  <2>2. /\ next' \in [Unit -> Unit] /\ len' \in [Unit -> 0 .. HeapMax]
        /\ Linked(next', G) /\ Merged(len', G)
        /\ Tiled(len', heap_end, (G \ {heap_list}) \cup LiveAt)
    BY <1>4, <1>5, <1>8, <1>11, <2>1, DownMerged
  <2>3. \A a \in LiveAt : len'[a] = len[a]
    BY <1>4, <1>10, <2>1
  <2>4. G \in SUBSET (F \cup {op.block})
    BY <1>9
  <2> QED
    BY <1>8, <2>2, <2>3, <2>4, FreeLinkDone
<1>12. CASE c + len[c] # b
  <2>1. /\ len' = [len EXCEPT ![b] = blen, ![c] = len[c]]
        /\ next' = [next EXCEPT ![b] = bnext, ![c] = b]
    BY <1>7, <1>10, <1>12
  <2>2. /\ next' \in [Unit -> Unit] /\ len' \in [Unit -> 0 .. HeapMax]
        /\ Linked(next', G \cup {b}) /\ Merged(len', G \cup {b})
        /\ Tiled(len', heap_end, (G \ {heap_list}) \cup LiveAt \cup {b})
    BY <1>4, <1>5, <1>6, <1>8, <1>12, <2>1, LinkedBehind
  <2>3. \A a \in LiveAt : len'[a] = len[a]
    BY <1>4, <1>10, <2>1
  <2> DEFINE K == G \cup {b}
  <2>4. K \in SUBSET (F \cup {op.block}) /\ heap_start \in K
    BY <1>1, <1>8, <1>9
  <2>5. (K \ {heap_list}) \cup LiveAt = (G \ {heap_list}) \cup LiveAt \cup {b}
    <3>1. heap_list \in F
      BY DEF Right, Linked
    <3> QED
      BY <1>4, <3>1
  <2> HIDE DEF K
  <2>6. Linked(next', K) /\ Merged(len', K) /\ Tiled(len', heap_end, (K \ {heap_list}) \cup LiveAt)
    BY <2>2, <2>5 DEF K
  <2> QED
    BY <2>2, <2>3, <2>4, <2>6, FreeLinkDone
<1> QED
  BY <1>11, <1>12

-----------------------------------------------------------------------------
(***************************************************************************)
(* The theorems.                                                           *)
(***************************************************************************)
\* Every step keeps the heap right, but the merge that absorbs heap_start.
LEMMA StepIsRight ==
  ASSUME HeapInv, [Next]_vars, ~absorbed'
  PROVE  HeapInv'
<1>1. PICK F \in SUBSET Unit : Right(F)
  BY DEF HeapInv
<1>2. TypeOK
  BY DEF HeapInv
<1>3. ASSUME NEW n \in Sizes, Kmalloc(n) PROVE HeapInv'
  <2>1. NULL \in LiveAt \cup {NULL} /\ Request(n, NULL)
    BY <1>3 DEF Kmalloc
  <2> QED
    BY <1>1, <1>2, <2>1, RequestStep DEF HeapInv
<1>4. ASSUME NEW b \in live, NEW n \in Sizes, Krealloc(b, n) PROVE HeapInv'
  <2>1. PICK old \in LiveAt \cup {NULL} : old = b.at
    BY DEF LiveAt
  <2>2. Request(n, old)
    BY <1>4, <2>1 DEF Krealloc
  <2> QED
    BY <1>1, <1>2, <2>2, RequestStep DEF HeapInv
<1>5. ASSUME NEW b \in live, Kfree(b) PROVE HeapInv'
  BY <1>1, <1>2, <1>5, KfreeStep DEF HeapInv
<1>6. CASE TakeWhole
  BY <1>1, <1>2, <1>6, TakeWholeStep DEF HeapInv
<1>7. CASE TakeTail
  BY <1>1, <1>2, <1>7, TakeTailStep DEF HeapInv
<1>8. CASE SearchOn
  BY <1>1, <1>2, <1>8, SearchOnStep DEF HeapInv
<1>9. CASE Sbrk
  BY <1>1, <1>2, <1>9, SbrkStep DEF HeapInv
<1>10. CASE FreeOn
  BY <1>1, <1>2, <1>10, FreeOnStep DEF HeapInv
<1>11. CASE FreeLink
  BY <1>1, <1>2, <1>11, FreeLinkStep DEF HeapInv
<1>12. CASE UNCHANGED vars
  <2>1. TypeOK'
    BY <1>2, <1>12 DEF TypeOK, vars
  <2>2. Right(F)'
    BY <1>1, <1>12 DEF vars, Right, Linked, Tiled, Headers, Merged, Parted, Local, LiveAt, Pending
  <2> QED
    BY <2>1, <2>2 DEF HeapInv
<1> QED
  BY <1>3, <1>4, <1>5, <1>6, <1>7, <1>8, <1>9, <1>10, <1>11, <1>12 DEF Next, Search, Release

\* What the merge has spoilt stays so.
LEMMA AbsorbedStays == ASSUME absorbed = TRUE, [Next]_vars PROVE absorbed' = TRUE
BY DEF Next, Kmalloc, Krealloc, Request, Kfree, Search, Release, TakeWhole, TakeTail, Deliver,
       SearchOn, Sbrk, FreeOn, FreeLink, vars

\* The free list is in address order, ends where it began and shares the
\* memory below the break with the blocks of the callers, in whatever order
\* they allocate, move and free, until kfree merges the roving pointer's
\* block into the one below it (mem.c 60-103).
THEOREM HeapInvCorrect == Spec => [](~absorbed => HeapInv)
<1> DEFINE Inv == ~absorbed => HeapInv
<1>1. Init => Inv
  BY RightInit
<1>2. Inv /\ [Next]_vars => Inv'
  <2> SUFFICES ASSUME Inv, [Next]_vars, ~absorbed' PROVE HeapInv'
    OBVIOUS
  <2>1. ~absorbed
    <3> SUFFICES ASSUME absorbed PROVE FALSE
      OBVIOUS
    <3> QED
      BY AbsorbedStays
  <2> QED
    BY <2>1, StepIsRight
<1> HIDE DEF Inv
<1>3. Spec => []Inv
  BY <1>1, <1>2, PTL DEF Spec
<1> QED
  BY <1>3 DEF Inv

\* Headers, break and locals are inside the heap until that merge.
THEOREM HeapTypeCorrect == Spec => [](~absorbed => TypeOK)
<1>1. (~absorbed => HeapInv) => (~absorbed => TypeOK)
  BY DEF HeapInv
<1> QED
  BY <1>1, HeapInvCorrect, PTL

\* That merge is the only way in which memory is given to two callers, is lost,
\* or the roving pointer leaves the list.
THEOREM OnlyByMergeCorrect == Spec => []OnlyByMerge
<1>1. (~absorbed => HeapInv) => OnlyByMerge
  <2> SUFFICES ASSUME HeapInv PROVE NoOverlap /\ Conserved /\ RovingListed
    BY DEF OnlyByMerge
  <2> QED
    BY HeapIsRight DEF HeapInv
<1> QED
  BY <1>1, HeapInvCorrect, PTL
=============================================================================
