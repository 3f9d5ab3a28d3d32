---------------------------- MODULE Fat32_proofs ----------------------------
(***************************************************************************)
(* Proofs for Fat32, for cards with any table, directory and files: chains *)
(* that are straight, short or loops, any geometry, any number of failing  *)
(* accesses.                                                               *)
(***************************************************************************)
EXTENDS Fat32, SequenceTheorems, FiniteSetTheorems, WellFoundedInduction, TLAPS

-----------------------------------------------------------------------------
(***************************************************************************)
(* Recursive functions.                                                    *)
(***************************************************************************)
LEMMA LeastExists ==
  ASSUME NEW S \in SUBSET Nat, S # {}
  PROVE  \E i \in S : \A j \in S : i <= j
<1>1. PICK i \in S : \A j \in S : ~(<<j, i>> \in OpToRel(<, Nat))
  BY NatLessThanWellFounded, WFMin
<1>2. \A j \in S : i <= j
  <2> SUFFICES ASSUME NEW j \in S PROVE i <= j
    OBVIOUS
  <2>1. i \in Nat /\ j \in Nat
    OBVIOUS
  <2>2. ~(j < i)
    <3> DEFINE pair == <<j, i>>
    <3>1. pair \notin {ss \in Nat \X Nat : ss[1] < ss[2]}
      BY <1>1 DEF OpToRel
    <3>2. pair \in Nat \X Nat /\ pair[1] = j /\ pair[2] = i
      BY <2>1
    <3> HIDE DEF pair
    <3> QED
      BY <3>1, <3>2
  <2> QED
    BY <2>1, <2>2
<1> QED
  BY <1>2

\* Induction, on the set of the numbers that have the property.
LEMMA Induction ==
  ASSUME NEW S, 0 \in S, \A n \in Nat : n \in S => n + 1 \in S
  PROVE  \A n \in Nat : n \in S
<1> DEFINE Bad == {n \in Nat : n \notin S}
<1> SUFFICES ASSUME Bad # {} PROVE FALSE
  OBVIOUS
<1>1. PICK n \in Bad : \A m \in Bad : n <= m
  <2>1. Bad \in SUBSET Nat
    OBVIOUS
  <2> HIDE DEF Bad
  <2> QED
    BY <2>1, LeastExists
<1>2. n \in Nat /\ n # 0 /\ n \notin S
  OBVIOUS
<1>3. n - 1 \in Nat /\ (n - 1) + 1 = n /\ ~(n <= n - 1)
  BY <1>2
<1>4. n - 1 \notin Bad
  BY <1>1, <1>3
<1> QED
  BY <1>2, <1>3, <1>4

\* What starts at c and goes on with step, for n steps.
Iterates(step, c, n) ==
  {g \in [0 .. n -> UNION {DOMAIN step[i] : i \in Nat}] :
     g[0] = c /\ \A i \in 0 .. (n - 1) : g[i + 1] = step[i][g[i]]}

LEMMA IteratesExist ==
  ASSUME NEW S, NEW step \in [Nat -> [S -> S]], NEW c \in S
  PROVE  \A n \in Nat : \E g \in Iterates(step, c, n) : g \in [0 .. n -> S]
<1> DEFINE Good == {n \in Nat : \E g \in Iterates(step, c, n) : g \in [0 .. n -> S]}
<1>0. UNION {DOMAIN step[i] : i \in Nat} = S
  OBVIOUS
<1>1. 0 \in Good
  <2> SUFFICES \E g \in Iterates(step, c, 0) : g \in [0 .. 0 -> S]
    OBVIOUS
  <2> DEFINE g == [i \in 0 .. 0 |-> c]
  <2>1. g \in [0 .. 0 -> S] /\ g[0] = c /\ 0 .. (0 - 1) = {}
    OBVIOUS
  <2> HIDE DEF g
  <2> QED
    BY <1>0, <2>1 DEF Iterates
<1>2. ASSUME NEW m \in Nat, m \in Good PROVE m + 1 \in Good
  <2>1. PICK g \in Iterates(step, c, m) : g \in [0 .. m -> S]
    BY <1>2
  <2>2. PICK n \in Nat : n = m + 1
    BY <1>2
  <2>3. g[0] = c /\ \A i \in 0 .. (m - 1) : g[i + 1] = step[i][g[i]]
    BY <2>1 DEF Iterates
  <2> DEFINE h == [i \in 0 .. n |-> IF i = n THEN step[m][g[m]] ELSE g[i]]
  <2>4. /\ m \in 0 .. m /\ \A i \in 0 .. n : i # n => i \in 0 .. m
        /\ 0 \in 0 .. n /\ 0 # n /\ m \in 0 .. n /\ m # n /\ n \in 0 .. n
    BY <2>2
  <2>5. h \in [0 .. n -> S] /\ h[0] = c
    <3>1. step[m][g[m]] \in S /\ \A i \in 0 .. n : i # n => g[i] \in S
      BY <2>1, <2>4
    <3> QED
      BY <2>3, <2>4, <3>1
  <2>6. \A i \in 0 .. (n - 1) : h[i + 1] = step[i][h[i]]
    <3> SUFFICES ASSUME NEW i \in 0 .. (n - 1) PROVE h[i + 1] = step[i][h[i]]
      OBVIOUS
    <3>1. i \in 0 .. n /\ i # n /\ i + 1 \in 0 .. n
      BY <2>2
    <3>2. CASE i = m
      BY <2>2, <3>1, <3>2
    <3>3. CASE i # m
      <4>1. i \in 0 .. (m - 1) /\ i + 1 # n
        BY <2>2, <3>3
      <4> QED
        BY <2>3, <3>1, <4>1
    <3> QED
      BY <3>2, <3>3
  <2> HIDE DEF h
  <2>7. h \in Iterates(step, c, n)
    BY <1>0, <2>5, <2>6 DEF Iterates
  <2> QED
    BY <2>2, <2>5, <2>7
<1> HIDE DEF Good
<1>3. \A n \in Nat : n \in Good
  BY <1>1, <1>2, Induction
<1> QED
  BY <1>3 DEF Good

\* They agree as far as they go.
LEMMA IteratesAgree ==
  ASSUME NEW step, NEW c, NEW m \in Nat, NEW n \in Nat, m <= n,
         NEW g \in Iterates(step, c, m), NEW h \in Iterates(step, c, n)
  PROVE  g[m] = h[m]
<1> DEFINE Same == {i \in Nat : i <= m => g[i] = h[i]}
<1>1. 0 \in Same
  BY DEF Iterates
<1>2. ASSUME NEW i \in Nat, i \in Same PROVE i + 1 \in Same
  <2> SUFFICES ASSUME i + 1 <= m PROVE g[i + 1] = h[i + 1]
    OBVIOUS
  <2>1. i \in 0 .. (m - 1) /\ i \in 0 .. (n - 1)
    OBVIOUS
  <2>2. g[i + 1] = step[i][g[i]] /\ h[i + 1] = step[i][h[i]]
    BY <2>1 DEF Iterates
  <2>3. g[i] = h[i]
    BY <1>2
  <2> QED
    BY <2>2, <2>3
<1> HIDE DEF Same
<1>3. m \in Same
  BY <1>1, <1>2, Induction
<1> QED
  BY <1>3 DEF Same

Iteration(f, step, c) == f[0] = c /\ \A n \in Nat : f[n + 1] = step[n][f[n]]

LEMMA Iterate ==
  ASSUME NEW S, NEW step \in [Nat -> [S -> S]], NEW c \in S
  PROVE  \E f \in [Nat -> S] : Iteration(f, step, c)
<1> DEFINE G == [n \in Nat |-> CHOOSE g \in Iterates(step, c, n) : g \in [0 .. n -> S]]
           f == [n \in Nat |-> G[n][n]]
<1>1. \A n \in Nat : G[n] \in Iterates(step, c, n) /\ G[n] \in [0 .. n -> S]
  BY IteratesExist
<1> HIDE DEF G
<1>2. \A n \in Nat : G[n][0] = c /\ \A i \in 0 .. (n - 1) : G[n][i + 1] = step[i][G[n][i]]
  BY <1>1 DEF Iterates
<1>3. \A n \in Nat : n \in 0 .. n
  OBVIOUS
<1>4. f \in [Nat -> S]
  BY <1>1, <1>3
<1>5. f[0] = c
  BY <1>2
<1>6. \A n \in Nat : f[n + 1] = step[n][f[n]]
  <2> SUFFICES ASSUME NEW n \in Nat PROVE f[n + 1] = step[n][f[n]]
    OBVIOUS
  <2>1. n + 1 \in Nat /\ n <= n + 1 /\ n \in 0 .. ((n + 1) - 1)
    OBVIOUS
  <2>2. G[n + 1][n + 1] = step[n][G[n + 1][n]]
    BY <1>2, <2>1
  <2>3. G[n][n] = G[n + 1][n]
    BY <1>1, <2>1, IteratesAgree
  <2> QED
    BY <2>1, <2>2, <2>3
<1> HIDE DEF f
<1>7. Iteration(f, step, c)
  BY <1>5, <1>6 DEF Iteration
<1> QED
  BY <1>4, <1>7

-----------------------------------------------------------------------------
(***************************************************************************)
(* Chains and directories.                                                 *)
(***************************************************************************)
\* A chain goes on until the table ends it.
LEMMA ChainIs ==
  ASSUME NEW d \in Disks, NEW c \in Clusters(d)
  PROVE  /\ Chain(d, c)[0] = c
         /\ \A n \in Nat : /\ Chain(d, c)[n] \in Clusters(d) \cup {EOC}
                           /\ Chain(d, c)[n + 1] = IF Chain(d, c)[n] = EOC THEN EOC
                                                   ELSE d.fat[Chain(d, c)[n]]
<1>s. PICK S : S = Clusters(d) \cup {EOC}
  OBVIOUS
<1> DEFINE go[n \in Nat] == IF n = 0 THEN c
                            ELSE LET b == go[n - 1] IN IF b = EOC THEN EOC ELSE d.fat[b]
<1>1. PICK step \in [Nat -> [S -> S]] :
        step = [n \in Nat |-> [b \in S |-> IF b = EOC THEN EOC ELSE d.fat[b]]]
  BY <1>s, DiskAssumption
<1>2. PICK f \in [Nat -> S] : Iteration(f, step, c)
  <2>1. c \in S
    BY <1>s
  <2> QED
    BY <2>1, Iterate
<1>3. \A n \in Nat : n # 0 => f[n] = IF f[n - 1] = EOC THEN EOC ELSE d.fat[f[n - 1]]
  <2> SUFFICES ASSUME NEW n \in Nat, n # 0
               PROVE  f[n] = IF f[n - 1] = EOC THEN EOC ELSE d.fat[f[n - 1]]
    OBVIOUS
  <2>1. n - 1 \in Nat /\ (n - 1) + 1 = n
    OBVIOUS
  <2> QED
    BY <1>1, <1>2, <2>1 DEF Iteration
<1>4. f = [n \in Nat |-> IF n = 0 THEN c
                         ELSE LET b == f[n - 1] IN IF b = EOC THEN EOC ELSE d.fat[b]]
  BY <1>2, <1>3 DEF Iteration
<1>5. go = [n \in Nat |-> IF n = 0 THEN c
                          ELSE LET b == go[n - 1] IN IF b = EOC THEN EOC ELSE d.fat[b]]
  <2>1. \E g : g = [n \in Nat |-> IF n = 0 THEN c
                                  ELSE LET b == g[n - 1] IN IF b = EOC THEN EOC ELSE d.fat[b]]
    BY <1>4
  <2> QED
    BY <2>1
<1>6. Chain(d, c) = go
  BY DEF Chain
<1> HIDE DEF go
<1>7. go[0] = c
  BY <1>5
<1>8. \A n \in Nat : go[n + 1] = IF go[n] = EOC THEN EOC ELSE d.fat[go[n]]
  <2> SUFFICES ASSUME NEW n \in Nat PROVE go[n + 1] = IF go[n] = EOC THEN EOC ELSE d.fat[go[n]]
    OBVIOUS
  <2>1. n + 1 \in Nat /\ n + 1 # 0 /\ (n + 1) - 1 = n
    OBVIOUS
  <2> QED
    BY <1>5, <2>1
<1> DEFINE Good == {n \in Nat : go[n] \in S}
<1>9. 0 \in Good
  BY <1>s, <1>7
<1>10. ASSUME NEW n \in Nat, n \in Good PROVE n + 1 \in Good
  <2>1. d.fat \in [Clusters(d) -> S]
    BY <1>s, DiskAssumption
  <2> QED
    BY <1>s, <1>8, <1>10, <2>1
<1> HIDE DEF Good
<1>11. \A n \in Nat : n \in Good
  BY <1>9, <1>10, Induction
<1> QED
  BY <1>s, <1>6, <1>7, <1>8, <1>11 DEF Good

\* What is left of a list of entries is a list of files.
LEMMA ListedIs ==
  ASSUME NEW S, NEW n \in Nat, NEW s, s = [i \in 1 .. n |-> s[i]],
         \A i \in 1 .. n : s[i] \in S \cup {Skipped, EndMark}
  PROVE  Listed(s) \in Seq(S)
<1> DEFINE upto[i \in 0 .. n] ==
             IF i = 0 THEN <<>>
             ELSE IF s[i] \in {Skipped, EndMark} THEN upto[i - 1] ELSE Append(upto[i - 1], s[i])
<1>1. PICK T : T = Seq(S)
  OBVIOUS
<1>2. \A i \in 1 .. n : \A t \in T : s[i] \in {Skipped, EndMark} \/ Append(t, s[i]) \in T
  BY <1>1
<1>3. PICK step \in [Nat -> [T -> T]] :
        step = [i \in Nat |-> [t \in T |->
                  IF i + 1 \notin 1 .. n \/ s[i + 1] \in {Skipped, EndMark} THEN t
                  ELSE Append(t, s[i + 1])]]
  BY <1>2
<1>4. <<>> \in T
  BY <1>1
<1>5. PICK f \in [Nat -> T] : Iteration(f, step, <<>>)
  BY <1>4, Iterate
<1>6. \A i \in 1 .. n : f[i] = IF s[i] \in {Skipped, EndMark} THEN f[i - 1] ELSE Append(f[i - 1], s[i])
  <2> SUFFICES ASSUME NEW i \in 1 .. n
               PROVE  f[i] = IF s[i] \in {Skipped, EndMark} THEN f[i - 1] ELSE Append(f[i - 1], s[i])
    OBVIOUS
  <2>1. i - 1 \in Nat /\ (i - 1) + 1 = i
    OBVIOUS
  <2>2. f[i] = step[i - 1][f[i - 1]] /\ f[i - 1] \in T
    BY <1>5, <2>1 DEF Iteration
  <2> QED
    BY <1>3, <2>1, <2>2
<1> DEFINE g == [i \in 0 .. n |-> f[i]]
<1>7. g = [i \in 0 .. n |->
             IF i = 0 THEN <<>>
             ELSE IF s[i] \in {Skipped, EndMark} THEN g[i - 1] ELSE Append(g[i - 1], s[i])]
  <2>1. f[0] = <<>>
    BY <1>5 DEF Iteration
  <2>2. \A i \in 0 .. n : i # 0 => i \in 1 .. n /\ i - 1 \in 0 .. n
    OBVIOUS
  <2> QED
    BY <1>6, <2>1, <2>2
<1> HIDE DEF g
<1>8. upto = [i \in 0 .. n |->
             IF i = 0 THEN <<>>
             ELSE IF s[i] \in {Skipped, EndMark} THEN upto[i - 1] ELSE Append(upto[i - 1], s[i])]
  <2>1. \E h : h = [i \in 0 .. n |->
             IF i = 0 THEN <<>>
             ELSE IF s[i] \in {Skipped, EndMark} THEN h[i - 1] ELSE Append(h[i - 1], s[i])]
    BY <1>7
  <2> QED
    BY <2>1
<1>9. Listed(s) = upto[n]
  <2>1. Len(s) = n
    OBVIOUS
  <2> QED
    BY <2>1 DEF Listed
<1> HIDE DEF upto
<1> DEFINE Good == {i \in Nat : i <= n => upto[i] \in T}
<1>10. 0 \in Good
  BY <1>4, <1>8
<1>11. ASSUME NEW i \in Nat, i \in Good PROVE i + 1 \in Good
  <2> SUFFICES ASSUME i + 1 <= n PROVE upto[i + 1] \in T
    OBVIOUS
  <2>1. i + 1 \in 0 .. n /\ i + 1 \in 1 .. n /\ i + 1 # 0 /\ (i + 1) - 1 = i
    OBVIOUS
  <2>2. upto[i] \in T
    BY <1>11
  <2>3. upto[i + 1] = IF s[i + 1] \in {Skipped, EndMark} THEN upto[i]
                      ELSE Append(upto[i], s[i + 1])
    BY <1>8, <2>1
  <2> QED
    BY <1>2, <2>1, <2>2, <2>3
<1> HIDE DEF Good
<1>12. n \in Good
  BY <1>10, <1>11, Induction
<1> QED
  BY <1>1, <1>9, <1>12 DEF Good

LEMMA ScannedIs ==
  ASSUME NEW d \in Disks, NEW c \in Clusters(d)
  PROVE  Scanned(d, c) \in Seq(Files(d))
<1> DEFINE stop == CHOOSE n \in 0 .. Entries :
                     /\ \A i \in 1 .. n : d.dir[c][i] # EndMark
                     /\ n < Entries => d.dir[c][n + 1] = EndMark
           s == d.dir[c]
<1>1. Entries \in Nat /\ s \in [1 .. Entries -> Files(d) \cup {Skipped, EndMark}]
  BY DiskAssumption
<1>2. stop \in 0 .. Entries
  <2>1. \E n \in 0 .. Entries : /\ \A i \in 1 .. n : s[i] # EndMark
                                /\ n < Entries => s[n + 1] = EndMark
    <3> DEFINE Marks == {i \in 1 .. Entries : s[i] = EndMark}
    <3>1. CASE Marks = {}
      <4>1. Entries \in 0 .. Entries /\ \A i \in 1 .. Entries : s[i] # EndMark
        BY <1>1, <3>1
      <4> QED
        BY <1>1, <4>1
    <3>2. CASE Marks # {}
      <4>1. PICK m \in Marks : \A i \in Marks : m <= i
        <5>1. Marks \in SUBSET Nat
          BY <1>1
        <5> HIDE DEF Marks
        <5> QED
          BY <3>2, <5>1, LeastExists
      <4>2. m - 1 \in 0 .. Entries /\ (m - 1) + 1 = m /\ s[m] = EndMark
        BY <1>1
      <4>3. \A i \in 1 .. (m - 1) : s[i] # EndMark
        BY <1>1, <4>1
      <4> QED
        BY <4>2, <4>3
    <3> QED
      BY <3>1, <3>2
  <2> QED
    BY <2>1
<1>3. Scanned(d, c) = Listed(SubSeq(s, 1, stop))
  BY DEF Scanned
<1> HIDE DEF stop, s
<1>4. PICK n \in Nat : n = stop /\ n <= Entries
  BY <1>1, <1>2
<1>5. PICK t : t = SubSeq(s, 1, n)
  OBVIOUS
<1>6. t = [i \in 1 .. n |-> s[i]]
  BY <1>1, <1>4, <1>5
<1>7. t = [i \in 1 .. n |-> t[i]] /\ \A i \in 1 .. n : t[i] \in Files(d) \cup {Skipped, EndMark}
  BY <1>1, <1>4, <1>6
<1>8. Listed(t) \in Seq(Files(d))
  BY <1>7, ListedIs
<1> QED
  BY <1>3, <1>4, <1>5, <1>8

-----------------------------------------------------------------------------
(***************************************************************************)
(* The invariant.                                                          *)
(***************************************************************************)
Reading == at \in {"short", "long", "fatlong"}
Walking == at \in {"dir", "fatdir"}

\* What is mounted and open.
Device ==
  /\ mnt \in {"none", "ok", "dangling"}
  /\ mnt = "ok" <=> disk # NoDisk
  /\ mnt = "ok" => disk \in Disks
  /\ fds \in 0 .. NBMAX_FD /\ offset \in 0 .. (W - 1)
  /\ file # NoFile => mnt = "ok" /\ fds > 0 /\ file \in Files(disk)
  /\ fails \in 0 .. MaxFails

\* The call in progress, and what is left over from no earlier one.
Call ==
  /\ at \in {"idle", "bpb", "dir", "fatdir", "short", "long", "fatlong"}
  /\ sec \in 0 .. (cluslen - 1) /\ left \in Nat /\ len \in 0 .. (W - 1)
  /\ Len(list) <= MaxClusters * Entries
  /\ at = "bpb" => mnt = "none" /\ fds > 0
  /\ Reading => file # NoFile
  /\ ~Reading => buff = <<>> /\ sec = 0
  /\ Walking => /\ mnt = "ok" /\ file = NoFile /\ clus \in Clusters(disk)
                /\ list \in Seq(Files(disk))
  /\ ~Walking => list = <<>>
  /\ at # "idle" => ret.of = "none"

\* The first n bytes of the open file.
Bytes(n) == [i \in 1 .. n |-> Place(file, i - 1)]
First == Chain(disk, disk.first[file])
NbClusters(l) == (NbSectors(l) + cluslen - 1) \div cluslen

\* After so many sectors of the first cluster.
ShortRead ==
  at = "short" =>
    /\ clus = First[0] /\ left # 0
    /\ sec + left = NbSectors(len) /\ sec + left <= cluslen
    /\ buff = Bytes(Lesser(Size, sec * BLK_SIZE))

\* After n clusters and so many sectors of the next, or all of them.
Sectors(n) == n * cluslen + sec + (IF at = "long" THEN 0 ELSE 1)
LongAt(n) ==
  /\ clus = First[n] /\ clus \in Clusters(disk)
  /\ left # 0 /\ n + left = NbClusters(len)
  /\ Sectors(n) * BLK_SIZE <= Size /\ buff = Bytes(Sectors(n) * BLK_SIZE)
  /\ at = "fatlong" => sec + 1 = cluslen
LongRead == at \in {"long", "fatlong"} => \E n \in Nat : LongAt(n)

\* A read from the start wants no more than the file has.
Wanted == Reading /\ offset = 0 => len <= Size

FatInv ==
  /\ Device /\ Call
  /\ ShortRead /\ LongRead /\ Wanted
  /\ NoWrongByte /\ StartComplete

-----------------------------------------------------------------------------
(***************************************************************************)
(* Sectors and bytes.                                                      *)
(***************************************************************************)
LEMMA Sizes ==
  /\ BLK_SIZE \in Nat \ {0} /\ cluslen \in Nat \ {0} /\ Entries \in Nat \ {0}
  /\ MaxClusters \in Nat \ {0} /\ W \in Nat \ {0} /\ NBMAX_FD \in Nat \ {0} /\ MaxFails \in Nat
BY DiskAssumption

LEMMA DivIs ==
  ASSUME NEW b \in Nat \ {0}, NEW q \in Nat, NEW r \in 0 .. (b - 1)
  PROVE  (q * b + r) \div b = q /\ (q * b + r) % b = r
OBVIOUS

LEMMA DivDown ==
  ASSUME NEW b \in Nat \ {0}, NEW n \in Nat
  PROVE  (n \div b) * b <= n /\ n < ((n \div b) + 1) * b /\ n \div b \in Nat
OBVIOUS

LEMMA DivUp ==
  ASSUME NEW b \in Nat \ {0}, NEW n \in Nat
  PROVE  ((n + b - 1) \div b) * b >= n /\ (n + b - 1) \div b \in Nat
OBVIOUS

LEMMA ProductGrows ==
  ASSUME NEW b \in Nat, NEW m \in Nat, NEW n \in Nat, m <= n
  PROVE  m * b <= n * b /\ m * b \in Nat /\ n * b \in Nat
OBVIOUS

\* The sectors that are read hold the length, but for the odd ones,
LEMMA NbSectorsIs ==
  ASSUME NEW l \in Nat
  PROVE  /\ NbSectors(l) \in Nat \ {0}
         /\ ~OddSector(l) => l <= NbSectors(l) * BLK_SIZE
<1>0. BLK_SIZE \in Nat \ {0}
  BY Sizes
<1>1. PICK n \in Nat : n = l \div BLK_SIZE /\ n * BLK_SIZE <= l /\ l < (n + 1) * BLK_SIZE
  BY <1>0, DivDown
<1>2. CASE n % BLK_SIZE # 0 \/ n = 0
  BY <1>0, <1>1, <1>2 DEF NbSectors
<1>3. CASE n % BLK_SIZE = 0 /\ n # 0
  <2>1. NbSectors(l) = n
    BY <1>1, <1>3 DEF NbSectors
  <2>2. BLK_SIZE <= n
    BY <1>0, <1>3
  <2>3. BLK_SIZE * BLK_SIZE <= n * BLK_SIZE
    BY <1>0, <2>2, ProductGrows
  <2>4. BLK_SIZE * BLK_SIZE <= l
    <3>1. BLK_SIZE * BLK_SIZE \in Nat /\ n * BLK_SIZE \in Nat
      BY <1>0, ProductGrows
    <3> QED
      BY <1>1, <2>3, <3>1
  <2>5. OddSector(l)
    BY <1>1, <1>3, <2>4 DEF OddSector
  <2> QED
    BY <1>3, <2>1, <2>5
<1> QED
  BY <1>2, <1>3

\* and so do the clusters.
LEMMA NbClustersIs ==
  ASSUME NEW l \in Nat
  PROVE  /\ NbClusters(l) \in Nat \ {0}
         /\ NbSectors(l) <= NbClusters(l) * cluslen
<1>1. cluslen \in Nat \ {0} /\ NbSectors(l) \in Nat \ {0}
  BY Sizes, NbSectorsIs
<1>2. PICK n \in Nat \ {0} : n = NbSectors(l)
  BY <1>1
<1>3. NbClusters(l) = (n + cluslen - 1) \div cluslen
  BY <1>2 DEF NbClusters
<1>4. PICK k \in Nat : k = (n + cluslen - 1) \div cluslen /\ n <= k * cluslen
  BY <1>1, DivUp
<1>5. k # 0
  BY <1>1, <1>2, <1>4
<1> QED
  BY <1>2, <1>3, <1>4, <1>5

LEMMA PlaceIs ==
  ASSUME NEW n \in Nat, NEW s \in 0 .. (cluslen - 1), NEW q, q = n * cluslen + s,
         NEW k \in 0 .. (BLK_SIZE - 1), NEW p, p = q * BLK_SIZE + k
  PROVE  Place(file, p) = <<First[n], s, k>>
<1>1. BLK_SIZE \in Nat \ {0} /\ cluslen \in Nat \ {0}
  BY Sizes
<1>2. q \in Nat
  BY <1>1
<1>3. p \div BLK_SIZE = q /\ p % BLK_SIZE = k
  BY <1>1, <1>2, DivIs
<1>4. q \div cluslen = n /\ q % cluslen = s
  BY <1>1, DivIs
<1> QED
  BY <1>3, <1>4 DEF Place, First

LEMMA ConcatIs ==
  ASSUME NEW m \in Nat, NEW n \in Nat, NEW a, a = [i \in 1 .. m |-> a[i]],
         NEW b, b = [i \in 1 .. n |-> b[i]]
  PROVE  a \o b = [i \in 1 .. (m + n) |-> IF i <= m THEN a[i] ELSE b[i - m]]
<1>1. PICK S : S = {a[i] : i \in 1 .. m} \cup {b[i] : i \in 1 .. n}
  OBVIOUS
<1>2. a \in Seq(S) /\ Len(a) = m /\ b \in Seq(S) /\ Len(b) = n
  <2>1. a \in [1 .. m -> S] /\ b \in [1 .. n -> S]
    BY <1>1
  <2> QED
    BY <2>1
<1>3. PICK c : c = a \o b
  OBVIOUS
<1>4. /\ c \in Seq(S) /\ Len(c) = m + n
      /\ \A i \in 1 .. (m + n) : c[i] = IF i <= m THEN a[i] ELSE b[i - m]
  BY <1>2, <1>3, ConcatProperties
<1>5. c = [i \in 1 .. (m + n) |-> c[i]]
  BY <1>4
<1> QED
  BY <1>3, <1>4, <1>5

\* A sector more in the buffer.
LEMMA FilledIs ==
  ASSUME Size \in Nat, sec \in 0 .. (cluslen - 1), NEW n \in Nat, clus = First[n],
         NEW q, q = n * cluslen + sec,
         NEW m, m = Lesser(Size, q * BLK_SIZE), buff = Bytes(m),
         NEW e, e = Lesser(Size, (q + 1) * BLK_SIZE)
  PROVE  m \in Nat /\ e \in Nat /\ Filled = Bytes(e)
<1>1. BLK_SIZE \in Nat \ {0} /\ cluslen \in Nat \ {0}
  BY Sizes
<1>2. q \in Nat /\ q * BLK_SIZE \in Nat /\ (q + 1) * BLK_SIZE = q * BLK_SIZE + BLK_SIZE
  BY <1>1
<1>3. PICK size \in Nat : size = Size
  OBVIOUS
<1>4. m \in Nat /\ e \in Nat /\ m <= size
  BY <1>1, <1>2, <1>3 DEF Lesser
<1>5. PICK r : r = Lesser(BLK_SIZE, size - m)
  OBVIOUS
<1>6. r \in Nat /\ m + r = e /\ r <= BLK_SIZE /\ (r # 0 => m = q * BLK_SIZE)
  BY <1>1, <1>2, <1>3, <1>4, <1>5 DEF Lesser
<1>7. PICK t : t = [k \in 1 .. r |-> <<clus, sec, k - 1>>]
  OBVIOUS
<1>8. Len(buff) = m /\ buff = [i \in 1 .. m |-> Place(file, i - 1)]
  BY <1>4 DEF Bytes
<1>9. Filled = buff \o t
  BY <1>3, <1>5, <1>7, <1>8 DEF Filled
<1>10. buff \o t = [i \in 1 .. (m + r) |-> IF i <= m THEN buff[i] ELSE t[i - m]]
  <2>1. PICK b : b = buff
    OBVIOUS
  <2>2. b = [i \in 1 .. m |-> b[i]] /\ t = [k \in 1 .. r |-> t[k]]
    BY <1>7, <1>8, <2>1
  <2>3. b \o t = [i \in 1 .. (m + r) |-> IF i <= m THEN b[i] ELSE t[i - m]]
    BY <1>4, <1>6, <2>2, ConcatIs, SMTT(20)
  <2> QED
    BY <2>1, <2>3
<1>11. \A i \in 1 .. (m + r) : (IF i <= m THEN buff[i] ELSE t[i - m]) = Place(file, i - 1)
  <2> SUFFICES ASSUME NEW i \in 1 .. (m + r)
               PROVE  /\ i <= m => buff[i] = Place(file, i - 1)
                      /\ ~(i <= m) => t[i - m] = Place(file, i - 1)
    OBVIOUS
  <2>1. ASSUME i <= m PROVE buff[i] = Place(file, i - 1)
    <3>1. i \in 1 .. m
      BY <1>4, <2>1
    <3> QED
      BY <1>8, <3>1
  <2>2. ASSUME ~(i <= m) PROVE t[i - m] = Place(file, i - 1)
    <3>1. i - m \in 1 .. r /\ i - m - 1 \in 0 .. (BLK_SIZE - 1) /\ r # 0
      BY <1>1, <1>4, <1>6, <2>2
    <3>2. PICK k : k = i - m - 1
      OBVIOUS
    <3>3. k \in 0 .. (BLK_SIZE - 1) /\ i - 1 = q * BLK_SIZE + k
      BY <1>2, <1>4, <1>6, <3>1, <3>2
    <3>4. Place(file, i - 1) = <<First[n], sec, k>>
      <4>1. PICK p, s : p = i - 1 /\ s = sec
        OBVIOUS
      <4>2. s \in 0 .. (cluslen - 1) /\ q = n * cluslen + s /\ p = q * BLK_SIZE + k
        BY <3>3, <4>1
      <4>3. Place(file, p) = <<First[n], s, k>>
        BY <3>3, <4>2, PlaceIs
      <4> QED
        BY <4>1, <4>3
    <3>5. t[i - m] = <<clus, sec, k>>
      BY <1>7, <3>1, <3>2
    <3> QED
      BY <3>4, <3>5
  <2> QED
    BY <2>1, <2>2
<1>12. buff \o t = [i \in 1 .. (m + r) |-> Place(file, i - 1)]
  BY <1>10, <1>11
<1> QED
  BY <1>4, <1>6, <1>9, <1>12 DEF Bytes

-----------------------------------------------------------------------------
(***************************************************************************)
(* The steps outside a read.                                               *)
(***************************************************************************)
LEMMA AccessIs ==
  ASSUME Device, NEW ok \in BOOLEAN, Access(ok)
  PROVE  fails' \in 0 .. MaxFails /\ (ok => fds < NBMAX_FD) /\ (~ok => trouble')
<1>1. fails \in 0 .. MaxFails /\ MaxFails \in Nat /\ fails' <= MaxFails
      /\ (fails' = fails \/ fails' = fails + 1)
  BY Sizes DEF Device, Access
<1>2. fails' \in 0 .. MaxFails
  BY <1>1
<1> QED
  BY <1>2 DEF Access

LEMMA AccessWorks ==
  ASSUME Device, Access(TRUE)
  PROVE  fails' \in 0 .. MaxFails /\ fds < NBMAX_FD
<1>1. TRUE \in BOOLEAN
  OBVIOUS
<1> QED
  BY <1>1, AccessIs

\* A call that is over leaves nothing behind.
LEMMA Returned ==
  ASSUME NEW r, Return(r), Device'
  PROVE  /\ Device' /\ Call' /\ ShortRead' /\ LongRead' /\ Wanted'
         /\ r.of # "read" => FatInv'
<1>1. /\ at' = "idle" /\ ret' = r /\ list' = <<>> /\ sec' = 0
      /\ left' = 0 /\ len' = 0 /\ buff' = <<>>
  BY DEF Return
<1>2. Call'
  <2>1. Len(list') <= MaxClusters * Entries
    <3>1. Len(<<>>) = 0 /\ MaxClusters * Entries \in Nat
      BY Sizes
    <3> QED
      BY <1>1, <3>1
  <2>2. sec' \in 0 .. (cluslen - 1) /\ left' \in Nat /\ len' \in 0 .. (W - 1)
    BY <1>1, Sizes
  <2> QED
    BY <1>1, <2>1, <2>2 DEF Call, Reading, Walking
<1>3. ShortRead' /\ LongRead' /\ Wanted'
  BY <1>1 DEF ShortRead, LongRead, Wanted, Reading
<1>4. r.of # "read" => NoWrongByte' /\ StartComplete'
  BY <1>1 DEF NoWrongByte, StartComplete
<1> QED
  BY <1>2, <1>3, <1>4 DEF FatInv

LEMMA MbrStep ==
  ASSUME FatInv, ReadMbr
  PROVE  FatInv'
<1>1. /\ at = "idle" /\ mnt = "none" /\ file = NoFile /\ UNCHANGED <<mnt, disk, file, offset>>
      /\ fds \in 0 .. NBMAX_FD /\ NBMAX_FD \in Nat \ {0}
  BY Sizes DEF FatInv, Device, ReadMbr
<1>2. ASSUME fds' \in 0 .. NBMAX_FD, fails' \in 0 .. MaxFails PROVE Device'
  BY <1>1, <1>2 DEF FatInv, Device
<1>3. ASSUME Access(TRUE), fds' = fds + 1, at' = "bpb", ret' = [of |-> "none"],
             UNCHANGED <<walk, data>>
      PROVE  FatInv'
  <2>0. fails' \in 0 .. MaxFails /\ fds < NBMAX_FD
    BY <1>3, AccessWorks DEF FatInv
  <2>1. fds' \in 0 .. NBMAX_FD /\ fds' > 0
    BY <1>1, <1>3, <2>0
  <2>2. Device'
    BY <1>2, <2>0, <2>1
  <2>3. Call'
    BY <1>1, <1>3, <2>1 DEF FatInv, Call, Reading, Walking, walk, data
  <2>4. ShortRead' /\ LongRead' /\ Wanted' /\ NoWrongByte' /\ StartComplete'
    BY <1>3 DEF ShortRead, LongRead, Wanted, Reading, NoWrongByte, StartComplete
  <2> QED
    BY <2>2, <2>3, <2>4 DEF FatInv
<1>4. ASSUME NEW ok \in BOOLEAN, Access(ok), fds' \in 0 .. NBMAX_FD, Return([of |-> "failed"])
      PROVE  FatInv'
  <2>1. Device'
    BY <1>2, <1>4, AccessIs DEF FatInv
  <2> QED
    BY <1>4, <2>1, Returned
<1>5. CASE \E sig \in BOOLEAN :
             /\ Access(TRUE)
             /\ fds' = fds + 1
             /\ IF sig THEN at' = "bpb" /\ ret' = [of |-> "none"] /\ UNCHANGED <<walk, data>>
                ELSE Return([of |-> "failed"])
  <2>1. PICK sig \in BOOLEAN :
             IF sig THEN at' = "bpb" /\ ret' = [of |-> "none"] /\ UNCHANGED <<walk, data>>
             ELSE Return([of |-> "failed"])
    BY <1>5
  <2>2. Access(TRUE) /\ fds' = fds + 1 /\ TRUE \in BOOLEAN
    BY <1>5
  <2>3. fds < NBMAX_FD
    BY <2>2, AccessWorks DEF FatInv
  <2>4. fds' \in 0 .. NBMAX_FD
    BY <1>1, <2>2, <2>3
  <2>5. CASE sig
    BY <1>3, <2>1, <2>2, <2>5
  <2>6. CASE ~sig
    BY <1>4, <2>1, <2>2, <2>4, <2>6
  <2> QED
    BY <2>5, <2>6
<1>6. CASE /\ Access(FALSE)
           /\ fds' \in {fds, Lesser(fds + 1, NBMAX_FD)}
           /\ Return([of |-> "failed"])
  <2>1. fds' \in 0 .. NBMAX_FD
    BY <1>1, <1>6 DEF Lesser
  <2> QED
    BY <1>4, <1>6, <2>1
<1> QED
  BY <1>5, <1>6 DEF ReadMbr

LEMMA BpbStep ==
  ASSUME FatInv, ReadBpb
  PROVE  FatInv'
<1>1. /\ at = "bpb" /\ mnt = "none" /\ disk = NoDisk /\ file = NoFile /\ fds' = fds - 1
      /\ fds \in 0 .. NBMAX_FD /\ fds > 0 /\ fails \in 0 .. MaxFails /\ MaxFails \in Nat
      /\ UNCHANGED <<file, offset>>
  BY Sizes DEF FatInv, Device, Call, ReadBpb
<1>2. fds' \in 0 .. NBMAX_FD /\ offset \in 0 .. (W - 1) /\ NoDisk \notin Disks
  BY <1>1, Sizes, DiskAssumption DEF FatInv, Device
<1>3. /\ mnt' \in {"none", "ok", "dangling"} /\ (mnt' = "ok" <=> disk' # NoDisk)
      /\ (mnt' = "ok" => disk' \in Disks)
  BY <1>1, <1>2 DEF ReadBpb
<1>4. fails' \in 0 .. MaxFails
  BY <1>1 DEF ReadBpb
<1>5. Device'
  BY <1>1, <1>2, <1>3, <1>4 DEF Device
<1>6. PICK r \in {[of |-> "mounted"], [of |-> "failed"]} : Return(r)
  BY DEF ReadBpb
<1> QED
  BY <1>5, <1>6, Returned

LEMMA UnmountStep ==
  ASSUME FatInv, Unmount
  PROVE  FatInv'
<1>1. Device'
  BY DEF FatInv, Device, Unmount, open
<1>2. Return([of |-> "unmounted"])
  BY DEF Unmount
<1> QED
  BY <1>1, <1>2, Returned

LEMMA SeekStep ==
  ASSUME FatInv, NEW o \in Seeks, Seek(o)
  PROVE  FatInv'
<1>1. /\ at = "idle" /\ mnt = "ok" /\ file # NoFile /\ ret' = [of |-> "none"]
      /\ UNCHANGED <<at, mnt, disk, fds, file, walk, data, trouble, fails>>
  BY DEF Seek
<1>2. offset' \in 0 .. (W - 1)
  <2>1. W \in Nat \ {0} /\ o \in Int /\ offset \in Int
    BY Sizes, DiskAssumption DEF FatInv, Device
  <2>2. Size \in Int
    BY <1>1, <2>1, DiskAssumption DEF FatInv, Device, Size
  <2>3. PICK b \in Int : offset' = (b + o) % W
    BY <2>1, <2>2 DEF Seek
  <2> QED
    BY <2>1, <2>3
<1>3. Device'
  BY <1>1, <1>2 DEF FatInv, Device
<1>4. Call'
  BY <1>1 DEF FatInv, Call, Reading, Walking, walk, data
<1>5. ShortRead' /\ LongRead' /\ Wanted' /\ NoWrongByte' /\ StartComplete'
  BY <1>1 DEF ShortRead, LongRead, Wanted, Reading, NoWrongByte, StartComplete
<1> QED
  BY <1>3, <1>4, <1>5 DEF FatInv

LEMMA CloseStep ==
  ASSUME FatInv, Close
  PROVE  FatInv'
<1>1. /\ at = "idle" /\ file # NoFile /\ fds' = fds - 1 /\ file' = NoFile /\ offset' = 0
      /\ ret' = [of |-> "none"] /\ UNCHANGED <<at, mnt, disk, walk, data, trouble, fails>>
  BY DEF Close
<1>2. fds' \in 0 .. NBMAX_FD /\ offset' \in 0 .. (W - 1)
  BY <1>1, Sizes DEF FatInv, Device
<1>3. Device'
  BY <1>1, <1>2 DEF FatInv, Device
<1>4. Call'
  BY <1>1 DEF FatInv, Call, Reading, Walking, walk, data
<1>5. ShortRead' /\ LongRead' /\ Wanted' /\ NoWrongByte' /\ StartComplete'
  BY <1>1 DEF ShortRead, LongRead, Wanted, Reading, NoWrongByte, StartComplete
<1> QED
  BY <1>3, <1>4, <1>5 DEF FatInv

-----------------------------------------------------------------------------
(***************************************************************************)
(* The steps of a walk through the directory.                              *)
(***************************************************************************)
LEMMA StartWalkStep ==
  ASSUME FatInv, NEW f, StartWalk(f)
  PROVE  FatInv'
<1>1. /\ at = "idle" /\ mnt = "ok" /\ file = NoFile /\ at' = "dir" /\ clus' = Root
      /\ ret' = [of |-> "none"] /\ UNCHANGED <<mnt, disk, open, list, sec, data, fails>>
  BY DEF StartWalk
<1>2. Device'
  BY <1>1 DEF FatInv, Device, open
<1>3. Call'
  <2>1. disk \in Disks /\ Root \in Clusters(disk)
    BY <1>1, DiskAssumption DEF FatInv, Device
  <2>2. list = <<>> /\ buff = <<>> /\ sec = 0
    BY <1>1 DEF FatInv, Call, Walking, Reading
  <2>3. <<>> \in Seq(Files(disk))
    OBVIOUS
  <2>4. Clusters(disk') = Clusters(disk) /\ Files(disk') = Files(disk)
    BY <1>1
  <2> QED
    BY <1>1, <2>1, <2>2, <2>3, <2>4 DEF FatInv, Call, Reading, Walking, open, data
<1>4. ShortRead' /\ LongRead' /\ Wanted' /\ NoWrongByte' /\ StartComplete'
  BY <1>1 DEF ShortRead, LongRead, Wanted, Reading, NoWrongByte, StartComplete
<1> QED
  BY <1>2, <1>3, <1>4 DEF FatInv

\* What a walk goes on from, and what it comes to.
LEMMA WalkIs ==
  ASSUME FatInv, Walking
  PROVE  /\ disk \in Disks /\ clus \in Clusters(disk) /\ mnt = "ok" /\ file = NoFile
         /\ list \in Seq(Files(disk)) /\ Len(list) <= MaxClusters * Entries
BY DEF FatInv, Device, Call, Walking

LEMMA WalkOverStep ==
  ASSUME Device', NEW l, NEW t, WalkOver(l, t)
  PROVE  FatInv'
<1>1. PICK r : Return(r) /\ r.of # "read"
  <2>1. CASE name = NoName
    BY <2>1 DEF WalkOver
  <2>2. CASE name # NoName
    BY <2>2 DEF WalkOver
  <2> QED
    BY <2>1, <2>2
<1> QED
  BY <1>1, Returned

LEMMA WalkGoesOn ==
  ASSUME FatInv, Walking, Device', UNCHANGED <<disk, mnt, file, sec, data, ret>>,
         at' \in {"dir", "fatdir"}, clus' \in Clusters(disk),
         list' \in Seq(Files(disk)), Len(list') <= MaxClusters * Entries
  PROVE  FatInv'
<1>1. mnt = "ok" /\ file = NoFile /\ ret.of = "none" /\ buff = <<>> /\ sec = 0
  BY DEF FatInv, Call, Walking, Reading
<1>2. Clusters(disk') = Clusters(disk) /\ Files(disk') = Files(disk)
  OBVIOUS
<1>3. Call'
  BY <1>1, <1>2 DEF FatInv, Call, Reading, Walking, data
<1>4. ShortRead' /\ LongRead' /\ Wanted' /\ NoWrongByte' /\ StartComplete'
  BY <1>1 DEF ShortRead, LongRead, Wanted, Reading, NoWrongByte, StartComplete
<1> QED
  BY <1>3, <1>4 DEF FatInv

LEMMA NextDirStep ==
  ASSUME FatInv, NextDirCluster
  PROVE  FatInv'
<1>1. Walking /\ UNCHANGED <<mnt, disk, open>>
  BY DEF NextDirCluster, Walking
<1>2. PICK ok \in BOOLEAN :
        /\ Access(ok)
        /\ IF GetEntry(ok) = EOC THEN WalkOver(list, trouble')
           ELSE at' = "dir" /\ clus' = GetEntry(ok) /\ UNCHANGED <<name, list, sec, data, ret>>
  BY DEF NextDirCluster
<1>3. Device'
  <2>1. fails' \in 0 .. MaxFails
    BY <1>2, AccessIs DEF FatInv
  <2> QED
    BY <1>1, <2>1 DEF FatInv, Device, open
<1>4. CASE GetEntry(ok) = EOC
  BY <1>2, <1>3, <1>4, WalkOverStep
<1>5. CASE GetEntry(ok) # EOC
  <2>1. GetEntry(ok) \in Clusters(disk)
    <3>1. ok /\ GetEntry(ok) = disk.fat[clus]
      BY <1>2, <1>5 DEF GetEntry
    <3>2. PICK d \in Disks : d = disk /\ clus \in Clusters(d)
      BY <1>1, WalkIs
    <3>3. d.fat \in [Clusters(d) -> Clusters(d) \cup {EOC}]
      BY DiskAssumption
    <3> QED
      BY <1>5, <3>1, <3>2, <3>3
  <2>2. /\ UNCHANGED <<disk, mnt, file, sec, data, ret>> /\ at' \in {"dir", "fatdir"}
        /\ clus' \in Clusters(disk) /\ list' = list
    BY <1>1, <1>2, <1>5, <2>1 DEF open
  <2>3. list' \in Seq(Files(disk)) /\ Len(list') <= MaxClusters * Entries
    BY <1>1, <2>2, WalkIs
  <2> QED
    BY <1>1, <1>3, <2>2, <2>3, WalkGoesOn
<1> QED
  BY <1>4, <1>5

\* What a cluster adds to a listing, as far as there is room.
LEMMA MoreIs ==
  ASSUME NEW S, NEW l \in Seq(S), NEW e \in Seq(S), NEW n \in Nat,
         NEW m, m = SubSeq(l \o e, 1, Lesser(Len(l \o e), n))
  PROVE  m \in Seq(S) /\ Len(m) <= n
<1>1. PICK c \in Seq(S) : c = l \o e
  BY ConcatProperties
<1>2. PICK k \in Nat : k = Lesser(Len(c), n) /\ k <= Len(c) /\ k <= n
  BY DEF Lesser
<1>3. m = SubSeq(c, 1, k)
  BY <1>1, <1>2
<1>4. \A i \in 1 .. k : c[i] \in S
  BY <1>2
<1>5. SubSeq(c, 1, k) \in Seq(S) /\ Len(SubSeq(c, 1, k)) = k
  BY <1>2, <1>4, SubSeqProperties
<1> QED
  BY <1>2, <1>3, <1>5

LEMMA ReadDirStep ==
  ASSUME FatInv, ReadDir
  PROVE  FatInv'
<1>1. Walking /\ UNCHANGED <<mnt, disk>>
  BY DEF ReadDir, Walking
<1>2. /\ disk \in Disks /\ clus \in Clusters(disk) /\ mnt = "ok" /\ file = NoFile
      /\ list \in Seq(Files(disk)) /\ Len(list) <= MaxClusters * Entries
      /\ MaxClusters * Entries \in Nat
  BY <1>1, WalkIs, Sizes
<1>3. ASSUME fails' \in 0 .. MaxFails, UNCHANGED open PROVE Device'
  BY <1>1, <1>3 DEF FatInv, Device, open
<1>4. CASE Access(FALSE) /\ WalkOver(list, TRUE) /\ UNCHANGED open
  <2>1. fails' \in 0 .. MaxFails
    <3>1. FALSE \in BOOLEAN
      OBVIOUS
    <3> QED
      BY <1>4, <3>1, AccessIs DEF FatInv
  <2> QED
    BY <1>3, <1>4, <2>1, WalkOverStep
<1> DEFINE es   == Scanned(disk, clus)
           hits == {i \in DOMAIN es : name # NoName /\ CheckFilename(es[i], name)}
           more == SubSeq(list \o es, 1, Lesser(Len(list \o es), MaxEntries))
           full == name = NoName /\ Len(more) = MaxEntries
           hit  == es[CHOOSE i \in hits : \A j \in hits : i <= j]
<1>5. CASE /\ Access(TRUE)
           /\ \/ hits # {} /\ Open(hit)
              \/ /\ hits = {} /\ Ends(disk, clus) /\ ~full
                 /\ WalkOver(more, trouble) /\ UNCHANGED open
              \/ /\ hits = {} /\ (~Ends(disk, clus) \/ full)
                 /\ at' = "fatdir" /\ list' = IF name = NoName THEN more ELSE list
                 /\ UNCHANGED <<open, name, clus, sec, data, ret>>
  <2>1. fails' \in 0 .. MaxFails /\ fds < NBMAX_FD
    BY <1>5, AccessWorks DEF FatInv
  <2>2. es \in Seq(Files(disk))
    BY <1>2, ScannedIs
  <2>3. more \in Seq(Files(disk)) /\ Len(more) <= MaxClusters * Entries
    BY <1>2, <2>2, MoreIs DEF MaxEntries
  <2>4. ASSUME hits # {} PROVE hit \in Files(disk)
    <3>1. hits \in SUBSET Nat
      BY <2>2
    <3>2. \E i \in hits : \A j \in hits : i <= j
      <4> HIDE DEF hits
      <4> QED
        BY <2>4, <3>1, LeastExists
    <3>3. \E i \in hits : hit = es[i]
      <4> HIDE DEF hits, es
      <4> QED
        BY <3>2
    <3>4. \A i \in hits : es[i] \in Files(disk)
      BY <2>2
    <3> HIDE DEF hits, es, hit
    <3> QED
      BY <3>3, <3>4
  <2> HIDE DEF es, hits, more, full, hit
  <2>5. CASE hits # {} /\ Open(hit)
    <3>1. PICK f \in Files(disk) : f = hit
      BY <2>4, <2>5
    <3>2. PICK r : Return(r) /\ r.of # "read"
      BY <2>5 DEF Open
    <3>3. Device'
      <4>1. CASE UNCHANGED open
        BY <1>3, <2>1, <4>1
      <4>2. CASE /\ fds < NBMAX_FD
                 /\ fds' = fds + 1 /\ file' = f
                 /\ offset' \in {0, disk.size[f]}
        <5>1. offset' \in 0 .. (W - 1)
          BY <1>2, <3>1, <4>2, Sizes, DiskAssumption
        <5>2. fds' \in 0 .. NBMAX_FD /\ fds' > 0
          BY <4>2, Sizes DEF FatInv, Device
        <5> QED
          BY <1>1, <1>2, <2>1, <3>1, <4>2, <5>1, <5>2 DEF FatInv, Device
      <4> QED
        BY <2>5, <3>1, <4>1, <4>2 DEF Open
    <3> QED
      BY <3>2, <3>3, Returned
  <2>6. CASE WalkOver(more, trouble) /\ UNCHANGED open
    BY <1>3, <2>1, <2>6, WalkOverStep
  <2>7. CASE /\ at' = "fatdir" /\ list' = IF name = NoName THEN more ELSE list
             /\ UNCHANGED <<open, name, clus, sec, data, ret>>
    <3>1. Device'
      BY <1>3, <2>1, <2>7
    <3>2. list' \in Seq(Files(disk)) /\ Len(list') <= MaxClusters * Entries
      BY <1>2, <2>3, <2>7
    <3>3. UNCHANGED <<disk, mnt, file, sec, data, ret>> /\ clus' \in Clusters(disk)
          /\ at' \in {"dir", "fatdir"}
      BY <1>1, <1>2, <2>7 DEF open
    <3> QED
      BY <1>1, <3>1, <3>2, <3>3, WalkGoesOn
  <2> QED
    BY <1>5, <2>5, <2>6, <2>7
<1> QED
  BY <1>4, <1>5 DEF ReadDir

-----------------------------------------------------------------------------
(***************************************************************************)
(* The steps of a read.                                                    *)
(***************************************************************************)
\* What a read goes on from.
LEMMA ReadIs ==
  ASSUME FatInv, file # NoFile
  PROVE  /\ mnt = "ok" /\ disk \in Disks /\ file \in Files(disk)
         /\ Size \in 0 .. (W - 1) /\ offset \in 0 .. (W - 1) /\ len \in 0 .. (W - 1)
         /\ disk.first[file] \in Clusters(disk) /\ W \in Nat \ {0}
<1>1. mnt = "ok" /\ disk \in Disks /\ file \in Files(disk)
  BY DEF FatInv, Device
<1>2. PICK d \in Disks : d = disk /\ file \in Files(d)
  BY <1>1
<1>3. d.size \in [Files(d) -> 0 .. (W - 1)] /\ d.first \in [Files(d) -> Clusters(d)]
  BY DiskAssumption
<1>4. d.size[file] \in 0 .. (W - 1) /\ d.first[file] \in Clusters(d)
  BY <1>2, <1>3
<1>5. offset \in 0 .. (W - 1) /\ len \in 0 .. (W - 1)
  BY DEF FatInv, Device, Call
<1> QED
  BY <1>1, <1>2, <1>4, <1>5, Sizes DEF Size

LEMMA FirstIs ==
  ASSUME FatInv, file # NoFile
  PROVE  /\ First[0] = disk.first[file]
         /\ \A n \in Nat : /\ First[n] \in Clusters(disk) \cup {EOC}
                           /\ First[n + 1] = IF First[n] = EOC THEN EOC ELSE disk.fat[First[n]]
<1>1. PICK d \in Disks : d = disk
  BY ReadIs
<1>2. PICK c \in Clusters(d) : c = disk.first[file]
  BY <1>1, ReadIs
<1> QED
  BY <1>1, <1>2, ChainIs DEF First

\* The first m bytes are handed out, whatever they are wanted for.
LEMMA Delivered ==
  ASSUME FatInv, Reading, UNCHANGED <<mnt, disk>>, fails' \in 0 .. MaxFails,
         NEW b, NEW m \in Nat, m <= Size, b = Bytes(m), Deliver(b),
         (offset = 0 /\ ~trouble' /\ Whole(file) /\ ~OddSector(len)) => len <= m
  PROVE  FatInv'
<1>0. file # NoFile
  BY DEF FatInv, Call
<1>1. PICK size \in 0 .. (W - 1), o \in 0 .. (W - 1), l \in 0 .. (W - 1) :
        size = Size /\ o = offset /\ l = len
  BY <1>0, ReadIs
<1>2. PICK n : n = IF o < size THEN Lesser(l, size - o) ELSE 0
  OBVIOUS
<1>3. n \in Nat /\ n <= l /\ (o < size => o + n <= size) /\ (o >= size => n = 0)
  BY <1>1, <1>2 DEF Lesser
<1>4. PICK bytes : bytes = [i \in 1 .. n |-> IF o + i <= Len(b) THEN b[o + i] ELSE Unfilled]
  OBVIOUS
<1>5. PICK r : r = [of |-> "read", from |-> o, len |-> l, bytes |-> bytes, trouble |-> trouble']
  OBVIOUS
<1>6. Return(r) /\ offset' = o + n /\ UNCHANGED <<fds, file>>
  BY <1>1, <1>2, <1>4, <1>5 DEF Deliver
<1>7. Device'
  <2>1. offset' \in 0 .. (W - 1)
    BY <1>1, <1>3, <1>6, Sizes
  <2> QED
    BY <1>6, <2>1 DEF FatInv, Device
<1>8. Len(b) = m /\ \A k \in 1 .. m : b[k] = Place(file, k - 1)
  BY DEF Bytes
<1>9. \A i \in 1 .. n : bytes[i] = IF o + i <= m THEN Place(file, o + i - 1) ELSE Unfilled
  <2> SUFFICES ASSUME NEW i \in 1 .. n
               PROVE  bytes[i] = IF o + i <= m THEN Place(file, o + i - 1) ELSE Unfilled
    OBVIOUS
  <2>1. PICK k \in Nat : k = o + i /\ k # 0
    BY <1>1
  <2>2. k <= m => b[k] = Place(file, k - 1)
    BY <1>8, <2>1
  <2> QED
    BY <1>4, <1>8, <2>1, <2>2
<1>10. ret' = r /\ \A f, p : Place(f, p)' = Place(f', p')
  BY <1>6 DEF Return, Place
<1>11. NoWrongByte'
  <2>1. DOMAIN bytes = 1 .. n
    BY <1>4
  <2>2. \A i \in 1 .. n : bytes[i] \in {Unfilled, Place(file, o + i - 1)}
    BY <1>9
  <2> QED
    BY <1>5, <1>6, <1>10, <2>1, <2>2 DEF NoWrongByte, Place
<1>12. StartComplete'
  <2> SUFFICES ASSUME r.from = 0, ~r.trouble, Whole(file), ~OddSector(r.len)
               PROVE  bytes = [i \in 1 .. l |-> Place(file, i - 1)]
    BY <1>5, <1>6, <1>10 DEF StartComplete, Whole, Place
  <2>1. o = 0 /\ ~trouble' /\ ~OddSector(l)
    BY <1>5
  <2>2. l <= size /\ l <= m
    BY <1>1, <2>1 DEF FatInv, Wanted
  <2>3. n = l
    BY <1>1, <1>2, <2>1, <2>2 DEF Lesser
  <2>4. \A i \in 1 .. l : bytes[i] = Place(file, i - 1)
    <3> SUFFICES ASSUME NEW i \in 1 .. l PROVE bytes[i] = Place(file, i - 1)
      OBVIOUS
    <3>1. o + i <= m /\ o + i - 1 = i - 1
      BY <1>1, <2>1, <2>2
    <3> QED
      BY <1>9, <2>3, <3>1
  <2> QED
    BY <1>4, <2>3, <2>4
<1> QED
  BY <1>6, <1>7, <1>11, <1>12, Returned DEF FatInv

\* A read that has failed hands out nothing.
LEMMA FailsStep ==
  ASSUME FatInv, ReadFails, UNCHANGED <<mnt, disk>>
  PROVE  FatInv'
<1>1. fails' \in 0 .. MaxFails
  <2>1. FALSE \in BOOLEAN /\ Access(FALSE)
    BY DEF ReadFails
  <2> QED
    BY <2>1, AccessIs DEF FatInv
<1>2. Device'
  BY <1>1 DEF FatInv, Device, ReadFails, open
<1> QED
  BY <1>2, Returned DEF ReadFails

LEMMA StartReadStep ==
  ASSUME FatInv, NEW n \in Lens, StartRead(n)
  PROVE  FatInv'
<1>1. /\ at = "idle" /\ file # NoFile /\ n > 0 /\ clus' = disk.first[file]
      /\ ret' = [of |-> "none"] /\ UNCHANGED <<mnt, disk, open, name, list, sec, buff, fails>>
  BY DEF StartRead
<1>2. PICK size \in 0 .. (W - 1), o \in 0 .. (W - 1) : size = Size /\ o = offset
  BY <1>1, ReadIs
<1>3. PICK l : l = Lesser(n, (size - o) % W)
  OBVIOUS
<1>4. l \in 0 .. (W - 1) /\ (o = 0 => l <= size)
  <2>1. W \in Nat \ {0} /\ n \in Nat
    BY Sizes, DiskAssumption
  <2>2. (size - o) % W \in 0 .. (W - 1) /\ (o = 0 => (size - o) % W = size)
    BY <2>1
  <2> QED
    BY <1>3, <2>1, <2>2 DEF Lesser
<1>5. PICK nb \in Nat \ {0} : nb = NbSectors(l)
  BY <1>4, Sizes, NbSectorsIs
<1>6. /\ len' = l
      /\ IF nb <= cluslen THEN at' = "short" /\ left' = nb
         ELSE at' = "long" /\ left' = NbClusters(l)
  BY <1>2, <1>3, <1>5 DEF StartRead, NbClusters
<1>7. Device'
  BY <1>1 DEF FatInv, Device, open
<1>8. buff' = <<>> /\ sec' = 0 /\ list' = <<>>
  BY <1>1 DEF FatInv, Call, Reading, Walking
<1>9. NbClusters(l) \in Nat \ {0}
  BY <1>4, Sizes, NbClustersIs
<1>10. Call'
  <2>1. at' \in {"short", "long"} /\ left' \in Nat
    BY <1>5, <1>6, <1>9
  <2>2. len' \in 0 .. (W - 1) /\ sec' \in 0 .. (cluslen - 1)
    BY <1>4, <1>6, <1>8, Sizes
  <2>3. Len(list') <= MaxClusters * Entries
    BY <1>1 DEF FatInv, Call
  <2> QED
    BY <1>1, <1>8, <2>1, <2>2, <2>3 DEF Call, Reading, Walking, open
<1>11. clus' = First'[0] /\ clus' \in Clusters(disk') /\ Size' = size
  <2>1. First' = First /\ Size' = Size
    BY <1>1 DEF First, Size, Chain, open
  <2> QED
    BY <1>1, <1>2, <2>1, FirstIs, ReadIs
<1>12. BLK_SIZE \in Nat \ {0} /\ cluslen \in Nat \ {0}
  BY Sizes
<1>13. ShortRead'
  <2> SUFFICES ASSUME at' = "short"
               PROVE  /\ clus' = First'[0] /\ left' # 0
                      /\ sec' + left' = NbSectors(len') /\ sec' + left' <= cluslen
                      /\ buff' = Bytes(Lesser(Size, sec * BLK_SIZE))'
    BY DEF ShortRead
  <2>1. nb <= cluslen /\ left' = nb /\ len' = l
    BY <1>6
  <2>2. buff' = Bytes(Lesser(Size, sec * BLK_SIZE))'
    <3>1. Lesser(size, 0 * BLK_SIZE) = 0
      BY <1>2, <1>12 DEF Lesser
    <3> QED
      BY <1>8, <1>11, <3>1 DEF Bytes
  <2> QED
    BY <1>5, <1>8, <1>11, <1>12, <2>1, <2>2
<1>14. LongRead'
  <2> SUFFICES ASSUME at' = "long" PROVE LongAt(0)'
    BY <1>6 DEF LongRead
  <2>1. left' = NbClusters(l) /\ len' = l
    BY <1>6
  <2>2. Sectors(0)' = 0
    BY <1>8, <1>12 DEF Sectors
  <2>3. 0 * BLK_SIZE = 0 /\ 0 <= size
    BY <1>2, <1>12
  <2>4. buff' = Bytes(0)'
    BY <1>8 DEF Bytes
  <2>5. 0 + left' = NbClusters(len') /\ left' # 0
    BY <1>9, <2>1
  <2> QED
    BY <1>11, <2>2, <2>3, <2>4, <2>5 DEF LongAt
<1>15. Wanted' /\ NoWrongByte' /\ StartComplete'
  BY <1>1, <1>2, <1>4, <1>6, <1>11 DEF Wanted, NoWrongByte, StartComplete, open
<1> QED
  BY <1>7, <1>10, <1>13, <1>14, <1>15 DEF FatInv

LEMMA ReadShortStep ==
  ASSUME FatInv, ReadShort
  PROVE  FatInv'
<1>1. at = "short" /\ Reading /\ file # NoFile /\ UNCHANGED <<mnt, disk>>
  BY DEF ReadShort, Reading, FatInv, Call
<1>2. PICK size \in Nat, s \in 0 .. (cluslen - 1), k \in Nat \ {0}, l \in Nat :
        /\ size = Size /\ s = sec /\ k = left /\ l = len
        /\ clus = First[0] /\ s + k = NbSectors(l) /\ s + k <= cluslen
        /\ buff = Bytes(Lesser(size, s * BLK_SIZE))
  <2>1. Size \in Nat /\ len \in Nat /\ sec \in 0 .. (cluslen - 1) /\ left \in Nat
    BY <1>1, ReadIs DEF FatInv, Call
  <2> QED
    BY <1>1, <2>1 DEF FatInv, ShortRead
<1>3. BLK_SIZE \in Nat \ {0} /\ cluslen \in Nat \ {0}
  BY Sizes
<1>4. PICK m : m = Lesser(size, s * BLK_SIZE)
  OBVIOUS
<1>5. PICK e : e = Lesser(size, (s + 1) * BLK_SIZE)
  OBVIOUS
<1>6. e \in Nat /\ Filled = Bytes(e)
  <2>1. 0 * cluslen + s = s
    BY <1>2, <1>3
  <2> QED
    BY <1>2, <1>4, <1>5, <2>1, FilledIs
<1>7. e <= size
  BY <1>2, <1>3, <1>5 DEF Lesser
<1>8. CASE ReadFails
  BY <1>1, <1>8, FailsStep
<1>9. CASE /\ Access(TRUE)
           /\ IF left = 1 THEN Deliver(Filled)
              ELSE /\ buff' = Filled /\ sec' = sec + 1 /\ left' = left - 1
                   /\ UNCHANGED <<at, open, name, list, clus, len, ret>>
  <2>1. fails' \in 0 .. MaxFails
    BY <1>9, AccessWorks DEF FatInv
  <2>2. CASE left = 1
    <3>1. Deliver(Filled)
      BY <1>9, <2>2
    <3>2. ASSUME offset = 0, ~OddSector(len) PROVE len <= e
      <4>1. l <= size
        BY <1>1, <1>2, <3>2 DEF FatInv, Wanted
      <4>2. l <= NbSectors(l) * BLK_SIZE
        BY <1>2, <3>2, NbSectorsIs
      <4>3. NbSectors(l) = s + 1
        BY <1>2, <2>2
      <4> QED
        BY <1>2, <1>5, <4>1, <4>2, <4>3 DEF Lesser
    <3> QED
      BY <1>1, <1>2, <1>6, <1>7, <2>1, <3>1, <3>2, Delivered
  <2>3. CASE left # 1
    <3>1. /\ buff' = Bytes(e) /\ sec' = s + 1 /\ left' = k - 1
          /\ UNCHANGED <<at, open, name, list, clus, len, ret>>
      BY <1>2, <1>6, <1>9, <2>3
    <3>2. left' \in Nat \ {0} /\ sec' \in 0 .. (cluslen - 1) /\ sec' + left' = s + k
      BY <1>2, <1>3, <2>3, <3>1
    <3>3. Device'
      BY <1>1, <2>1, <3>1 DEF FatInv, Device, open
    <3>4. Call'
      BY <1>1, <3>1, <3>2 DEF FatInv, Call, Reading, Walking, open
    <3>5. First' = First /\ Size' = Size /\ Bytes(e)' = Bytes(e)
      BY <1>1, <3>1 DEF First, Size, Chain, Bytes, Place, open
    <3>6. ShortRead'
      BY <1>2, <1>5, <3>1, <3>2, <3>5 DEF ShortRead
    <3>7. LongRead' /\ Wanted' /\ NoWrongByte' /\ StartComplete'
      <4>1. ret'.of = "none"
        BY <1>1, <3>1 DEF FatInv, Call
      <4> QED
        BY <1>1, <3>1, <3>5, <4>1
           DEF FatInv, LongRead, Wanted, Reading, NoWrongByte, StartComplete, open
    <3> QED
      BY <3>3, <3>4, <3>6, <3>7 DEF FatInv
  <2> QED
    BY <2>2, <2>3
<1> QED
  BY <1>8, <1>9 DEF ReadShort

\* What a long read goes on from.
LEMMA LongIs ==
  ASSUME FatInv, at \in {"long", "fatlong"}
  PROVE  \E n \in Nat : /\ LongAt(n) /\ Sectors(n) \in Nat
                        /\ Sectors(n) * BLK_SIZE \in Nat
<1>1. PICK n \in Nat : LongAt(n)
  BY DEF FatInv, LongRead
<1>2. n * cluslen \in Nat /\ sec \in Nat /\ BLK_SIZE \in Nat
  BY Sizes DEF FatInv, Call
<1>3. Sectors(n) \in Nat
  BY <1>2 DEF Sectors
<1>4. PICK q \in Nat, b \in Nat : q = Sectors(n) /\ b = BLK_SIZE
  BY <1>2, <1>3
<1>5. q * b \in Nat
  OBVIOUS
<1> QED
  BY <1>1, <1>3, <1>4, <1>5

LEMMA ReadLongStep ==
  ASSUME FatInv, ReadLong
  PROVE  FatInv'
<1>1. at = "long" /\ Reading /\ file # NoFile /\ UNCHANGED <<mnt, disk>>
  BY DEF ReadLong, Reading, FatInv, Call
<1>2. PICK n \in Nat : LongAt(n) /\ Sectors(n) \in Nat /\ Sectors(n) * BLK_SIZE \in Nat
  BY <1>1, LongIs
<1>3. BLK_SIZE \in Nat \ {0} /\ cluslen \in Nat \ {0}
  BY Sizes
<1>4. PICK size \in Nat, s \in 0 .. (cluslen - 1), q \in Nat :
        /\ size = Size /\ s = sec /\ q = n * cluslen + s /\ q = Sectors(n)
        /\ q * BLK_SIZE <= size /\ buff = Bytes(q * BLK_SIZE) /\ q * BLK_SIZE \in Nat
        /\ clus = First[n] /\ clus \in Clusters(disk) /\ left # 0 /\ n + left = NbClusters(len)
  <2>1. Size \in Nat /\ sec \in 0 .. (cluslen - 1)
    BY <1>1, ReadIs DEF FatInv, Call
  <2>2. Sectors(n) = n * cluslen + sec
    BY <1>1, <1>3, <2>1 DEF Sectors
  <2> QED
    BY <1>2, <2>1, <2>2 DEF LongAt
<1>5. PICK m : m = Lesser(size, q * BLK_SIZE)
  OBVIOUS
<1>6. PICK e : e = Lesser(size, (q + 1) * BLK_SIZE)
  OBVIOUS
<1>7. m = q * BLK_SIZE
  BY <1>4, <1>5 DEF Lesser
<1>8. e \in Nat /\ Filled = Bytes(e)
  BY <1>4, <1>5, <1>6, <1>7, FilledIs
<1>9. e <= size /\ Len(Filled) = e
  BY <1>3, <1>4, <1>6, <1>8 DEF Lesser, Bytes
<1>10. CASE ReadFails
  BY <1>1, <1>10, FailsStep
<1>11. CASE /\ Access(TRUE)
            /\ IF Len(Filled) = Size THEN Deliver(Filled)
               ELSE /\ buff' = Filled
                    /\ IF sec + 1 < cluslen THEN sec' = sec + 1 /\ UNCHANGED at
                       ELSE at' = "fatlong" /\ UNCHANGED sec
                    /\ UNCHANGED <<open, name, list, clus, left, len, ret>>
  <2>1. fails' \in 0 .. MaxFails
    BY <1>11, AccessWorks DEF FatInv
  <2>2. CASE e = size
    <3>1. Deliver(Filled)
      BY <1>4, <1>9, <1>11, <2>2
    <3>2. offset = 0 => len <= e
      BY <1>1, <1>4, <2>2 DEF FatInv, Wanted
    <3> QED
      BY <1>1, <1>4, <1>8, <1>9, <2>1, <3>1, <3>2, Delivered
  <2>3. CASE e # size
    <3>1. /\ buff' = Bytes(e) /\ UNCHANGED <<open, name, list, clus, left, len, ret>>
          /\ \/ s + 1 < cluslen /\ sec' = s + 1 /\ at' = "long"
             \/ s + 1 = cluslen /\ sec' = s /\ at' = "fatlong"
      BY <1>1, <1>3, <1>4, <1>8, <1>9, <1>11, <2>3
    <3>2. e = (q + 1) * BLK_SIZE
      BY <1>6, <2>3 DEF Lesser
    <3>3. sec' \in 0 .. (cluslen - 1) /\ Sectors(n)' = q + 1
      BY <1>3, <1>4, <3>1 DEF Sectors
    <3>4. Device'
      BY <1>1, <2>1, <3>1 DEF FatInv, Device, open
    <3>5. Call'
      BY <1>1, <3>1, <3>3 DEF FatInv, Call, Reading, Walking, open
    <3>6. First' = First /\ Size' = Size /\ Bytes(e)' = Bytes(e)
      BY <1>1, <3>1 DEF First, Size, Chain, Bytes, Place, open
    <3>7. LongAt(n)'
      BY <1>1, <1>4, <1>9, <3>1, <3>2, <3>3, <3>6 DEF LongAt
    <3>8. ShortRead' /\ Wanted' /\ NoWrongByte' /\ StartComplete'
      <4>1. ret'.of = "none"
        BY <1>1, <3>1 DEF FatInv, Call
      <4> QED
        BY <1>1, <3>1, <3>6, <4>1
           DEF FatInv, ShortRead, Wanted, Reading, NoWrongByte, StartComplete, open
    <3> QED
      BY <3>4, <3>5, <3>7, <3>8 DEF FatInv, LongRead
  <2> QED
    BY <2>2, <2>3
<1> QED
  BY <1>10, <1>11 DEF ReadLong

\* The clusters that have been read are all that are wanted, or all there are.
LEMMA Enough ==
  ASSUME NEW cl \in Nat \ {0}, NEW b \in Nat \ {0}, NEW size \in Nat, NEW n \in Nat,
         ~(n + 1 <= (size - 1) \div (b * cl)), ((n + 1) * cl) * b <= size
  PROVE  size <= ((n + 1) * cl) * b
<1>1. PICK p \in Nat \ {0} : p = b * cl
  OBVIOUS
<1>2. (n + 1) * p = ((n + 1) * cl) * b
  BY <1>1
<1>3. size # 0
  <2>1. p <= (n + 1) * p
    BY <1>1
  <2> QED
    BY <1>1, <1>2, <2>1
<1>4. PICK k \in Nat : k = (size - 1) \div p /\ size - 1 < (k + 1) * p
  BY <1>1, <1>3, DivDown
<1>5. k + 1 <= n + 1
  BY <1>1, <1>4
<1>6. (k + 1) * p <= (n + 1) * p
  BY <1>1, <1>5, ProductGrows
<1>7. (k + 1) * p \in Nat /\ (n + 1) * p \in Nat
  BY <1>1, ProductGrows
<1> QED
  BY <1>2, <1>4, <1>6, <1>7

LEMMA NextFileStep ==
  ASSUME FatInv, NextFileCluster
  PROVE  FatInv'
<1>1. at = "fatlong" /\ Reading /\ file # NoFile /\ UNCHANGED <<mnt, disk>>
  BY DEF NextFileCluster, Reading, FatInv, Call
<1>2. PICK n \in Nat : LongAt(n) /\ Sectors(n) \in Nat /\ Sectors(n) * BLK_SIZE \in Nat
  BY <1>1, LongIs
<1>3. BLK_SIZE \in Nat \ {0} /\ cluslen \in Nat \ {0}
  BY Sizes
<1>4. PICK size \in Nat, k \in Nat \ {0}, l \in Nat :
        /\ size = Size /\ k = left /\ l = len /\ n + k = NbClusters(l)
        /\ clus = First[n] /\ clus \in Clusters(disk)
  BY <1>1, <1>2, ReadIs DEF FatInv, Call, LongAt
<1>5. PICK q \in Nat : q = (n + 1) * cluslen
  BY <1>3
<1>6. q = Sectors(n)
  <2>1. sec \in Nat /\ sec + 1 = cluslen
    BY <1>1, <1>2, <1>3 DEF FatInv, Call, LongAt
  <2> QED
    BY <1>1, <1>3, <1>5, <2>1 DEF Sectors
<1>7. PICK m \in Nat : m = q * BLK_SIZE
  BY <1>2, <1>6
<1>8. m <= size /\ buff = Bytes(m)
  BY <1>2, <1>4, <1>6, <1>7 DEF LongAt
<1>9. PICK ok \in BOOLEAN :
        /\ Access(ok)
        /\ IF GetEntry(ok) = EOC \/ left = 1 THEN Deliver(buff)
           ELSE /\ at' = "long" /\ clus' = GetEntry(ok) /\ sec' = 0 /\ left' = left - 1
                /\ UNCHANGED <<open, name, list, len, buff, ret>>
  BY DEF NextFileCluster
<1>10. fails' \in 0 .. MaxFails /\ (~ok => trouble')
  BY <1>9, AccessIs DEF FatInv
<1>11. clus # EOC /\ (ok => GetEntry(ok) = First[n + 1])
  <2>1. PICK d \in Disks : d = disk
    BY <1>1, ReadIs
  <2>2. clus # EOC
    BY <1>4, <2>1, DiskAssumption
  <2> QED
    BY <1>1, <1>4, <2>2, FirstIs DEF GetEntry
<1>12. CASE GetEntry(ok) = EOC \/ left = 1
  <2>1. Deliver(buff)
    BY <1>9, <1>12
  <2>2. ASSUME offset = 0, ~trouble', Whole(file), ~OddSector(len) PROVE len <= m
    <3>1. l <= size
      BY <1>1, <1>4, <2>2 DEF FatInv, Wanted
    <3>2. CASE left = 1
      <4>1. l <= NbSectors(l) * BLK_SIZE /\ NbSectors(l) \in Nat \ {0}
        BY <1>4, <2>2, NbSectorsIs
      <4>2. NbSectors(l) <= q
        BY <1>4, <1>5, <3>2, NbClustersIs
      <4>3. PICK nb \in Nat : nb = NbSectors(l)
        BY <4>1
      <4>4. nb * BLK_SIZE <= q * BLK_SIZE /\ nb * BLK_SIZE \in Nat
        BY <1>3, <4>2, <4>3, ProductGrows
      <4> QED
        BY <1>4, <1>7, <4>1, <4>3, <4>4
    <3>3. CASE left # 1
      <4>1. ok /\ First[n + 1] = EOC
        BY <1>10, <1>11, <1>12, <2>2, <3>3
      <4>2. ~(n + 1 \in 0 .. ((size - 1) \div (BLK_SIZE * cluslen)))
        BY <1>4, <2>2, <4>1 DEF Whole, First, Size
      <4>3. PICK p \in Nat \ {0} : p = BLK_SIZE * cluslen
        BY <1>3
      <4>4. (size - 1) \div p \in Int
        OBVIOUS
      <4>5. ~(n + 1 <= (size - 1) \div (BLK_SIZE * cluslen))
        BY <4>2, <4>3, <4>4
      <4>6. size <= m
        BY <1>3, <1>5, <1>7, <1>8, <4>5, Enough
      <4> QED
        BY <1>4, <3>1, <4>6
    <3> QED
      BY <3>2, <3>3
  <2> QED
    BY <1>1, <1>4, <1>8, <1>10, <2>1, <2>2, Delivered
<1>13. CASE ~(GetEntry(ok) = EOC \/ left = 1)
  <2>1. /\ at' = "long" /\ clus' = GetEntry(ok) /\ sec' = 0 /\ left' = k - 1
        /\ UNCHANGED <<open, name, list, len, buff, ret>>
    BY <1>4, <1>9, <1>13
  <2>2. left' \in Nat \ {0} /\ (n + 1) + left' = NbClusters(len)
    BY <1>4, <1>13, <2>1
  <2>3. ok /\ clus' = First[n + 1] /\ clus' \in Clusters(disk)
    <3>1. ok
      BY <1>13 DEF GetEntry
    <3>2. First[n + 1] \in Clusters(disk) \cup {EOC}
      <4>1. n + 1 \in Nat
        OBVIOUS
      <4> QED
        BY <1>1, <4>1, FirstIs
    <3> QED
      BY <1>11, <1>13, <2>1, <3>1, <3>2
  <2>4. Device'
    BY <1>1, <1>10, <2>1 DEF FatInv, Device, open
  <2>5. Call'
    <3>1. sec' \in 0 .. (cluslen - 1)
      BY <1>3, <2>1
    <3> QED
      BY <1>1, <2>1, <2>2, <3>1 DEF FatInv, Call, Reading, Walking, open
  <2>6. First' = First /\ Size' = Size /\ Bytes(m)' = Bytes(m)
    BY <1>1, <2>1 DEF First, Size, Chain, Bytes, Place, open
  <2>7. Sectors(n + 1)' = q
    BY <1>3, <1>5, <2>1 DEF Sectors
  <2>8. LongAt(n + 1)'
    BY <1>1, <1>4, <1>7, <1>8, <2>1, <2>2, <2>3, <2>6, <2>7 DEF LongAt
  <2>9. LongRead'
    <3>1. n + 1 \in Nat
      OBVIOUS
    <3> QED
      BY <2>8, <3>1 DEF LongRead
  <2>10. ShortRead' /\ Wanted' /\ NoWrongByte' /\ StartComplete'
    <3>1. ret'.of = "none"
      BY <1>1, <2>1 DEF FatInv, Call
    <3> QED
      BY <1>1, <2>1, <2>6, <3>1
         DEF FatInv, ShortRead, Wanted, Reading, NoWrongByte, StartComplete, open
  <2> QED
    BY <2>4, <2>5, <2>9, <2>10 DEF FatInv
<1> QED
  BY <1>12, <1>13

-----------------------------------------------------------------------------
(***************************************************************************)
(* The theorems.                                                           *)
(***************************************************************************)
LEMMA FatInit ==
  ASSUME Init
  PROVE  FatInv
<1>1. /\ at = "idle" /\ mnt = "none" /\ disk = NoDisk /\ fds = 0 /\ file = NoFile /\ offset = 0
      /\ list = <<>> /\ sec = 0 /\ left = 0 /\ len = 0 /\ buff = <<>>
      /\ ret = [of |-> "none"] /\ fails = 0
  BY DEF Init
<1>2. Device
  BY <1>1, Sizes DEF Device
<1>3. Call
  <2>1. Len(list) <= MaxClusters * Entries
    <3>1. Len(<<>>) = 0 /\ MaxClusters * Entries \in Nat
      BY Sizes
    <3> QED
      BY <1>1, <3>1
  <2>2. sec \in 0 .. (cluslen - 1) /\ left \in Nat /\ len \in 0 .. (W - 1)
    BY <1>1, Sizes
  <2> QED
    BY <1>1, <2>1, <2>2 DEF Call, Reading, Walking
<1>4. ShortRead /\ LongRead /\ Wanted /\ NoWrongByte /\ StartComplete
  BY <1>1 DEF ShortRead, LongRead, Wanted, Reading, NoWrongByte, StartComplete
<1> QED
  BY <1>2, <1>3, <1>4 DEF FatInv

LEMMA FatStep ==
  ASSUME FatInv, [Next]_vars
  PROVE  FatInv'
<1>1. CASE Goes
  BY <1>1, BpbStep, ReadDirStep, NextDirStep, ReadShortStep, ReadLongStep, NextFileStep DEF Goes
<1>2. CASE ReadMbr
  BY <1>2, MbrStep
<1>3. CASE Unmount
  BY <1>3, UnmountStep
<1>4. CASE Close
  BY <1>4, CloseStep
<1>5. ASSUME NEW f \in Names \cup {NoName}, StartWalk(f) PROVE FatInv'
  BY <1>5, StartWalkStep
<1>6. ASSUME NEW n \in Lens, StartRead(n) PROVE FatInv'
  BY <1>6, StartReadStep
<1>7. ASSUME NEW o \in Seeks, Seek(o) PROVE FatInv'
  BY <1>7, SeekStep
<1>8. CASE UNCHANGED vars
  <2>1. Device' /\ Call' /\ First' = First /\ Size' = Size
    BY <1>8 DEF FatInv, Device, Call, Reading, Walking, First, Size, Chain, vars, open, walk, data
  <2>2. ShortRead' /\ LongRead' /\ Wanted'
    BY <1>8, <2>1
       DEF FatInv, ShortRead, LongRead, LongAt, Sectors, Wanted, Reading, Bytes, Place, Chain,
           vars, open, walk, data
  <2>3. NoWrongByte' /\ StartComplete'
    <3>1. UNCHANGED <<ret, disk, file>>
      BY <1>8 DEF vars, open
    <3>2. NoWrongByte'
      BY <3>1 DEF FatInv, NoWrongByte, Place
    <3>3. StartComplete'
      BY <3>1 DEF FatInv, StartComplete, Whole, Place
    <3> QED
      BY <3>2, <3>3
  <2> QED
    BY <2>1, <2>2, <2>3 DEF FatInv
<1> QED
  BY <1>1, <1>2, <1>3, <1>4, <1>5, <1>6, <1>7, <1>8 DEF Next

THEOREM FatInductive == Spec => []FatInv
<1>1. Init => FatInv
  BY FatInit
<1>2. FatInv /\ [Next]_vars => FatInv'
  BY FatStep
<1> QED
  BY <1>1, <1>2, PTL DEF Spec

\* The types, with the descriptors never more than the process may have and
\* no listing longer than the array readdir allocates for it.
THEOREM Fat32TypeCorrect == Spec => []TypeOK
<1>1. FatInv => TypeOK
  BY DEF FatInv, Device, Call, TypeOK
<1> QED
  BY <1>1, FatInductive, PTL

\* No read hands out a byte of another place as a byte of the file.
THEOREM Fat32NoWrongByte == Spec => []NoWrongByte
<1>1. FatInv => NoWrongByte
  BY DEF FatInv
<1> QED
  BY <1>1, FatInductive, PTL

\* A read from the start of a file whose accesses all work is complete.
THEOREM Fat32StartComplete == Spec => []StartComplete
<1>1. FatInv => StartComplete
  BY DEF FatInv
<1> QED
  BY <1>1, FatInductive, PTL

-----------------------------------------------------------------------------
(***************************************************************************)
(* Loops.                                                                  *)
(***************************************************************************)
\* x goes on from each of its values in one way, up to n has as many different
\* ones at most as T has members.
Loops(T, x, key, n) ==
  /\ \A k \in 0 .. n : key[k] \in T
  /\ \A j, k \in Nat : j < k /\ k <= n /\ key[j] = key[k] => x[j] = x[k]
  /\ \A j, k \in Nat : x[j] = x[k] => x[j + 1] = x[k + 1]

LEMMA Recurs ==
  ASSUME NEW T, IsFiniteSet(T), NEW x, NEW key, NEW n \in Nat, Loops(T, x, key, n)
  PROVE  \E m \in Nat : m < Cardinality(T) /\ m <= n /\ x[m] = x[n]
<1> DEFINE Same == {m \in Nat : x[m] = x[n]}
<1>1. PICK m \in Same : \A i \in Same : m <= i
  <2>1. Same \in SUBSET Nat /\ Same # {}
    OBVIOUS
  <2> HIDE DEF Same
  <2> QED
    BY <2>1, LeastExists
<1>2. m \in Nat /\ x[m] = x[n] /\ m <= n
  BY <1>1
<1>3. \A i \in Nat : i < m => x[i] # x[n]
  BY <1>1, <1>2
<1> HIDE DEF Same
<1>4. PICK c \in Nat : c = Cardinality(T)
  BY FS_CardinalityType
<1>5. ASSUME c <= m PROVE FALSE
  <2>1. IsFiniteSet(0 .. c) /\ Cardinality(0 .. c) = c + 1
    <3>1. 0 \in Int /\ c \in Int /\ ~(0 > c) /\ c - 0 + 1 = c + 1
      OBVIOUS
    <3> QED
      BY <3>1, FS_Interval
  <2>2. PICK f \in [0 .. c -> T] : f = [k \in 0 .. c |-> key[k]]
    <3>1. \A k \in 0 .. c : k \in 0 .. n
      BY <1>2, <1>5
    <3> QED
      BY <3>1 DEF Loops
  <2>3. PICK j, k \in 0 .. c : j # k /\ f[j] = f[k]
    <3>1. Cardinality(T) < Cardinality(0 .. c)
      BY <1>4, <2>1
    <3> QED
      BY <2>1, <3>1, FS_PigeonHole
  <2>4. PICK a \in Nat, b \in Nat : a < b /\ b <= c /\ key[a] = key[b]
    BY <2>2, <2>3
  <2>5. x[a] = x[b]
    BY <1>2, <1>5, <2>4 DEF Loops
  <2> DEFINE Good == {i \in Nat : x[a + i] = x[b + i]}
  <2>6. 0 \in Good
    BY <2>5
  <2>7. ASSUME NEW i \in Nat, i \in Good PROVE i + 1 \in Good
    <3>1. a + i \in Nat /\ b + i \in Nat /\ (a + i) + 1 = a + (i + 1) /\ (b + i) + 1 = b + (i + 1)
      OBVIOUS
    <3>2. x[(a + i) + 1] = x[(b + i) + 1]
      BY <2>7, <3>1 DEF Loops
    <3> QED
      BY <3>1, <3>2
  <2> HIDE DEF Good
  <2>8. \A i \in Nat : i \in Good
    BY <2>6, <2>7, Induction
  <2>9. PICK i \in Nat : b + i = m
    <3>1. m - b \in Nat /\ b + (m - b) = m
      BY <1>2, <1>5, <2>4
    <3> QED
      BY <3>1
  <2>10. x[a + i] = x[m] /\ a + i < m /\ a + i \in Nat
    BY <2>4, <2>8, <2>9 DEF Good
  <2> QED
    BY <1>2, <1>3, <2>10
<1>6. m < Cardinality(T)
  BY <1>2, <1>4, <1>5
<1> QED
  BY <1>2, <1>6

\* What the directory lists in the first n clusters of the chain.
Within(d, c) == IF c = EOC THEN <<>> ELSE Scanned(d, c)
IsSeen(d, s) ==
  /\ s \in [Nat -> Seq(Files(d))] /\ s[0] = <<>>
  /\ \A n \in Nat : s[n + 1] = s[n] \o Within(d, Chain(d, Root)[n])
Seen(d) == CHOOSE s : IsSeen(d, s)

LEMMA WithinIs ==
  ASSUME NEW d \in Disks, NEW c \in Clusters(d) \cup {EOC}
  PROVE  Within(d, c) \in Seq(Files(d))
<1>1. <<>> \in Seq(Files(d))
  OBVIOUS
<1> QED
  BY <1>1, ScannedIs DEF Within

LEMMA RootIs ==
  ASSUME NEW d \in Disks
  PROVE  /\ Root \in Clusters(d) /\ EOC \notin Clusters(d) /\ IsFiniteSet(Clusters(d))
         /\ d.fat \in [Clusters(d) -> Clusters(d) \cup {EOC}] /\ NoFile \notin Files(d)
         /\ Cardinality(Clusters(d)) \in Nat \ {0}
<1>1. /\ Root \in Clusters(d) /\ EOC \notin Clusters(d) /\ IsFiniteSet(Clusters(d))
      /\ d.fat \in [Clusters(d) -> Clusters(d) \cup {EOC}] /\ NoFile \notin Files(d)
  BY DiskAssumption
<1>2. Cardinality(Clusters(d)) \in Nat /\ Cardinality(Clusters(d)) # 0
  BY <1>1, FS_CardinalityType, FS_EmptySet
<1> QED
  BY <1>1, <1>2

LEMMA SeenIs ==
  ASSUME NEW d \in Disks
  PROVE  IsSeen(d, Seen(d))
<1>1. PICK S : S = Seq(Files(d))
  OBVIOUS
<1>2. PICK w : w = [n \in Nat |-> Within(d, Chain(d, Root)[n])]
  OBVIOUS
<1>3. \A n \in Nat : w[n] \in S
  <2>1. Root \in Clusters(d)
    BY RootIs
  <2>2. \A n \in Nat : Chain(d, Root)[n] \in Clusters(d) \cup {EOC}
    BY <2>1, ChainIs
  <2> QED
    BY <1>1, <1>2, <2>2, WithinIs
<1>4. \A n \in Nat : \A s \in S : s \o w[n] \in S
  BY <1>1, <1>3, ConcatProperties
<1>5. PICK step \in [Nat -> [S -> S]] : step = [n \in Nat |-> [s \in S |-> s \o w[n]]]
  BY <1>4
<1>6. <<>> \in S
  BY <1>1
<1>7. PICK f \in [Nat -> S] : Iteration(f, step, <<>>)
  BY <1>6, Iterate
<1>8. IsSeen(d, f)
  <2>1. f[0] = <<>> /\ \A n \in Nat : f[n + 1] = step[n][f[n]]
    BY <1>7 DEF Iteration
  <2>2. \A n \in Nat : f[n + 1] = f[n] \o w[n]
    BY <1>5, <2>1
  <2> QED
    BY <1>1, <1>2, <2>1, <2>2 DEF IsSeen
<1> QED
  BY <1>8 DEF Seen

\* What the directory lists from the nth cluster of the chain on.
IsFrom(d, u) ==
  /\ u \in [0 .. Rounds(d) -> Seq(Files(d))] /\ u[0] = Listing(d)
  /\ \A n \in 0 .. Rounds(d) :
       u[n] = IF Chain(d, Root)[n] = EOC THEN <<>>
              ELSE Scanned(d, Chain(d, Root)[n]) \o
                   (IF Ends(d, Chain(d, Root)[n]) \/ n = Rounds(d) THEN <<>> ELSE u[n + 1])

LEMMA FromIs ==
  ASSUME NEW d \in Disks
  PROVE  Rounds(d) \in Nat /\ \E u : IsFrom(d, u)
<1>1. PICK R \in Nat : R = Rounds(d)
  <2>1. PICK m \in Nat, e \in Nat, c \in Nat :
          m = MaxClusters /\ e = Entries /\ c = Cardinality(Clusters(d))
    BY Sizes, RootIs
  <2>2. m * e * c \in Nat
    OBVIOUS
  <2> QED
    BY <2>1, <2>2 DEF Rounds
<1>2. PICK S : S = Seq(Files(d))
  OBVIOUS
<1>3. PICK chain : chain = Chain(d, Root)
  OBVIOUS
<1>4. \A n \in Nat : chain[n] = EOC \/ Scanned(d, chain[n]) \in S
  <2>1. Root \in Clusters(d)
    BY RootIs
  <2>2. \A n \in Nat : chain[n] \in Clusters(d) \cup {EOC}
    BY <1>3, <2>1, ChainIs
  <2> QED
    BY <1>2, <2>2, ScannedIs
<1>5. <<>> \in S /\ \A a, b \in S : a \o b \in S
  BY <1>2, ConcatProperties
<1> DEFINE At(n, s) == IF chain[n] = EOC THEN <<>>
                       ELSE Scanned(d, chain[n]) \o
                            (IF Ends(d, chain[n]) \/ n = R THEN <<>> ELSE s)
           upto[n \in 0 .. R] ==
             IF chain[n] = EOC THEN <<>>
             ELSE Scanned(d, chain[n]) \o
                  (IF Ends(d, chain[n]) \/ n = R THEN <<>> ELSE upto[n + 1])
<1>6. \A n \in Nat : \A s \in S : At(n, s) \in S
  BY <1>4, <1>5
<1>7. Listing(d) = upto[0]
  BY <1>1, <1>3 DEF Listing
<1>8. upto = [n \in 0 .. R |-> At(n, upto[n + 1])]
  <2>1. PICK step \in [Nat -> [S -> S]] :
          step = [i \in Nat |-> [s \in S |-> IF i + 1 <= R THEN At(R - (i + 1), s) ELSE s]]
    <3>1. \A i \in Nat : i + 1 <= R => R - (i + 1) \in Nat
      OBVIOUS
    <3> HIDE DEF At
    <3> QED
      BY <1>6, <3>1
  <2>2. PICK f \in [Nat -> S] : Iteration(f, step, At(R, <<>>))
    <3>1. At(R, <<>>) \in S
      BY <1>5, <1>6
    <3> HIDE DEF At
    <3> QED
      BY <3>1, Iterate
  <2>3. f[0] = At(R, <<>>) /\ \A i \in Nat : i + 1 <= R => f[i + 1] = At(R - (i + 1), f[i])
    <3> HIDE DEF At
    <3> QED
      BY <2>1, <2>2 DEF Iteration
  <2> DEFINE g == [n \in 0 .. R |-> f[R - n]]
  <2>4. \A n \in 0 .. R : g[n] = At(n, g[n + 1])
    <3> SUFFICES ASSUME NEW n \in 0 .. R PROVE g[n] = At(n, g[n + 1])
      OBVIOUS
    <3>1. CASE n = R
      <4>1. g[n] = At(R, <<>>)
        BY <2>3, <3>1
      <4>2. At(R, <<>>) = At(R, g[n + 1])
        OBVIOUS
      <4> QED
        BY <3>1, <4>1, <4>2
    <3>2. CASE n # R
      <4>1. PICK i \in Nat : i = R - (n + 1) /\ i + 1 = R - n /\ n = R - (i + 1) /\ i + 1 <= R
        BY <3>2
      <4>2. g[n] = f[i + 1] /\ g[n + 1] = f[i]
        BY <3>2, <4>1
      <4> HIDE DEF At, g
      <4> QED
        BY <2>3, <4>1, <4>2
    <3> QED
      BY <3>1, <3>2
  <2>5. g = [n \in 0 .. R |-> IF chain[n] = EOC THEN <<>>
                              ELSE Scanned(d, chain[n]) \o
                                   (IF Ends(d, chain[n]) \/ n = R THEN <<>> ELSE g[n + 1])]
    <3>1. g = [n \in 0 .. R |-> g[n]]
      OBVIOUS
    <3> HIDE DEF g
    <3> QED
      BY <2>4, <3>1
  <2> HIDE DEF g
  <2>6. \E h : h = [n \in 0 .. R |-> IF chain[n] = EOC THEN <<>>
                              ELSE Scanned(d, chain[n]) \o
                                   (IF Ends(d, chain[n]) \/ n = R THEN <<>> ELSE h[n + 1])]
    BY <2>5
  <2> QED
    BY <2>6
<1> HIDE DEF upto
<1>9. \A n \in 0 .. R : upto[n] = At(n, upto[n + 1])
  BY <1>8
<1> DEFINE Good == {i \in Nat : i <= R => upto[R - i] \in S}
<1>10. 0 \in Good
  <2>1. R - 0 = R /\ R \in 0 .. R
    OBVIOUS
  <2>2. upto[R] = At(R, upto[R + 1]) /\ At(R, upto[R + 1]) = At(R, <<>>)
    BY <1>9, <2>1
  <2>3. At(R, <<>>) \in S
    BY <1>5, <1>6
  <2> QED
    BY <2>1, <2>2, <2>3
<1>11. ASSUME NEW i \in Nat, i \in Good PROVE i + 1 \in Good
  <2> SUFFICES ASSUME i + 1 <= R PROVE upto[R - (i + 1)] \in S
    OBVIOUS
  <2>1. PICK n \in 0 .. R : n = R - (i + 1) /\ n + 1 = R - i
    OBVIOUS
  <2>2. upto[n + 1] \in S
    BY <1>11, <2>1
  <2> HIDE DEF At
  <2> QED
    BY <1>6, <1>9, <2>1, <2>2
<1> HIDE DEF Good
<1>12. \A i \in Nat : i \in Good
  BY <1>10, <1>11, Induction
<1>13. upto \in [0 .. R -> S]
  <2>1. \A n \in 0 .. R : upto[n] \in S
    <3> SUFFICES ASSUME NEW n \in 0 .. R PROVE upto[n] \in S
      OBVIOUS
    <3>1. PICK i \in Nat : i = R - n /\ i <= R /\ n = R - i
      OBVIOUS
    <3> QED
      BY <1>12, <3>1 DEF Good
  <2>2. upto = [n \in 0 .. R |-> upto[n]]
    <3> HIDE DEF At
    <3> QED
      BY <1>8
  <2> QED
    BY <2>1, <2>2
<1>14. IsFrom(d, upto)
  BY <1>1, <1>2, <1>3, <1>7, <1>9, <1>13 DEF IsFrom
<1> QED
  BY <1>1, <1>14

\* A chain that has not ended by n has not ended before.
LEMMA ChainLives ==
  ASSUME NEW d \in Disks, NEW n \in Nat, Chain(d, Root)[n] # EOC
  PROVE  \A k \in 0 .. n : Chain(d, Root)[k] \in Clusters(d)
<1> SUFFICES ASSUME NEW k \in 0 .. n, Chain(d, Root)[k] = EOC PROVE FALSE
  BY RootIs, ChainIs
<1>1. PICK chain : chain = Chain(d, Root)
  OBVIOUS
<1>2. \A i \in Nat : chain[i] = EOC => chain[i + 1] = EOC
  BY <1>1, RootIs, ChainIs
<1> DEFINE Good == {i \in Nat : chain[k + i] = EOC}
<1>3. 0 \in Good
  BY <1>1
<1>4. ASSUME NEW i \in Nat, i \in Good PROVE i + 1 \in Good
  <2>1. k + i \in Nat /\ (k + i) + 1 = k + (i + 1)
    OBVIOUS
  <2> QED
    BY <1>2, <1>4, <2>1
<1> HIDE DEF Good
<1>5. n - k \in Good
  <2>1. n - k \in Nat
    OBVIOUS
  <2> QED
    BY <1>3, <1>4, <2>1, Induction
<1>6. k + (n - k) = n
  OBVIOUS
<1> QED
  BY <1>1, <1>5, <1>6 DEF Good

\* None of the first n clusters has an end mark or ends the chain.
GoesOn(d, n) ==
  \A k \in 0 .. (n - 1) : Chain(d, Root)[k] # EOC /\ ~Ends(d, Chain(d, Root)[k])

\* Up to the first cluster with an end mark, or the end of the chain, the
\* directory is what has been seen and what is to come.
LEMMA ListingSplits ==
  ASSUME NEW d \in Disks, NEW u, IsFrom(d, u), NEW n \in Nat, n <= Rounds(d), GoesOn(d, n)
  PROVE  Listing(d) = Seen(d)[n] \o u[n] /\ u[n] \in Seq(Files(d))
<1>0. PICK R \in Nat : R = Rounds(d) /\ n <= R
  BY FromIs
<1>1. PICK S, chain, seen, listing :
        /\ S = Seq(Files(d)) /\ chain = Chain(d, Root) /\ seen = Seen(d)
        /\ listing = Listing(d) /\ R = Rounds(d)
  BY <1>0
<1>2. /\ \A i \in 0 .. R : u[i] \in S
      /\ u[0] = listing
      /\ \A i \in 0 .. R : chain[i] # EOC /\ ~Ends(d, chain[i]) /\ i # R =>
                             u[i] = Scanned(d, chain[i]) \o u[i + 1]
  BY <1>1 DEF IsFrom
<1>3. /\ \A i \in Nat : seen[i] \in S
      /\ seen[0] = <<>>
      /\ \A i \in Nat : chain[i] # EOC => seen[i + 1] = seen[i] \o Scanned(d, chain[i])
  BY <1>1, SeenIs DEF IsSeen, Within
<1>4. \A i \in Nat : chain[i] # EOC => Scanned(d, chain[i]) \in S
  <2>1. Root \in Clusters(d)
    BY RootIs
  <2>2. \A i \in Nat : chain[i] \in Clusters(d) \cup {EOC}
    BY <1>1, <2>1, ChainIs
  <2> QED
    BY <1>1, <2>2, ScannedIs
<1> DEFINE Split(i) == listing = seen[i] \o u[i]
           Good == {i \in Nat : i <= n => Split(i)}
<1>5. Split(0)
  <2>1. <<>> \o u[0] = u[0]
    <3>1. 0 \in 0 .. R
      BY <1>1
    <3> QED
      BY <1>1, <1>2, <3>1, ConcatEmptySeq
  <2> QED
    BY <1>2, <1>3, <2>1
<1>6. ASSUME NEW i \in Nat, i + 1 <= n, Split(i) PROVE Split(i + 1)
  <2>1. i \in 0 .. R /\ i + 1 \in 0 .. R /\ i # R /\ i \in 0 .. (n - 1)
    BY <1>0, <1>6
  <2>2. chain[i] # EOC /\ ~Ends(d, chain[i])
    BY <1>1, <2>1 DEF GoesOn
  <2>3. PICK w \in S : w = Scanned(d, chain[i])
    BY <1>4, <2>2
  <2>4. u[i] = w \o u[i + 1] /\ seen[i + 1] = seen[i] \o w
    BY <1>2, <1>3, <2>1, <2>2, <2>3
  <2>5. PICK a \in Seq(Files(d)), b \in Seq(Files(d)) : a = seen[i] /\ b = u[i + 1]
    BY <1>1, <1>2, <1>3, <2>1
  <2>6. w \in Seq(Files(d))
    BY <1>1
  <2>7. (a \o w) \o b = a \o (w \o b)
    BY <2>6, ConcatAssociative
  <2> QED
    BY <1>6, <2>4, <2>5, <2>7
<1> HIDE DEF Split
<1>7. Split(n)
  <2>1. 0 \in Good
    BY <1>5
  <2>2. \A i \in Nat : i \in Good => i + 1 \in Good
    BY <1>6
  <2> HIDE DEF Good
  <2>3. n \in Good
    BY <2>1, <2>2, Induction
  <2> QED
    BY <2>3 DEF Good
<1>8. n \in 0 .. R
  BY <1>0
<1> QED
  BY <1>0, <1>1, <1>2, <1>7, <1>8 DEF Split

\* At cluster c, with none before it that has an end mark.
Passed(d, n, c) ==
  /\ Chain(d, Root)[n] = c /\ c \in Clusters(d)
  /\ \A k \in 0 .. (n - 1) : ~Ends(d, Chain(d, Root)[k])
Final(d, c) == Ends(d, c) \/ d.fat[c] = EOC

LEMMA ListingAlong ==
  ASSUME NEW d \in Disks, NEW n \in Nat, n < Rounds(d), NEW c, Passed(d, n, c)
  PROVE  \E r \in Seq(Files(d)) : /\ Listing(d) = (Seen(d)[n] \o Scanned(d, c)) \o r
                                  /\ Final(d, c) => r = <<>>
<1>1. PICK u : IsFrom(d, u)
  BY FromIs
<1>0. PICK R \in Nat : R = Rounds(d) /\ n < R
  BY FromIs
<1>2. PICK S, chain, seen :
        /\ S = Seq(Files(d)) /\ chain = Chain(d, Root) /\ seen = Seen(d) /\ R = Rounds(d)
  BY <1>0
<1>3. chain[n] = c /\ c \in Clusters(d) /\ c # EOC
  BY <1>2, RootIs DEF Passed
<1>4. GoesOn(d, n)
  <2>1. \A k \in 0 .. n : chain[k] \in Clusters(d)
    BY <1>2, <1>3, ChainLives
  <2>2. \A k \in 0 .. (n - 1) : k \in 0 .. n
    OBVIOUS
  <2> QED
    BY <1>2, <2>1, <2>2, RootIs DEF Passed, GoesOn
<1>5. Listing(d) = seen[n] \o u[n]
  <2>1. n <= Rounds(d)
    BY <1>0
  <2>2. Listing(d) = Seen(d)[n] \o u[n]
    BY <1>1, <1>4, <2>1, ListingSplits
  <2> QED
    BY <1>2, <2>2
<1>6. PICK r \in S : u[n] = Scanned(d, c) \o r /\ (Final(d, c) => r = <<>>)
  <2>1. n \in 0 .. R /\ n + 1 \in 0 .. R /\ n # R
    BY <1>0
  <2>2. u[n] = Scanned(d, c) \o (IF Ends(d, c) THEN <<>> ELSE u[n + 1])
    BY <1>1, <1>2, <1>3, <2>1 DEF IsFrom
  <2>3. u[n + 1] \in S /\ <<>> \in S
    BY <1>1, <1>2, <2>1 DEF IsFrom
  <2>4. d.fat[c] = EOC => u[n + 1] = <<>>
    <3>1. chain[n + 1] = d.fat[c]
      <4>1. Root \in Clusters(d)
        BY RootIs
      <4> QED
        BY <1>2, <1>3, <4>1, ChainIs
    <3> QED
      BY <1>1, <1>2, <2>1, <3>1 DEF IsFrom
  <2>5. CASE Ends(d, c)
    BY <2>2, <2>3, <2>5
  <2>6. CASE ~Ends(d, c)
    BY <2>2, <2>3, <2>4, <2>6 DEF Final
  <2> QED
    BY <2>5, <2>6
<1>7. PICK a \in S, w \in S : a = seen[n] /\ w = Scanned(d, c)
  BY <1>2, <1>3, SeenIs, ScannedIs DEF IsSeen
<1>8. (a \o w) \o r = a \o (w \o r)
  BY <1>2, ConcatAssociative
<1> QED
  BY <1>2, <1>5, <1>6, <1>7, <1>8

\* One cluster further.
LEMMA PassedNext ==
  ASSUME NEW d \in Disks, NEW n \in Nat, NEW c, Passed(d, n, c)
  PROVE  /\ Seen(d)[n + 1] = Seen(d)[n] \o Scanned(d, c)
         /\ Scanned(d, c) \in Seq(Files(d))
         /\ ~Final(d, c) => Passed(d, n + 1, d.fat[c])
<1>1. c \in Clusters(d) /\ Chain(d, Root)[n] = c /\ c # EOC /\ d.fat[c] \in Clusters(d) \cup {EOC}
  BY RootIs DEF Passed
<1>2. Seen(d)[n + 1] = Seen(d)[n] \o Scanned(d, c)
  BY <1>1, SeenIs DEF IsSeen, Within
<1>3. ASSUME ~Final(d, c) PROVE Passed(d, n + 1, d.fat[c])
  <2>1. Chain(d, Root)[n + 1] = d.fat[c] /\ d.fat[c] \in Clusters(d)
    <3>1. Root \in Clusters(d)
      BY RootIs
    <3> QED
      BY <1>1, <1>3, <3>1, ChainIs DEF Final
  <2>2. \A k \in 0 .. ((n + 1) - 1) : k = n \/ k \in 0 .. (n - 1)
    OBVIOUS
  <2> QED
    BY <1>1, <1>3, <2>1, <2>2 DEF Passed, Final
<1> QED
  BY <1>1, <1>2, <1>3, ScannedIs

LEMMA SeenGrows ==
  ASSUME NEW d \in Disks, NEW j \in Nat, NEW k \in Nat, j <= k
  PROVE  /\ Seen(d)[j] \in Seq(Files(d)) /\ Seen(d)[k] \in Seq(Files(d))
         /\ \E r \in Seq(Files(d)) : Seen(d)[k] = Seen(d)[j] \o r
<1>1. PICK w : w = [n \in Nat |-> Within(d, Chain(d, Root)[n])]
  OBVIOUS
<1>2. /\ \A n \in Nat : Seen(d)[n] \in Seq(Files(d)) /\ w[n] \in Seq(Files(d))
      /\ \A n \in Nat : Seen(d)[n + 1] = Seen(d)[n] \o w[n]
  <2>1. Root \in Clusters(d)
    BY RootIs
  <2>2. \A n \in Nat : Chain(d, Root)[n] \in Clusters(d) \cup {EOC}
    BY <2>1, ChainIs
  <2> QED
    BY <1>1, <2>2, SeenIs, WithinIs DEF IsSeen
<1> DEFINE Grown(n) == \E r \in Seq(Files(d)) : Seen(d)[n] = Seen(d)[j] \o r
           Good == {i \in Nat : Grown(j + i)}
<1>3. Grown(j)
  <2>1. <<>> \in Seq(Files(d)) /\ Seen(d)[j] = Seen(d)[j] \o <<>>
    BY <1>2, ConcatEmptySeq
  <2> QED
    BY <2>1
<1>4. ASSUME NEW n \in Nat, Grown(n) PROVE Grown(n + 1)
  <2>1. PICK r \in Seq(Files(d)) : Seen(d)[n] = Seen(d)[j] \o r
    BY <1>4
  <2>2. PICK a \in Seq(Files(d)), v \in Seq(Files(d)) : a = Seen(d)[j] /\ v = w[n]
    BY <1>2
  <2>3. (a \o r) \o v = a \o (r \o v) /\ r \o v \in Seq(Files(d))
    <3> DEFINE S == Files(d)
    <3>1. a \in Seq(S) /\ r \in Seq(S) /\ v \in Seq(S)
      OBVIOUS
    <3> HIDE DEF S
    <3>2. (a \o r) \o v = a \o (r \o v)
      BY ONLY <3>1, ConcatAssociative
    <3>3. r \o v \in Seq(S)
      BY ONLY <3>1, ConcatProperties
    <3> QED
      BY <3>2, <3>3 DEF S
  <2>4. Seen(d)[n + 1] = (a \o r) \o v
    BY <1>2, <2>1, <2>2
  <2>5. Seen(d)[n + 1] = Seen(d)[j] \o (r \o v)
    BY <2>2, <2>3, <2>4
  <2> QED
    BY <2>3, <2>5
<1> HIDE DEF Grown
<1>5. k - j \in Good
  <2>1. 0 \in Good
    <3>1. j + 0 = j
      OBVIOUS
    <3> QED
      BY <1>3, <3>1
  <2>2. \A i \in Nat : i \in Good => i + 1 \in Good
    <3> SUFFICES ASSUME NEW i \in Nat, Grown(j + i) PROVE Grown(j + (i + 1))
      OBVIOUS
    <3>1. j + i \in Nat /\ (j + i) + 1 = j + (i + 1)
      OBVIOUS
    <3>2. Grown((j + i) + 1)
      BY <1>4, <3>1
    <3> QED
      BY <3>1, <3>2
  <2>3. k - j \in Nat
    OBVIOUS
  <2> HIDE DEF Good
  <2> QED
    BY <2>1, <2>2, <2>3, Induction
<1>6. Grown(k)
  <2>1. j + (k - j) = k
    OBVIOUS
  <2> QED
    BY <1>5, <2>1
<1> QED
  BY <1>2, <1>6 DEF Grown

\* A chain goes on from each of its clusters in one way.
LEMMA ChainRepeats ==
  ASSUME NEW d \in Disks, NEW j \in Nat, NEW k \in Nat, Chain(d, Root)[j] = Chain(d, Root)[k]
  PROVE  Chain(d, Root)[j + 1] = Chain(d, Root)[k + 1]
<1>1. \A i \in Nat : Chain(d, Root)[i + 1] = IF Chain(d, Root)[i] = EOC THEN EOC
                                             ELSE d.fat[Chain(d, Root)[i]]
  <2>1. Root \in Clusters(d)
    BY RootIs
  <2> QED
    BY <2>1, ChainIs
<1>2. PICK b : b = Chain(d, Root)[j] /\ b = Chain(d, Root)[k]
  OBVIOUS
<1>3. Chain(d, Root)[j + 1] = IF b = EOC THEN EOC ELSE d.fat[b]
  BY <1>1, <1>2
<1>4. Chain(d, Root)[k + 1] = IF b = EOC THEN EOC ELSE d.fat[b]
  BY <1>1, <1>2
<1> QED
  BY <1>3, <1>4

\* A walk that has not filled the listing has seen and is at what it has seen
\* and was at after fewer clusters than Listing goes through, however often
\* it has been around a loop.
LEMMA ListWithin ==
  ASSUME NEW d \in Disks, NEW n \in Nat, NEW c, Passed(d, n, c),
         Len(Seen(d)[n]) < MaxEntries
  PROVE  \E m \in Nat : m < Rounds(d) /\ Passed(d, m, c) /\ Seen(d)[m] = Seen(d)[n]
<1>1. PICK chain, seen : chain = Chain(d, Root) /\ seen = Seen(d)
  OBVIOUS
<1>2. PICK C : C = Clusters(d) /\ IsFiniteSet(C) /\ Root \in C /\ EOC \notin C
  BY RootIs
<1>3. PICK e \in Nat : e = MaxEntries
  BY Sizes DEF MaxEntries
<1>4. PICK T : T = C \X (0 .. (e - 1))
  OBVIOUS
<1>5. IsFiniteSet(T) /\ Cardinality(T) = Rounds(d)
  <2>1. IsFiniteSet(0 .. (e - 1)) /\ Cardinality(0 .. (e - 1)) = e
    <3>1. 0 \in Int /\ e - 1 \in Int /\ (0 > e - 1 <=> e = 0) /\ (e - 1) - 0 + 1 = e
      OBVIOUS
    <3>2. IsFiniteSet(0 .. (e - 1))
          /\ Cardinality(0 .. (e - 1)) = IF 0 > e - 1 THEN 0 ELSE (e - 1) - 0 + 1
      BY <3>1, FS_Interval
    <3> QED
      BY <3>1, <3>2
  <2>2. IsFiniteSet(T) /\ Cardinality(T) = Cardinality(C) * e
    BY <1>2, <1>4, <2>1, FS_Product
  <2>3. PICK k \in Nat : k = Cardinality(C)
    BY <1>2, FS_CardinalityType
  <2>4. Rounds(d) = e * k
    BY <1>2, <1>3, <2>3 DEF Rounds, MaxEntries
  <2> QED
    BY <2>2, <2>3, <2>4
<1>0. PICK x, key : /\ x = [k \in Nat |-> <<chain[k], seen[k]>>]
                    /\ key = [k \in Nat |-> <<chain[k], Len(seen[k])>>]
  OBVIOUS
<1>6. \A j, k \in Nat : j <= k => /\ seen[j] \in Seq(Files(d)) /\ seen[k] \in Seq(Files(d))
                                  /\ \E r \in Seq(Files(d)) : seen[k] = seen[j] \o r
  BY <1>1, SeenGrows
<1>7. chain[n] = c /\ \A k \in 0 .. n : chain[k] \in C
  BY <1>1, <1>2, ChainLives DEF Passed
<1>8. \A k \in 0 .. n : key[k] \in T
  <2> SUFFICES ASSUME NEW k \in 0 .. n PROVE key[k] \in T
    OBVIOUS
  <2>1. k \in Nat /\ k <= n
    OBVIOUS
  <2>2. PICK a \in Seq(Files(d)), b \in Seq(Files(d)), r \in Seq(Files(d)) :
          a = seen[k] /\ b = seen[n] /\ b = a \o r
    <3>1. /\ seen[k] \in Seq(Files(d)) /\ seen[n] \in Seq(Files(d))
          /\ \E r \in Seq(Files(d)) : seen[n] = seen[k] \o r
      BY <1>6, <2>1
    <3> QED
      BY <3>1
  <2>3. Len(a) \in Nat /\ Len(b) \in Nat /\ Len(r) \in Nat /\ Len(b) = Len(a) + Len(r)
    BY <2>2, LenProperties, ConcatProperties
  <2>4. Len(a) \in 0 .. (e - 1)
    BY <1>1, <1>3, <2>2, <2>3
  <2> QED
    BY <1>0, <1>4, <1>7, <2>1, <2>2, <2>4
<1>9. \A j, k \in Nat : j < k /\ k <= n /\ key[j] = key[k] => x[j] = x[k]
  <2> SUFFICES ASSUME NEW j \in Nat, NEW k \in Nat, j < k,
                      chain[j] = chain[k], Len(seen[j]) = Len(seen[k])
               PROVE  seen[j] = seen[k]
    BY <1>0
  <2>0. j <= k
    OBVIOUS
  <2>1. PICK a \in Seq(Files(d)), b \in Seq(Files(d)), r \in Seq(Files(d)) :
          a = seen[j] /\ b = seen[k] /\ b = a \o r
    <3>1. /\ seen[j] \in Seq(Files(d)) /\ seen[k] \in Seq(Files(d))
          /\ \E r \in Seq(Files(d)) : seen[k] = seen[j] \o r
      BY <1>6, <2>0
    <3> QED
      BY <3>1
  <2>2. Len(a) \in Nat /\ Len(b) \in Nat /\ Len(r) \in Nat /\ Len(b) = Len(a) + Len(r)
    BY <2>1, LenProperties, ConcatProperties
  <2>3. Len(r) = 0
    <3>1. Len(a) = Len(b)
      BY <2>1
    <3> QED
      BY <2>2, <3>1
  <2>4. r = <<>>
    BY <2>3, EmptySeq
  <2>5. a \o <<>> = a
    BY ConcatEmptySeq
  <2> QED
    BY <2>1, <2>4, <2>5
<1>10. \A j, k \in Nat : x[j] = x[k] => x[j + 1] = x[k + 1]
  <2> SUFFICES ASSUME NEW j \in Nat, NEW k \in Nat, x[j] = x[k]
               PROVE  x[j + 1] = x[k + 1]
    OBVIOUS
  <2>1. chain[j] = chain[k] /\ seen[j] = seen[k] /\ j + 1 \in Nat /\ k + 1 \in Nat
    BY <1>0
  <2>2. chain[j + 1] = chain[k + 1]
    BY <1>1, <2>1, ChainRepeats
  <2>3. seen[j + 1] = seen[k + 1]
    BY <1>1, <2>1, SeenIs DEF IsSeen
  <2> QED
    BY <1>0, <2>1, <2>2, <2>3
<1>11. PICK m \in Nat : m < Cardinality(T) /\ m <= n /\ x[m] = x[n]
  <2>1. Loops(T, x, key, n)
    BY <1>8, <1>9, <1>10 DEF Loops
  <2> QED
    BY <1>5, <2>1, Recurs
<1>12. chain[m] = c /\ seen[m] = seen[n]
  BY <1>0, <1>7, <1>11
<1>13. \A k \in 0 .. (m - 1) : k \in 0 .. (n - 1)
  BY <1>11
<1>14. Passed(d, m, c)
  BY <1>1, <1>12, <1>13 DEF Passed
<1> QED
  BY <1>1, <1>5, <1>11, <1>12, <1>14

\* A walk that looks for a name is where it was after so few clusters.
LEMMA LookWithin ==
  ASSUME NEW d \in Disks, NEW n \in Nat, NEW c, Passed(d, n, c)
  PROVE  \E m \in Nat : m < Rounds(d) /\ m <= n /\ Passed(d, m, c)
<1>1. PICK chain : chain = Chain(d, Root)
  OBVIOUS
<1>2. PICK C : C = Clusters(d) /\ IsFiniteSet(C) /\ Root \in C /\ EOC \notin C
  BY RootIs
<1>3. chain[n] = c /\ \A k \in 0 .. n : chain[k] \in C
  BY <1>1, <1>2, ChainLives DEF Passed
<1>4. Loops(C, chain, chain, n)
  <2>1. \A j, k \in Nat : chain[j] = chain[k] => chain[j + 1] = chain[k + 1]
    BY <1>1, ChainRepeats
  <2> QED
    BY <1>3, <2>1 DEF Loops
<1>5. PICK m \in Nat : m < Cardinality(C) /\ m <= n /\ chain[m] = chain[n]
  BY <1>2, <1>4, Recurs
<1>6. Cardinality(C) <= Rounds(d)
  <2>1. PICK a \in Nat \ {0}, b \in Nat \ {0}, k \in Nat :
          a = MaxClusters /\ b = Entries /\ k = Cardinality(C)
    BY <1>2, Sizes, FS_CardinalityType
  <2>2. PICK p \in Nat \ {0} : p = a * b
    OBVIOUS
  <2>3. k <= p * k
    OBVIOUS
  <2> QED
    BY <1>2, <2>1, <2>2, <2>3 DEF Rounds
<1>7. \A k \in 0 .. (m - 1) : k \in 0 .. (n - 1)
  BY <1>5
<1>8. Passed(d, m, c)
  BY <1>1, <1>3, <1>5, <1>7 DEF Passed
<1>9. m < Rounds(d)
  <2>1. Rounds(d) \in Nat /\ Cardinality(C) \in Nat
    BY <1>2, FromIs, FS_CardinalityType
  <2> QED
    BY <1>5, <1>6, <2>1
<1> QED
  BY <1>5, <1>8, <1>9

\* The beginning of a sequence.
LEMMA CutFrom ==
  ASSUME NEW S, NEW s, NEW k \in Nat, \A i \in 1 .. k : s[i] \in S, NEW m, m = SubSeq(s, 1, k)
  PROVE  m \in Seq(S) /\ Len(m) = k /\ \A i \in 1 .. k : m[i] = s[i]
BY SubSeqProperties

LEMMA ConcatLen ==
  ASSUME NEW S, NEW a \in Seq(S), NEW b \in Seq(S), NEW c, c = a \o b,
         NEW m, m = Len(a), NEW n, n = Len(b)
  PROVE  /\ m \in Nat /\ n \in Nat /\ c \in Seq(S) /\ Len(c) = m + n
         /\ \A i \in 1 .. (m + n) : c[i] = IF i <= m THEN a[i] ELSE b[i - m]
BY LenProperties, ConcatProperties

LEMMA CutIs ==
  ASSUME NEW S, NEW c \in Seq(S), NEW n \in Nat,
         NEW k \in Nat, k = Lesser(Len(c), n), NEW m, m = SubSeq(c, 1, k)
  PROVE  /\ m \in Seq(S) /\ Len(m) = k /\ k <= Len(c)
         /\ \A i \in 1 .. k : c[i] \in S /\ m[i] = c[i]
         /\ k = Len(c) => m = c
<1>1. Len(c) \in Nat /\ k <= Len(c) /\ c \in [1 .. Len(c) -> S]
  BY DEF Lesser
<1>2. \A i \in 1 .. k : c[i] \in S
  BY <1>1
<1>3. m \in Seq(S) /\ Len(m) = k /\ \A i \in 1 .. k : m[i] = c[i]
  BY <1>2, SubSeqProperties
<1>4. k = Len(c) => m = c
  BY <1>3, SeqEqual
<1> QED
  BY <1>1, <1>2, <1>3, <1>4

\* l goes on where c ends.
Extends(c, l) ==
  /\ Len(l) \in Nat /\ Len(c) <= Len(l)
  /\ \A i \in 1 .. Len(c) : l[i] = c[i]

LEMMA ConcatExtends ==
  ASSUME NEW S, NEW c \in Seq(S), NEW r \in Seq(S), NEW l, l = c \o r
  PROVE  Extends(c, l)
<1>1. PICK p, q : p = Len(c) /\ q = Len(r)
  OBVIOUS
<1>2. /\ p \in Nat /\ q \in Nat /\ Len(l) = p + q
      /\ \A i \in 1 .. (p + q) : l[i] = IF i <= p THEN c[i] ELSE r[i - p]
  BY <1>1, ConcatLen
<1>3. p <= p + q /\ p + q \in Nat /\ \A i \in 1 .. p : i \in 1 .. (p + q) /\ i <= p
  BY <1>2
<1>4. \A i \in 1 .. p : l[i] = c[i]
  BY <1>2, <1>3
<1> QED
  BY <1>1, <1>2, <1>3, <1>4 DEF Extends

LEMMA ExtendsFurther ==
  ASSUME NEW a, NEW b, NEW l, Extends(a, b), Extends(b, l), Len(a) \in Nat
  PROVE  Extends(a, l)
BY DEF Extends

LEMMA CutPrefix ==
  ASSUME NEW S, NEW c \in Seq(S), NEW n \in Nat,
         NEW k \in Nat, k = Lesser(Len(c), n), NEW m, m = SubSeq(c, 1, k),
         NEW l, Extends(c, l)
  PROVE  IsPrefix(m, l)
<1>1. /\ m \in Seq(S) /\ Len(m) = k /\ k <= Len(c) /\ Len(c) \in Nat
      /\ \A i \in 1 .. k : c[i] \in S /\ m[i] = c[i]
  BY CutIs, LenProperties
<1>2. Len(l) \in Nat /\ k <= Len(l) /\ \A i \in 1 .. k : m[i] \in S /\ l[i] \in S /\ l[i] = m[i]
  BY <1>1 DEF Extends
<1>3. PICK s, t : s = SubSeq(m, 1, k) /\ t = SubSeq(l, 1, k)
  OBVIOUS
<1>4. s \in Seq(S) /\ Len(s) = k /\ \A i \in 1 .. k : s[i] = m[i]
  BY <1>2, <1>3, CutFrom
<1>5. t \in Seq(S) /\ Len(t) = k /\ \A i \in 1 .. k : t[i] = l[i]
  BY <1>2, <1>3, CutFrom
<1>6. s = t
  BY <1>2, <1>4, <1>5, SeqEqual
<1> QED
  BY <1>1, <1>2, <1>3, <1>6 DEF IsPrefix

LEMMA PrefixIs ==
  ASSUME NEW S, NEW a \in Seq(S), NEW l, Extends(a, l)
  PROVE  IsPrefix(a, l)
<1>1. PICK k \in Nat : k = Len(a) /\ k = Lesser(Len(a), k)
  BY LenProperties DEF Lesser
<1>2. PICK m : m = SubSeq(a, 1, k)
  OBVIOUS
<1>3. IsPrefix(m, l)
  BY <1>1, <1>2, CutPrefix
<1>4. m = a
  BY <1>1, <1>2, CutIs
<1> QED
  BY <1>3, <1>4

\* The directory, for a listing that is not full,
LEMMA ListCore ==
  ASSUME NEW d \in Disks, NEW n \in Nat, NEW c, Passed(d, n, c),
         NEW a, a = Seen(d)[n], Len(a) < MaxEntries
  PROVE  /\ a \in Seq(Files(d)) /\ Scanned(d, c) \in Seq(Files(d))
         /\ \E r \in Seq(Files(d)) : /\ Listing(d) = (a \o Scanned(d, c)) \o r
                                     /\ Final(d, c) => r = <<>>
<1>1. PICK m \in Nat : m < Rounds(d) /\ Passed(d, m, c) /\ Seen(d)[m] = a
  BY ListWithin
<1>2. a \in Seq(Files(d)) /\ Scanned(d, c) \in Seq(Files(d))
  BY SeenIs, PassedNext DEF IsSeen
<1> QED
  BY <1>1, <1>2, ListingAlong

\* and for a lookup that has found nothing.
NoHit(l, f) == \A i \in 1 .. Len(l) : ~CheckFilename(l[i], f)

LEMMA NoHitConcat ==
  ASSUME NEW S, NEW a \in Seq(S), NEW b \in Seq(S), NEW f
  PROVE  NoHit(a \o b, f) <=> NoHit(a, f) /\ NoHit(b, f)
<1>1. PICK m, n, c : m = Len(a) /\ n = Len(b) /\ c = a \o b
  OBVIOUS
<1>2. /\ m \in Nat /\ n \in Nat /\ Len(c) = m + n
      /\ \A i \in 1 .. (m + n) : c[i] = IF i <= m THEN a[i] ELSE b[i - m]
  BY <1>1, ConcatLen
<1>3. ASSUME NoHit(c, f) PROVE NoHit(a, f) /\ NoHit(b, f)
  <2>1. \A i \in 1 .. m : i \in 1 .. (m + n) /\ c[i] = a[i]
    BY <1>2
  <2>2. \A i \in 1 .. n : m + i \in 1 .. (m + n) /\ c[m + i] = b[i]
    BY <1>2
  <2> QED
    BY <1>1, <1>2, <1>3, <2>1, <2>2 DEF NoHit
<1>4. ASSUME NoHit(a, f), NoHit(b, f) PROVE NoHit(c, f)
  <2> SUFFICES ASSUME NEW i \in 1 .. (m + n) PROVE ~CheckFilename(c[i], f)
    BY <1>2 DEF NoHit
  <2>1. CASE i <= m
    <3>1. i \in 1 .. m /\ c[i] = a[i]
      BY <1>2, <2>1
    <3> QED
      BY <1>1, <1>4, <3>1 DEF NoHit
  <2>2. CASE ~(i <= m)
    <3>1. i - m \in 1 .. n /\ c[i] = b[i - m]
      BY <1>2, <2>2
    <3> QED
      BY <1>1, <1>4, <3>1 DEF NoHit
  <2> QED
    BY <2>1, <2>2
<1> QED
  BY <1>1, <1>3, <1>4

LEMMA LookCore ==
  ASSUME NEW d \in Disks, NEW n \in Nat, NEW c, Passed(d, n, c),
         NEW f, NoHit(Seen(d)[n], f)
  PROVE  \E a, r \in Seq(Files(d)) : /\ Listing(d) = (a \o Scanned(d, c)) \o r
                                     /\ Final(d, c) => r = <<>>
                                     /\ NoHit(a, f)
<1>1. PICK m \in Nat : m < Rounds(d) /\ m <= n /\ Passed(d, m, c)
  BY LookWithin
<1>2. PICK a \in Seq(Files(d)), b \in Seq(Files(d)) : a = Seen(d)[m] /\ Seen(d)[n] = a \o b
  BY <1>1, SeenGrows
<1>3. NoHit(a, f)
  BY <1>2, NoHitConcat
<1>4. PICK r \in Seq(Files(d)) : /\ Listing(d) = (a \o Scanned(d, c)) \o r
                                 /\ Final(d, c) => r = <<>>
  BY <1>1, <1>2, ListingAlong
<1> QED
  BY <1>3, <1>4

-----------------------------------------------------------------------------
(***************************************************************************)
(* What a walk has found.                                                  *)
(***************************************************************************)
\* In the nth cluster of the chain: before it is gone through, or behind it.
Behind(n) == IF at = "dir" THEN n ELSE n + 1
WalkAt(n) == Passed(disk, n, clus) /\ (at = "fatdir" => ~Ends(disk, clus))

\* A listing has what the clusters behind list, or it is full.
ListAt(n) == WalkAt(n) /\ list = Seen(disk)[Behind(n)] /\ Len(list) < MaxEntries
ListFull == IsPrefix(list, Listing(disk)) /\ Len(list) = MaxEntries
ListSoFar == Walking /\ name = NoName => ListFull \/ \E n \in Nat : ListAt(n)

\* A lookup has gone by no name that it would have taken.
LookAt(n) == WalkAt(n) /\ NoHit(Seen(disk)[Behind(n)], name)
LookSoFar == Walking /\ name # NoName => name \in Names /\ \E n \in Nat : LookAt(n)

WalkInv == ListSoFar /\ LookSoFar /\ ListRight /\ LookupRight

LEMMA Elsewhere ==
  ASSUME ~Walking', ret'.of \notin {"listing", "lookup"}
  PROVE  WalkInv'
BY DEF WalkInv, ListSoFar, LookSoFar, ListRight, LookupRight

LEMMA ListingIs ==
  ASSUME NEW d \in Disks
  PROVE  Listing(d) \in Seq(Files(d)) /\ Len(Listing(d)) \in Nat
<1>1. PICK u : IsFrom(d, u)
  BY FromIs
<1>2. Rounds(d) \in Nat /\ 0 \in 0 .. Rounds(d)
  BY FromIs
<1>3. Listing(d) \in Seq(Files(d))
  BY <1>1, <1>2 DEF IsFrom
<1> QED
  BY <1>3, LenProperties

\* A walk that ends with a listing,
LEMMA ListEnds ==
  ASSUME Walking, name = NoName, disk' = disk, NEW l, NEW t, WalkOver(l, t),
         IsPrefix(l, Listing(disk)),
         ~t => Len(l) = Lesser(Len(Listing(disk)), MaxEntries)
  PROVE  WalkInv'
<1>1. at' = "idle" /\ ret' = [of |-> "listing", list |-> l, trouble |-> t]
  BY DEF WalkOver, Return
<1>2. ListRight'
  BY <1>1 DEF ListRight, MaxEntries
<1> QED
  BY <1>1, <1>2 DEF WalkInv, ListSoFar, LookSoFar, LookupRight, Walking

\* and with a lookup that finds nothing.
LEMMA LookEnds ==
  ASSUME Walking, name # NoName, disk' = disk, NEW l, NEW t, WalkOver(l, t),
         t \/ \A i \in DOMAIN Listing(disk) : ListName(Listing(disk)[i]) # name
  PROVE  WalkInv'
<1>1. /\ at' = "idle"
      /\ ret' = [of |-> "lookup", name |-> name, file |-> NoFile, trouble |-> t]
  BY DEF WalkOver, Return
<1>2. LookupRight'
  BY <1>1 DEF LookupRight
<1> QED
  BY <1>1, <1>2 DEF WalkInv, ListSoFar, LookSoFar, ListRight, Walking

LEMMA WalkStarts ==
  ASSUME FatInv, NEW f \in Names \cup {NoName}, StartWalk(f)
  PROVE  WalkInv'
<1>1. /\ mnt = "ok" /\ at = "idle" /\ at' = "dir" /\ clus' = Root /\ name' = f
      /\ disk' = disk /\ list' = list /\ ret' = [of |-> "none"]
  BY DEF StartWalk
<1>2. PICK d \in Disks : d = disk
  BY <1>1 DEF FatInv, Device
<1>3. Passed(d, 0, Root)
  <2>1. Root \in Clusters(d)
    BY RootIs
  <2>2. Chain(d, Root)[0] = Root
    BY <2>1, ChainIs
  <2>3. \A k \in 0 .. (0 - 1) : FALSE
    OBVIOUS
  <2> QED
    BY <2>1, <2>2, <2>3 DEF Passed
<1>4. Seen(d)[0] = <<>> /\ list = <<>>
  BY <1>1, SeenIs DEF IsSeen, FatInv, Call, Walking
<1>5. Len(<<>>) = 0 /\ 0 < MaxEntries /\ 0 \in Nat
  BY Sizes DEF MaxEntries
<1>6. ListSoFar'
  <2>1. ListAt(0)'
    BY <1>1, <1>2, <1>3, <1>4, <1>5 DEF ListAt, WalkAt, Behind
  <2> QED
    BY <1>5, <2>1 DEF ListSoFar
<1>7. LookSoFar'
  <2>1. NoHit(<<>>, f)
    BY <1>5 DEF NoHit
  <2>2. LookAt(0)'
    BY <1>1, <1>2, <1>3, <1>4, <1>5, <2>1 DEF LookAt, WalkAt, Behind
  <2> QED
    BY <1>1, <1>5, <2>2 DEF LookSoFar
<1> QED
  BY <1>1, <1>6, <1>7 DEF WalkInv, ListRight, LookupRight

\* A full listing is as long as the directory lets it be.
LEMMA FullIs ==
  ASSUME NEW d \in Disks, NEW l, IsPrefix(l, Listing(d)), Len(l) = MaxEntries
  PROVE  Len(l) = Lesser(Len(Listing(d)), MaxEntries)
<1>1. PICK m \in Nat : m = MaxEntries
  BY Sizes DEF MaxEntries
<1>2. PICK k \in Nat : k = Len(Listing(d))
  BY ListingIs
<1>3. m <= k
  BY <1>1, <1>2 DEF IsPrefix
<1> QED
  BY <1>1, <1>2, <1>3 DEF Lesser

LEMMA ThreeSeq ==
  ASSUME NEW S, NEW x \in [1 .. 3 -> S]
  PROVE  x \in Seq(S) /\ Len(x) = 3
<1>1. 3 \in Nat
  OBVIOUS
<1>2. x \in Seq(S)
  BY <1>1, SeqDef
<1>3. DOMAIN x = 1 .. 3 /\ DOMAIN x = 1 .. Len(x) /\ Len(x) \in Nat
  BY <1>2, LenProperties
<1> QED
  BY <1>2, <1>3

\* The name that an entry is listed under is one that it is taken for.
Parts(S, s, dot, x, f) == /\ s \in Seq(S) /\ dot \in Seq(S) /\ x \in Seq(S)
                          /\ f = (s \o dot) \o x /\ Len(dot) = 1 /\ Len(x) = 3

LEMMA PartsAre ==
  ASSUME NEW S, NEW s, NEW dot, NEW x, NEW f, Parts(S, s, dot, x, f)
  PROVE  IsPrefix(s, f) /\ Len(f) >= 3 /\ \A j \in 1 .. 3 : x[j] = f[Len(f) - 3 + j]
<1>0. s \in Seq(S) /\ dot \in Seq(S) /\ x \in Seq(S)
  BY DEF Parts
<1>p. PICK b, m, n, k : b = s \o dot /\ f = b \o x /\ m = Len(s) /\ n = Len(dot) /\ k = Len(x)
  BY DEF Parts
<1>1. /\ m \in Nat /\ n \in Nat /\ b \in Seq(S) /\ Len(b) = m + n
      /\ \A i \in 1 .. (m + n) : b[i] = IF i <= m THEN s[i] ELSE dot[i - m]
  BY <1>0, <1>p, ConcatLen
<1>2. PICK l : l = Len(b) /\ l = m + n
  BY <1>1
<1>3. /\ k \in Nat /\ f \in Seq(S) /\ Len(f) = l + k
      /\ \A i \in 1 .. (l + k) : f[i] = IF i <= l THEN b[i] ELSE x[i - l]
  BY <1>0, <1>p, <1>1, <1>2, ConcatLen
<1>4. \A i \in 1 .. m : f[i] = s[i]
  <2> SUFFICES ASSUME NEW i \in 1 .. m PROVE f[i] = s[i]
    OBVIOUS
  <2>1. i \in 1 .. (m + n) /\ i \in 1 .. (l + k) /\ i <= l /\ i <= m
    BY <1>1, <1>2, <1>3
  <2>2. b[i] = s[i]
    BY <1>1, <2>1
  <2> QED
    BY <1>3, <2>1, <2>2
<1>5. IsPrefix(s, f)
  <2>1. m <= Len(f)
    BY <1>1, <1>2, <1>3
  <2>2. SubSeq(s, 1, m) = SubSeq(f, 1, m)
    <3>1. SubSeq(s, 1, m) = [i \in 1 .. m |-> s[i]] /\ SubSeq(f, 1, m) = [i \in 1 .. m |-> f[i]]
      BY <1>0, <1>1, <1>3
    <3> QED
      BY <1>4, <3>1
  <2> QED
    BY <1>p, <2>1, <2>2 DEF IsPrefix
<1>6. ASSUME NEW j \in 1 .. k PROVE x[j] = f[l + j]
  <2>1. l + j \in 1 .. (l + k) /\ ~(l + j <= l) /\ (l + j) - l = j
    BY <1>1, <1>2, <1>3
  <2> QED
    BY <1>3, <2>1
<1>7. n = 1 /\ k = 3
  BY <1>p DEF Parts
<1>8. Len(f) >= 3 /\ \A j \in 1 .. 3 : l + j = Len(f) - 3 + j
  BY <1>1, <1>2, <1>3, <1>7
<1> QED
  BY <1>5, <1>6, <1>7, <1>8

\* An entry is taken only for a name that begins and ends like it.
LEMMA TakenResembles ==
  ASSUME NEW s, NEW x \in [1 .. 3 -> Char], NEW f \in Seq(Char),
         Len(f) >= 3, \A j \in 1 .. 3 : x[j] = f[Len(f) - 3 + j]
  PROVE  IsSuffix(x, f)
<1>1. PICK n \in Nat : n = Len(f) /\ n >= 3
  OBVIOUS
<1> DEFINE r == [k \in 1 .. 3 |-> x[(3 - k) + 1]]
           g == [k \in 1 .. n |-> f[(n - k) + 1]]
<1>2. Len(x) = 3 /\ Reverse(x) = r /\ Reverse(f) = g
  <2>1. Len(x) = 3
    BY ThreeSeq
  <2> QED
    BY <1>1, <2>1 DEF Reverse
<1>3. r \in Seq(Char) /\ Len(r) = 3
  <2>1. \A k \in 1 .. 3 : (3 - k) + 1 \in 1 .. 3
    OBVIOUS
  <2>2. r \in [1 .. 3 -> Char]
    BY <2>1
  <2> QED
    BY <2>2, ThreeSeq
<1>4. g \in Seq(Char) /\ Len(g) = n
  <2>1. \A k \in 1 .. n : (n - k) + 1 \in 1 .. n
    OBVIOUS
  <2>2. g \in [1 .. n -> Char]
    BY <1>1, <2>1
  <2> QED
    BY <2>2
<1>5. ASSUME NEW k \in 1 .. 3 PROVE r[k] = g[k]
  <2>1. (3 - k) + 1 \in 1 .. 3 /\ k \in 1 .. n /\ n - 3 + ((3 - k) + 1) = (n - k) + 1
    BY <1>1
  <2>2. x[(3 - k) + 1] = f[(n - k) + 1]
    BY <1>1, <2>1
  <2> QED
    BY <2>1, <2>2
<1> HIDE DEF r, g
<1>6. SubSeq(r, 1, 3) = SubSeq(g, 1, 3)
  <2>1. SubSeq(r, 1, 3) = [k \in 1 .. 3 |-> r[k]] /\ SubSeq(g, 1, 3) = [k \in 1 .. 3 |-> g[k]]
    BY <1>1, <1>3, <1>4
  <2> QED
    BY <1>5, <2>1
<1>7. IsPrefix(r, g)
  BY <1>1, <1>3, <1>4, <1>6 DEF IsPrefix
<1> QED
  BY <1>2, <1>7 DEF IsSuffix

LEMMA NamesAgree ==
  ASSUME NEW d \in Disks, NEW e \in Files(d), NEW f
  PROVE  /\ ListName(e) = f => CheckFilename(e, f)
         /\ f \in Names /\ CheckFilename(e, f) => Resembles(e, f)
<1>1. PICK s, x : s = e.stem /\ x = e.ext /\ s \in Seq(Char) /\ x \in [1 .. 3 -> Char]
  BY DiskAssumption
<1>2. ASSUME ListName(e) = f PROVE CheckFilename(e, f)
  <2>1. PICK S, dot : S = Char \cup {"."} /\ dot = <<".">>
    OBVIOUS
  <2>2. s \in Seq(S) /\ dot \in Seq(S) /\ Len(dot) = 1
    BY <1>1, <2>1
  <2>3. x \in Seq(S) /\ Len(x) = 3
    <3>1. x \in [1 .. 3 -> S]
      BY <1>1, <2>1
    <3> QED
      BY <3>1, ThreeSeq
  <2>4. Parts(S, s, dot, x, f)
    <3>1. f = (s \o dot) \o x
      BY <1>1, <1>2, <2>1 DEF ListName
    <3> QED
      BY <2>2, <2>3, <3>1 DEF Parts
  <2>5. IsPrefix(s, f) /\ Len(f) >= 3 /\ \A j \in 1 .. 3 : x[j] = f[Len(f) - 3 + j]
    BY <2>4, PartsAre
  <2> QED
    BY <1>1, <2>5 DEF CheckFilename
<1>3. ASSUME f \in Names, CheckFilename(e, f) PROVE Resembles(e, f)
  <2>1. f \in Seq(Char)
    BY <1>3, DiskAssumption
  <2>2. IsPrefix(s, f) /\ Len(f) >= 3 /\ \A j \in 1 .. 3 : x[j] = f[Len(f) - 3 + j]
    BY <1>1, <1>3 DEF CheckFilename
  <2>3. IsSuffix(x, f)
    BY <1>1, <2>1, <2>2, TakenResembles
  <2> QED
    BY <1>1, <2>2, <2>3 DEF Resembles
<1> QED
  BY <1>2, <1>3

\* No entry that a lookup goes by altogether is listed under its name.
LEMMA NoneSuch ==
  ASSUME NEW d \in Disks, NEW l \in Seq(Files(d)), NEW f, NoHit(l, f)
  PROVE  \A i \in 1 .. Len(l) : ListName(l[i]) # f
<1>1. ASSUME NEW i \in 1 .. Len(l) PROVE ListName(l[i]) # f
  <2>1. l[i] \in Files(d) /\ ~CheckFilename(l[i], f)
    BY DEF NoHit
  <2> QED
    BY <2>1, NamesAgree
<1> QED
  BY <1>1

LEMMA WalkNextDir ==
  ASSUME FatInv, WalkInv, NextDirCluster
  PROVE  WalkInv'
<1>1. Walking /\ at = "fatdir" /\ disk' = disk
  BY DEF NextDirCluster, Walking
<1>2. PICK ok \in BOOLEAN :
        /\ Access(ok)
        /\ IF GetEntry(ok) = EOC THEN WalkOver(list, trouble')
           ELSE at' = "dir" /\ clus' = GetEntry(ok) /\ UNCHANGED <<name, list, sec, data, ret>>
  BY DEF NextDirCluster
<1>0. PICK d \in Disks : d = disk
  BY <1>1, WalkIs
<1>3. PICK c \in Clusters(d) : c = clus /\ d = disk
  BY <1>0, <1>1, WalkIs
<1>4. ~trouble' => ok
  BY <1>2, AccessIs DEF FatInv
<1>5. ret.of = "none"
  BY <1>1 DEF FatInv, Call
<1>6. ASSUME NEW n \in Nat, WalkAt(n)
      PROVE  /\ Passed(d, n, c) /\ ~Ends(d, c)
             /\ GetEntry(ok) # EOC => Passed(d, n + 1, GetEntry(ok))
             /\ GetEntry(ok) = EOC /\ ok => Final(d, c)
  <2>1. Passed(d, n, c) /\ ~Ends(d, c)
    BY <1>1, <1>3, <1>6 DEF WalkAt
  <2>2. GetEntry(ok) # EOC => GetEntry(ok) = d.fat[c] /\ ~Final(d, c)
    BY <1>3, <2>1 DEF GetEntry, Final
  <2>3. GetEntry(ok) = EOC /\ ok => Final(d, c)
    BY <1>3 DEF GetEntry, Final
  <2> QED
    BY <2>1, <2>2, <2>3, PassedNext
<1>7. CASE name = NoName
  <2>1. CASE ListFull
    <3>1. CASE GetEntry(ok) = EOC
      <4>1. Len(list) = Lesser(Len(Listing(d)), MaxEntries) /\ IsPrefix(list, Listing(d))
        BY <1>3, <2>1, FullIs DEF ListFull
      <4>2. WalkOver(list, trouble')
        BY <1>2, <3>1
      <4> QED
        BY <1>1, <1>3, <1>7, <4>1, <4>2, ListEnds
    <3>2. CASE GetEntry(ok) # EOC
      <4>1. ListFull'
        BY <1>1, <1>2, <2>1, <3>2 DEF ListFull
      <4> QED
        BY <1>2, <1>5, <1>7, <3>2, <4>1
           DEF WalkInv, ListSoFar, LookSoFar, ListRight, LookupRight
    <3> QED
      BY <3>1, <3>2
  <2>2. ASSUME NEW n \in Nat, ListAt(n) PROVE WalkInv'
    <3>1. /\ Passed(d, n, c) /\ list = Seen(d)[n + 1] /\ Len(list) < MaxEntries
          /\ GetEntry(ok) # EOC => Passed(d, n + 1, GetEntry(ok))
          /\ GetEntry(ok) = EOC /\ ok => Final(d, c)
      BY <1>1, <1>3, <1>6, <2>2 DEF ListAt, Behind
    <3>2. CASE GetEntry(ok) = EOC
      <4>1. PICK a : a = Seen(d)[n] /\ list = a \o Scanned(d, c)
        BY <3>1, PassedNext
      <4>2. PICK l \in Seq(Files(d)), r \in Seq(Files(d)) :
              l = list /\ Listing(d) = l \o r /\ (Final(d, c) => r = <<>>)
        <5>1. Len(a) < MaxEntries
          <6>1. PICK b \in Seq(Files(d)), e \in Seq(Files(d)), m \in Nat, k \in Nat :
                  /\ b = a /\ e = Scanned(d, c) /\ m = Len(b) /\ k = Len(e)
            <7>1. Seen(d)[n] \in Seq(Files(d)) /\ Scanned(d, c) \in Seq(Files(d))
              BY <3>1, SeenIs, PassedNext DEF IsSeen
            <7> QED
              BY <4>1, <7>1, LenProperties
          <6>2. Len(list) = m + k
            BY <4>1, <6>1, ConcatLen
          <6>3. PICK x \in Nat : x = MaxEntries
            BY Sizes DEF MaxEntries
          <6> QED
            BY <3>1, <6>1, <6>2, <6>3
        <5>2. PICK r \in Seq(Files(d)) : /\ Listing(d) = (a \o Scanned(d, c)) \o r
                                         /\ Final(d, c) => r = <<>>
          BY <3>1, <4>1, <5>1, ListCore
        <5>3. list \in Seq(Files(d))
          BY <1>1, <1>3, WalkIs
        <5> QED
          BY <4>1, <5>2, <5>3
      <4>3. IsPrefix(l, Listing(d))
        <5>1. PICK all : all = l \o r /\ Listing(d) = all
          BY <4>2
        <5>2. Extends(l, all)
          BY <5>1, ConcatExtends
        <5> QED
          BY <5>1, <5>2, PrefixIs
      <4>4. ~trouble' => Len(list) = Lesser(Len(Listing(d)), MaxEntries)
        <5> SUFFICES ASSUME ~trouble' PROVE Len(list) = Lesser(Len(Listing(d)), MaxEntries)
          OBVIOUS
        <5>1. r = <<>>
          BY <1>4, <3>1, <3>2, <4>2
        <5>2. Listing(d) = l
          BY <4>2, <5>1, ConcatEmptySeq
        <5> QED
          BY <3>1, <4>2, <5>2 DEF Lesser
      <4>5. WalkOver(list, trouble')
        BY <1>2, <3>2
      <4> QED
        BY <1>1, <1>3, <1>7, <4>2, <4>3, <4>4, <4>5, ListEnds
    <3>3. CASE GetEntry(ok) # EOC
      <4>1. /\ at' = "dir" /\ clus' = GetEntry(ok) /\ list' = list /\ name' = name
            /\ ret' = ret
        BY <1>2, <3>3
      <4>2. ListAt(n + 1)'
        BY <1>1, <1>3, <3>1, <3>3, <4>1 DEF ListAt, WalkAt, Behind
      <4>3. n + 1 \in Nat
        OBVIOUS
      <4> QED
        BY <1>5, <1>7, <4>1, <4>2, <4>3
           DEF WalkInv, ListSoFar, LookSoFar, ListRight, LookupRight
    <3> QED
      BY <3>2, <3>3
  <2> QED
    BY <1>1, <1>7, <2>1, <2>2 DEF WalkInv, ListSoFar
<1>8. CASE name # NoName
  <2>1. PICK n \in Nat : LookAt(n) /\ name \in Names
    BY <1>1, <1>8 DEF WalkInv, LookSoFar
  <2>2. /\ Passed(d, n, c) /\ NoHit(Seen(d)[n + 1], name)
        /\ GetEntry(ok) # EOC => Passed(d, n + 1, GetEntry(ok))
        /\ GetEntry(ok) = EOC /\ ok => Final(d, c)
    BY <1>1, <1>3, <1>6, <2>1 DEF LookAt, Behind
  <2>3. CASE GetEntry(ok) = EOC
    <3>1. ASSUME ok PROVE \A i \in DOMAIN Listing(d) : ListName(Listing(d)[i]) # name
      <4>1. /\ Seen(d)[n] \in Seq(Files(d)) /\ Scanned(d, c) \in Seq(Files(d))
            /\ Seen(d)[n + 1] = Seen(d)[n] \o Scanned(d, c)
        BY <2>2, SeenIs, PassedNext DEF IsSeen
      <4>2. NoHit(Seen(d)[n], name) /\ NoHit(Scanned(d, c), name)
        BY <2>2, <4>1, NoHitConcat
      <4>3. PICK a \in Seq(Files(d)), r \in Seq(Files(d)) :
              /\ Listing(d) = (a \o Scanned(d, c)) \o r
              /\ Final(d, c) => r = <<>>
              /\ NoHit(a, name)
        BY <2>2, <4>2, LookCore
      <4>4. r = <<>>
        BY <2>2, <2>3, <3>1, <4>3
      <4>5. PICK l \in Seq(Files(d)) : l = a \o Scanned(d, c)
        BY <4>1, ConcatProperties
      <4>6. Listing(d) = l
        BY <4>3, <4>4, <4>5, ConcatEmptySeq
      <4>7. NoHit(l, name)
        BY <4>1, <4>2, <4>3, <4>5, NoHitConcat
      <4>8. DOMAIN l = 1 .. Len(l) /\ \A i \in 1 .. Len(l) : ListName(l[i]) # name
        BY <2>1, <4>7, NoneSuch
      <4> QED
        BY <4>6, <4>8
    <3>2. WalkOver(list, trouble')
      BY <1>2, <2>3
    <3>3. trouble' \/ \A i \in DOMAIN Listing(disk) : ListName(Listing(disk)[i]) # name
      BY <1>3, <1>4, <3>1
    <3> QED
      BY <1>1, <1>8, <3>2, <3>3, LookEnds
  <2>4. CASE GetEntry(ok) # EOC
    <3>1. /\ at' = "dir" /\ clus' = GetEntry(ok) /\ name' = name
          /\ ret' = ret
      BY <1>2, <2>4
    <3>2. LookAt(n + 1)'
      BY <1>1, <1>3, <2>2, <2>4, <3>1 DEF LookAt, WalkAt, Behind
    <3>3. n + 1 \in Nat
      OBVIOUS
    <3> QED
      BY <1>5, <1>8, <2>1, <3>1, <3>2, <3>3
         DEF WalkInv, ListSoFar, LookSoFar, ListRight, LookupRight
  <2> QED
    BY <2>3, <2>4
<1> QED
  BY <1>7, <1>8

\* The first entry that a lookup would take, h at i.
FirstHit(l, i, h, f) ==
  /\ i \in 1 .. Len(l) /\ l[i] = h /\ CheckFilename(h, f)
  /\ \A j \in 1 .. Len(l) : j < i => ~CheckFilename(l[j], f)

LEMMA HitAt ==
  ASSUME NEW S, NEW a \in Seq(S), NEW e \in Seq(S), NEW r \in Seq(S), NEW f, NoHit(a, f),
         NEW i, NEW h, FirstHit(e, i, h, f), NEW b, b = a \o e, NEW l, l = b \o r
  PROVE  DOMAIN l = 1 .. Len(l) /\ \E p : FirstHit(l, p, h, f)
<1>2. PICK x, y, z : x = Len(a) /\ y = Len(e) /\ z = Len(r)
  OBVIOUS
<1>3. /\ x \in Nat /\ y \in Nat /\ b \in Seq(S) /\ Len(b) = x + y
      /\ \A k \in 1 .. (x + y) : b[k] = IF k <= x THEN a[k] ELSE e[k - x]
  BY <1>2, ConcatLen
<1>4. /\ z \in Nat /\ l \in Seq(S) /\ Len(l) = (x + y) + z
      /\ \A k \in 1 .. ((x + y) + z) : l[k] = IF k <= x + y THEN b[k] ELSE r[k - (x + y)]
  BY <1>2, <1>3, ConcatLen
<1>5. /\ i \in 1 .. y /\ e[i] = h /\ CheckFilename(h, f)
      /\ \A j \in 1 .. y : j < i => ~CheckFilename(e[j], f)
  BY <1>2 DEF FirstHit
<1>6. x + i \in 1 .. Len(l) /\ l[x + i] = e[i]
  <2>1. x + i \in 1 .. (x + y) /\ x + i \in 1 .. ((x + y) + z) /\ ~(x + i <= x)
        /\ (x + i) - x = i
    BY <1>3, <1>4, <1>5
  <2>2. b[x + i] = e[i]
    BY <1>3, <2>1
  <2>3. x + i <= x + y
    BY <2>1
  <2> QED
    BY <1>4, <2>1, <2>2, <2>3
<1>7. ASSUME NEW j \in 1 .. Len(l), j < x + i PROVE ~CheckFilename(l[j], f)
  <2>1. j \in 1 .. (x + y) /\ j \in 1 .. ((x + y) + z) /\ j <= x + y
    BY <1>3, <1>4, <1>5, <1>7
  <2>2. l[j] = b[j]
    BY <1>4, <2>1
  <2>3. CASE j <= x
    <3>1. j \in 1 .. x /\ l[j] = a[j]
      BY <1>3, <2>1, <2>2, <2>3
    <3> QED
      BY <1>2, <3>1 DEF NoHit
  <2>4. CASE ~(j <= x)
    <3>1. j - x \in 1 .. y /\ j - x < i /\ l[j] = e[j - x]
      BY <1>3, <1>5, <1>7, <2>1, <2>2, <2>4
    <3> QED
      BY <1>5, <3>1
  <2> QED
    BY <2>3, <2>4
<1>8. DOMAIN l = 1 .. Len(l)
  BY <1>4
<1>9. FirstHit(l, x + i, h, f)
  BY <1>5, <1>6, <1>7 DEF FirstHit
<1> QED
  BY <1>8, <1>9

LEMMA LookFinds ==
  ASSUME NEW d \in Disks, NEW n \in Nat, NEW c, Passed(d, n, c),
         NEW f, NoHit(Seen(d)[n], f), NEW i, NEW h, FirstHit(Scanned(d, c), i, h, f)
  PROVE  /\ DOMAIN Listing(d) = 1 .. Len(Listing(d))
         /\ \E p : FirstHit(Listing(d), p, h, f)
<1>1. PICK a \in Seq(Files(d)), r \in Seq(Files(d)) :
        /\ Listing(d) = (a \o Scanned(d, c)) \o r
        /\ Final(d, c) => r = <<>>
        /\ NoHit(a, f)
  BY LookCore
<1>2. PICK e \in Seq(Files(d)) : e = Scanned(d, c)
  BY PassedNext
<1>3. PICK l : l = Listing(d) /\ l = (a \o e) \o r
  BY <1>1, <1>2
<1>4. DOMAIN l = 1 .. Len(l) /\ \E p : FirstHit(l, p, h, f)
  BY <1>1, <1>2, <1>3, HitAt
<1> QED
  BY <1>3, <1>4

\* What a lookup takes is the first of the listing that it would take.
LEMMA FirstTaken ==
  ASSUME NEW d \in Disks, NEW l \in Seq(Files(d)), NEW f \in Names, NEW p, NEW h, FirstHit(l, p, h, f)
  PROVE  /\ Resembles(h, f) /\ p \in 1 .. Len(l) /\ h = l[p] /\ h # NoFile
         /\ \A j \in 1 .. Len(l) : ListName(l[j]) = f => p <= j
<1>1. /\ p \in 1 .. Len(l) /\ h = l[p] /\ CheckFilename(h, f) /\ h \in Files(d)
      /\ \A j \in 1 .. Len(l) : j < p => ~CheckFilename(l[j], f)
  <2>1. /\ p \in 1 .. Len(l) /\ l[p] = h /\ CheckFilename(h, f)
        /\ \A j \in 1 .. Len(l) : j < p => ~CheckFilename(l[j], f)
    BY Zenon DEF FirstHit
  <2>2. l[p] \in Files(d)
    BY <2>1
  <2> QED
    BY <2>1, <2>2
<1>2. Resembles(h, f) /\ h # NoFile
  BY <1>1, NamesAgree, RootIs
<1>3. ASSUME NEW j \in 1 .. Len(l), ListName(l[j]) = f PROVE p <= j
  <2>1. CheckFilename(l[j], f)
    BY <1>3, NamesAgree
  <2>2. ~(j < p)
    BY <1>1, <2>1
  <2>3. j \in Int /\ p \in Int
    BY <1>1
  <2> QED
    BY <2>2, <2>3
<1> QED
  BY <1>1, <1>2, <1>3, Zenon

LEMMA WalkFinds ==
  ASSUME FatInv, Walking, name # NoName, disk' = disk, NEW n \in Nat, LookAt(n), name \in Names,
         at = "dir", NEW e, e = Scanned(disk, clus),
         NEW i, NEW h, FirstHit(e, i, h, name), Open(h)
  PROVE  WalkInv'
<1>1. PICK d \in Disks : d = disk
  BY WalkIs
<1>2. PICK c \in Clusters(d) : c = clus
  BY <1>1, WalkIs
<1>3. Passed(d, n, c) /\ NoHit(Seen(d)[n], name)
  BY <1>1, <1>2 DEF LookAt, WalkAt, Behind
<1>4. e \in Seq(Files(d)) /\ e = Scanned(d, c)
  BY <1>1, <1>2, ScannedIs
<1>5. FirstHit(Scanned(d, c), i, h, name)
  BY <1>4
<1>6. PICK l \in Seq(Files(d)) : /\ l = Listing(d) /\ DOMAIN l = 1 .. Len(l)
                                 /\ \E p : FirstHit(l, p, h, name)
  BY <1>3, <1>5, LookFinds, ListingIs
<1>7. PICK p \in DOMAIN l : /\ Resembles(h, name) /\ h = l[p] /\ h # NoFile
                            /\ \A j \in DOMAIN l : ListName(l[j]) = name => p <= j
  <2>1. PICK p : FirstHit(l, p, h, name)
    BY <1>6
  <2>2. /\ Resembles(h, name) /\ p \in 1 .. Len(l) /\ h = l[p] /\ h # NoFile
        /\ \A j \in 1 .. Len(l) : ListName(l[j]) = name => p <= j
    BY <2>1, FirstTaken, Zenon
  <2>3. p \in DOMAIN l /\ \A j \in DOMAIN l : ListName(l[j]) = name => p <= j
    BY <1>6, <2>2, Zenon
  <2> QED
    BY <2>2, <2>3, Zenon
<1>8. /\ at' = "idle"
      /\ ret' = [of |-> "lookup", name |-> name, file |-> h, trouble |-> trouble']
  BY DEF Open, Return
<1>9. LookupRight'
  <2>1. \A j \in {k \in DOMAIN l : ListName(l[k]) = name} : p <= j
    BY <1>7
  <2>2. Listing(disk)' = l
    BY <1>1, <1>6
  <2> QED
    BY <1>7, <1>8, <2>1, <2>2 DEF LookupRight
<1> QED
  BY <1>8, <1>9 DEF WalkInv, ListSoFar, LookSoFar, ListRight, Walking

\* What a lookup makes of a cluster,
LEMMA LookReadDir ==
  ASSUME FatInv, WalkInv, name # NoName, ReadDir
  PROVE  WalkInv'
<1>1. Walking /\ at = "dir" /\ disk' = disk
  BY DEF ReadDir, Walking
<1>2. PICK d \in Disks : d = disk
  BY <1>1, WalkIs
<1>3. PICK c \in Clusters(d) : c = clus
  BY <1>1, <1>2, WalkIs
<1>4. PICK n \in Nat : LookAt(n) /\ name \in Names
  BY <1>1 DEF WalkInv, LookSoFar
<1>5. Passed(d, n, c) /\ NoHit(Seen(d)[n], name)
  BY <1>1, <1>2, <1>3, <1>4 DEF LookAt, WalkAt, Behind
<1>6. ret.of = "none"
  BY <1>1 DEF FatInv, Call
<1>7. PICK es \in Seq(Files(d)) : es = Scanned(disk, clus) /\ es = Scanned(d, c)
  BY <1>2, <1>3, ScannedIs
<1> DEFINE hits == {i \in DOMAIN es : name # NoName /\ CheckFilename(es[i], name)}
           hit  == CHOOSE i \in hits : \A j \in hits : i <= j
<1>8. CASE WalkOver(list, TRUE)
  BY <1>1, <1>8, LookEnds
<1>9. CASE hits # {} /\ Open(es[hit])
  <2>1. hits \in SUBSET Nat
    OBVIOUS
  <2>2. \E i \in hits : \A j \in hits : i <= j
    <3> HIDE DEF hits
    <3> QED
      BY <1>9, <2>1, LeastExists
  <2>3. hit \in hits /\ \A j \in hits : hit <= j
    <3> HIDE DEF hits
    <3> QED
      BY <2>2
  <2> HIDE DEF hit
  <2>4. PICK i \in Nat : i = hit /\ i \in hits /\ \A j \in hits : i <= j
    BY <2>1, <2>3
  <2>5. FirstHit(es, i, es[i], name)
    BY <2>4 DEF FirstHit
  <2>6. Open(es[i])
    BY <1>9, <2>4
  <2> HIDE DEF hits
  <2>7. PICK h : h = es[i]
    OBVIOUS
  <2> QED
    BY <1>1, <1>4, <1>7, <2>5, <2>6, <2>7, WalkFinds
<1>10. ASSUME hits = {}
       PROVE  /\ NoHit(es, name) /\ NoHit(Seen(d)[n + 1], name)
              /\ Ends(d, c) => \A i \in DOMAIN Listing(d) : ListName(Listing(d)[i]) # name
  <2>1. NoHit(es, name)
    BY <1>10 DEF NoHit
  <2> HIDE DEF hits
  <2>2. Seen(d)[n] \in Seq(Files(d)) /\ Seen(d)[n + 1] = Seen(d)[n] \o es
    <3>1. Seen(d)[n + 1] = Seen(d)[n] \o Scanned(d, c)
      BY <1>5, PassedNext
    <3>2. Seen(d)[n] \in Seq(Files(d))
      BY SeenIs DEF IsSeen
    <3> QED
      BY <1>7, <3>1, <3>2
  <2>3. NoHit(Seen(d)[n + 1], name)
    BY <1>5, <2>1, <2>2, NoHitConcat
  <2>4. ASSUME Ends(d, c) PROVE \A i \in DOMAIN Listing(d) : ListName(Listing(d)[i]) # name
    <3>1. PICK a \in Seq(Files(d)), r \in Seq(Files(d)) :
            /\ Listing(d) = (a \o es) \o r
            /\ Final(d, c) => r = <<>>
            /\ NoHit(a, name)
      <4>1. PICK a \in Seq(Files(d)), r \in Seq(Files(d)) :
              /\ Listing(d) = (a \o Scanned(d, c)) \o r
              /\ Final(d, c) => r = <<>>
              /\ NoHit(a, name)
        BY <1>5, LookCore
      <4> QED
        BY <1>7, <4>1
    <3>2. r = <<>>
      BY <2>4, <3>1 DEF Final
    <3>3. PICK l \in Seq(Files(d)) : l = a \o es
      BY ConcatProperties
    <3>4. Listing(d) = l
      BY <3>1, <3>2, <3>3, ConcatEmptySeq
    <3>5. NoHit(l, name)
      BY <2>1, <3>1, <3>3, NoHitConcat
    <3>6. DOMAIN l = 1 .. Len(l) /\ \A i \in 1 .. Len(l) : ListName(l[i]) # name
      BY <1>4, <3>5, NoneSuch
    <3> QED
      BY <3>4, <3>6
  <2> QED
    BY <2>1, <2>3, <2>4
<1>11. ASSUME hits = {}, Ends(disk, clus), NEW l, WalkOver(l, trouble) PROVE WalkInv'
  <2> HIDE DEF hits
  <2>1. \A i \in DOMAIN Listing(disk) : ListName(Listing(disk)[i]) # name
    BY <1>2, <1>3, <1>10, <1>11
  <2> QED
    BY <1>1, <1>11, <2>1, LookEnds
<1>12. CASE /\ hits = {} /\ ~Ends(disk, clus)
            /\ at' = "fatdir" /\ UNCHANGED <<open, name, clus, sec, data, ret>>
  <2> HIDE DEF hits
  <2>1. LookAt(n)'
    BY <1>1, <1>2, <1>3, <1>5, <1>10, <1>12 DEF LookAt, WalkAt, Behind
  <2> QED
    BY <1>4, <1>6, <1>12, <2>1 DEF WalkInv, ListSoFar, LookSoFar, ListRight, LookupRight
<1>13. \/ WalkOver(list, TRUE)
       \/ hits # {} /\ Open(es[hit])
       \/ hits = {} /\ Ends(disk, clus) /\ \E l : WalkOver(l, trouble)
       \/ /\ hits = {} /\ ~Ends(disk, clus)
          /\ at' = "fatdir" /\ UNCHANGED <<open, name, clus, sec, data, ret>>
  <2> DEFINE more == SubSeq(list \o es, 1, Lesser(Len(list \o es), MaxEntries))
  <2>1. \/ WalkOver(list, TRUE)
        \/ hits # {} /\ Open(es[hit])
        \/ hits = {} /\ Ends(disk, clus) /\ WalkOver(more, trouble)
        \/ /\ hits = {} /\ ~Ends(disk, clus)
           /\ at' = "fatdir" /\ UNCHANGED <<open, name, clus, sec, data, ret>>
    BY <1>7, Zenon DEF ReadDir
  <2> QED
    BY <2>1
<1> HIDE DEF hits, hit
<1> QED
  BY <1>8, <1>9, <1>11, <1>12, <1>13

\* and a listing.
LEMMA ListReadDir ==
  ASSUME FatInv, WalkInv, name = NoName, ReadDir
  PROVE  WalkInv'
<1>1. Walking /\ at = "dir" /\ disk' = disk
  BY DEF ReadDir, Walking
<1>2. PICK d \in Disks : d = disk
  BY <1>1, WalkIs
<1>3. PICK c \in Clusters(d) : c = clus /\ d = disk
  BY <1>1, <1>2, WalkIs
<1>4. PICK l \in Seq(Files(d)) : l = list
  BY <1>1, <1>2, WalkIs
<1>5. PICK es \in Seq(Files(d)) : es = Scanned(disk, clus) /\ es = Scanned(d, c)
  BY <1>2, <1>3, ScannedIs
<1>6. PICK m \in Nat : m = MaxEntries
  BY Sizes DEF MaxEntries
<1>7. PICK both \in Seq(Files(d)) : both = l \o es
  BY ConcatProperties
<1>8. PICK k \in Nat : k = Lesser(Len(both), m) /\ k <= m /\ k <= Len(both)
                       /\ (k # m => k = Len(both))
  BY LenProperties DEF Lesser
<1>9. PICK more : more = SubSeq(both, 1, k)
  OBVIOUS
<1>10. more \in Seq(Files(d)) /\ Len(more) = k /\ (k = Len(both) => more = both)
       /\ \A i \in 1 .. k : more[i] = both[i]
  BY <1>6, <1>8, <1>9, CutIs
<1>11. ret.of = "none"
  BY <1>1 DEF FatInv, Call
<1>12. \/ WalkOver(list, TRUE)
       \/ Ends(disk, clus) /\ Len(more) # m /\ WalkOver(more, trouble)
       \/ /\ ~Ends(disk, clus) \/ Len(more) = m
          /\ at' = "fatdir" /\ list' = more /\ UNCHANGED <<name, clus, ret>>
  <2> DEFINE es1   == Scanned(disk, clus)
             hits1 == {i \in DOMAIN es1 : name # NoName /\ CheckFilename(es1[i], name)}
             more1 == SubSeq(list \o es1, 1, Lesser(Len(list \o es1), MaxEntries))
             full1 == name = NoName /\ Len(more1) = MaxEntries
  <2>1. more1 = more
    BY <1>4, <1>5, <1>6, <1>7, <1>8, <1>9
  <2>2. hits1 = {}
    OBVIOUS
  <2>3. \/ WalkOver(list, TRUE)
        \/ hits1 # {}
        \/ Ends(disk, clus) /\ ~full1 /\ WalkOver(more1, trouble)
        \/ /\ ~Ends(disk, clus) \/ full1
           /\ at' = "fatdir" /\ list' = (IF name = NoName THEN more1 ELSE list)
           /\ UNCHANGED <<open, name, clus, sec, data, ret>>
    BY Zenon DEF ReadDir
  <2> HIDE DEF hits1, more1
  <2> QED
    BY <1>6, <2>1, <2>2, <2>3
<1>13. CASE ListFull
  <2>1. IsPrefix(l, Listing(d)) /\ Len(l) = m
    BY <1>2, <1>4, <1>6, <1>13 DEF ListFull
  <2>2. more = l
    <3>1. PICK y : y = Len(es)
      OBVIOUS
    <3>2. /\ y \in Nat /\ Len(both) = m + y
          /\ \A i \in 1 .. (m + y) : both[i] = IF i <= m THEN l[i] ELSE es[i - m]
      <4>1. m = Len(l) /\ l \in Seq(Files(d)) /\ es \in Seq(Files(d)) /\ both = l \o es
        BY <1>7, <2>1
      <4> QED
        BY <3>1, <4>1, ConcatLen
    <3>3. k = m
      BY <1>8, <3>2 DEF Lesser
    <3>4. \A i \in 1 .. m : i \in 1 .. (m + y) /\ i <= m
      BY <3>2
    <3>5. \A i \in 1 .. m : more[i] = l[i]
      BY <1>10, <3>2, <3>3, <3>4
    <3> QED
      BY <1>10, <2>1, <3>3, <3>5, SeqEqual
  <2>3. Len(l) = Lesser(Len(Listing(d)), MaxEntries)
    BY <1>6, <2>1, FullIs
  <2>4. ASSUME NEW t, WalkOver(l, t) PROVE WalkInv'
    BY <1>1, <1>2, <2>1, <2>3, <2>4, ListEnds
  <2>5. CASE at' = "fatdir" /\ list' = more /\ UNCHANGED <<name, clus, ret>>
    <3>1. ListFull'
      BY <1>1, <1>2, <1>6, <2>1, <2>2, <2>5 DEF ListFull
    <3> QED
      BY <1>11, <2>5, <3>1 DEF WalkInv, ListSoFar, LookSoFar, ListRight, LookupRight
  <2> QED
    BY <1>4, <1>12, <2>2, <2>4, <2>5
<1>14. ASSUME NEW n \in Nat, ListAt(n) PROVE WalkInv'
  <2>1. Passed(d, n, c) /\ l = Seen(d)[n] /\ Len(l) < m
    BY <1>1, <1>2, <1>3, <1>4, <1>6, <1>14 DEF ListAt, WalkAt, Behind
  <2>2. PICK r \in Seq(Files(d)) : Listing(d) = both \o r /\ (Final(d, c) => r = <<>>)
    <3>1. PICK a : a = Seen(d)[n] /\ a = l
      BY <2>1
    <3>2. Len(a) < MaxEntries
      BY <1>6, <2>1, <3>1
    <3>3. PICK r \in Seq(Files(d)) : /\ Listing(d) = (a \o Scanned(d, c)) \o r
                                     /\ Final(d, c) => r = <<>>
      BY <2>1, <3>1, <3>2, ListCore
    <3>4. a \o Scanned(d, c) = both
      BY <1>5, <1>7, <3>1
    <3> QED
      BY <3>3, <3>4
  <2>3. IsPrefix(l, Listing(d))
    <3>1. PICK all : all = both \o r /\ Listing(d) = all
      BY <2>2
    <3>2. Extends(l, both)
      BY <1>7, ConcatExtends
    <3>3. Extends(both, all)
      BY <3>1, ConcatExtends
    <3>4. Extends(l, all)
      BY <3>2, <3>3, LenProperties, ExtendsFurther
    <3> QED
      BY <3>1, <3>4, PrefixIs
  <2>4. IsPrefix(more, Listing(d))
    <3>1. PICK all : all = both \o r /\ Listing(d) = all
      BY <2>2
    <3>2. Extends(both, all)
      BY <3>1, ConcatExtends
    <3>3. IsPrefix(more, all)
      BY <1>8, <1>9, <3>2, CutPrefix
    <3> QED
      BY <3>1, <3>3
  <2>5. CASE WalkOver(list, TRUE)
    BY <1>1, <1>2, <1>4, <2>3, <2>5, ListEnds
  <2>6. CASE Ends(disk, clus) /\ Len(more) # m /\ WalkOver(more, trouble)
    <3>1. more = both /\ Len(both) = Lesser(Len(both), m)
      BY <1>8, <1>10, <2>6
    <3>2. Listing(d) = both
      <4>1. r = <<>>
        BY <1>3, <2>2, <2>6 DEF Final
      <4> QED
        BY <2>2, <4>1, ConcatEmptySeq
    <3>3. Len(more) = Lesser(Len(Listing(d)), MaxEntries)
      BY <1>6, <3>1, <3>2
    <3> QED
      BY <1>1, <1>2, <2>4, <2>6, <3>3, ListEnds
  <2>7. CASE /\ ~Ends(disk, clus) \/ Len(more) = m
             /\ at' = "fatdir" /\ list' = more /\ UNCHANGED <<name, clus, ret>>
    <3>1. CASE Len(more) = m
      <4>1. ListFull'
        BY <1>1, <1>2, <1>6, <2>4, <2>7, <3>1 DEF ListFull
      <4> QED
        BY <1>11, <2>7, <4>1 DEF WalkInv, ListSoFar, LookSoFar, ListRight, LookupRight
    <3>2. CASE Len(more) # m
      <4>1. ~Ends(d, c) /\ Len(more) < m /\ more = both
        BY <1>3, <1>8, <1>10, <2>7, <3>2
      <4>2. Seen(d)[n + 1] = Seen(d)[n] \o Scanned(d, c)
        BY <2>1, PassedNext
      <4>3. more = Seen(d)[n + 1]
        BY <1>5, <1>7, <2>1, <4>1, <4>2
      <4>4. ListAt(n)'
        BY <1>1, <1>2, <1>3, <1>6, <2>1, <2>7, <4>1, <4>3 DEF ListAt, WalkAt, Behind
      <4> QED
        BY <1>11, <2>7, <4>4 DEF WalkInv, ListSoFar, LookSoFar, ListRight, LookupRight
    <3> QED
      BY <3>1, <3>2
  <2> QED
    BY <1>12, <2>5, <2>6, <2>7
<1> QED
  BY <1>1, <1>13, <1>14 DEF WalkInv, ListSoFar

\* The other steps neither walk nor return from a walk.
LEMMA OtherSteps ==
  ASSUME FatInv,
         \/ ReadMbr \/ ReadBpb \/ Unmount \/ Close
         \/ ReadShort \/ ReadLong \/ NextFileCluster
         \/ \E n \in Lens : StartRead(n)
         \/ \E o \in Seeks : Seek(o)
  PROVE  WalkInv'
<1>1. ASSUME NEW r, Return(r), r.of \notin {"listing", "lookup"} PROVE WalkInv'
  BY <1>1, Elsewhere DEF Return, Walking
<1>2. CASE ReadMbr
  <2>1. [of |-> "failed"].of \notin {"listing", "lookup"}
    OBVIOUS
  <2>2. \/ Return([of |-> "failed"])
        \/ at' = "bpb" /\ ret' = [of |-> "none"]
    BY <1>2 DEF ReadMbr
  <2> QED
    BY <1>1, <2>1, <2>2, Elsewhere DEF Walking
<1>3. CASE ReadBpb \/ Unmount
  <2>1. PICK r \in {[of |-> "mounted"], [of |-> "failed"], [of |-> "unmounted"]} : Return(r)
    BY <1>3 DEF ReadBpb, Unmount
  <2> QED
    BY <1>1, <2>1
<1>4. CASE Close \/ \E o \in Seeks : Seek(o)
  <2>1. at = "idle" /\ at' = at /\ ret' = [of |-> "none"]
    BY <1>4 DEF Close, Seek
  <2> QED
    BY <2>1, Elsewhere DEF Walking
<1>5. CASE \E n \in Lens : StartRead(n)
  <2>1. at' \in {"short", "long"} /\ ret' = [of |-> "none"]
    BY <1>5 DEF StartRead
  <2> QED
    BY <2>1, Elsewhere DEF Walking
<1>6. CASE ReadShort \/ ReadLong \/ NextFileCluster
  <2>1. at \in {"short", "long", "fatlong"} /\ ret.of = "none"
    BY <1>6 DEF ReadShort, ReadLong, NextFileCluster, FatInv, Call
  <2>2. \/ ReadFails
        \/ \E b : Deliver(b)
        \/ at' \in {"short", "long", "fatlong"} /\ ret' = ret
    BY <1>6, <2>1 DEF ReadShort, ReadLong, NextFileCluster
  <2>3. CASE ReadFails
    <3>1. PICK r : r = [of |-> "failed"] /\ Return(r)
      BY <2>3 DEF ReadFails
    <3> QED
      BY <1>1, <3>1
  <2>4. ASSUME NEW b, Deliver(b) PROVE WalkInv'
    <3>1. PICK r : r.of = "read" /\ Return(r)
      BY <2>4 DEF Deliver
    <3> QED
      BY <1>1, <3>1
  <2>5. CASE at' \in {"short", "long", "fatlong"} /\ ret' = ret
    BY <2>1, <2>5, Elsewhere DEF Walking
  <2> QED
    BY <2>2, <2>3, <2>4, <2>5
<1> QED
  BY <1>2, <1>3, <1>4, <1>5, <1>6

LEMMA WalkStep ==
  ASSUME FatInv, WalkInv, [Next]_vars
  PROVE  WalkInv'
<1>1. CASE ReadDir
  BY <1>1, ListReadDir, LookReadDir
<1>2. CASE NextDirCluster
  BY <1>2, WalkNextDir
<1>3. ASSUME NEW f \in Names \cup {NoName}, StartWalk(f) PROVE WalkInv'
  BY <1>3, WalkStarts
<1>4. CASE \/ ReadMbr \/ ReadBpb \/ Unmount \/ Close
           \/ ReadShort \/ ReadLong \/ NextFileCluster
           \/ \E n \in Lens : StartRead(n)
           \/ \E o \in Seeks : Seek(o)
  BY <1>4, OtherSteps
<1>5. CASE UNCHANGED vars
  <2>1. UNCHANGED <<at, disk, name, list, clus, ret>>
    BY <1>5 DEF vars, walk
  <2> QED
    BY <2>1
       DEF WalkInv, ListSoFar, ListFull, ListAt, LookSoFar, LookAt, WalkAt, Behind, Walking,
           ListRight, LookupRight
<1> QED
  BY <1>1, <1>2, <1>3, <1>4, <1>5 DEF Next, Goes

LEMMA WalkInductive == Spec => []WalkInv
<1>1. Init => WalkInv
  BY DEF Init, WalkInv, ListSoFar, LookSoFar, ListRight, LookupRight, Walking
<1>2. FatInv /\ WalkInv /\ [Next]_vars => WalkInv'
  BY WalkStep
<1> QED
  BY <1>1, <1>2, FatInductive, PTL DEF Spec

\* The listing has the files of the directory in their order, as many as
\* there is room for, or the first so many when an access fails, however
\* the chain of its clusters ends or does not end.
THEOREM Fat32ListRight == Spec => []ListRight
<1>1. WalkInv => ListRight
  BY DEF WalkInv
<1> QED
  BY <1>1, WalkInductive, PTL

\* An open finds the file of that name if the directory lists it, unless a
\* file whose name is its beginning is listed before, and fails for no other
\* reason than that it is not listed or that an access fails.
THEOREM Fat32LookupRight == Spec => []LookupRight
<1>1. WalkInv => LookupRight
  BY DEF WalkInv
<1> QED
  BY <1>1, WalkInductive, PTL
=============================================================================
