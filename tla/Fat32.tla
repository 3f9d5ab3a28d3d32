-------------------------------- MODULE Fat32 --------------------------------
(***************************************************************************)
(* The FAT32 file system of src/src/fs/fat32.c and mbr.c: mounting a card, *)
(* looking a name up and listing the root directory along its chain of     *)
(* clusters, and reading a file.  A call is a system call with IRQs masked *)
(* and runs alone, but each access to the device opens it, seeks, reads    *)
(* and closes it again, and may fail: it is one action.                    *)
(*                                                                         *)
(* A byte of the data area is known by its place: cluster, sector, offset. *)
(* Names are in upper case, as check_filename sees them; of an entry, the  *)
(* stem is the name up to a blank and ext has its three characters, blanks *)
(* included.  kmalloc succeeds, and no entry of the table is 0 or 1.  A    *)
(* program unmounts only when it has closed its file (assumed: the code    *)
(* does not check it).                                                     *)
(***************************************************************************)
EXTENDS Integers, Sequences, SequencesExt, FiniteSets

CONSTANTS
  BLK_SIZE,     \* bytes of a sector, seclen
  cluslen,      \* sectors of a cluster
  Entries,      \* entries_per_cluster
  MaxClusters,  \* 8: the clusters readdir has room for
  Disks,        \* the cards: [fat, dir, size, first], see DiskAssumption
  NoDisk,       \* no card
  Char,         \* the characters of names
  Names,        \* the names programs look up, sequences of them
  Lens,         \* the lengths they read
  Seeks,        \* the offsets they give seek
  W,            \* 2^32
  NBMAX_FD,
  MaxFails      \* a bound on the accesses that fail

Root == 2             \* the cluster at fat32->root
EOC == 0              \* any entry >= FAT32_CLUSTER_BAD after the mask
Unfilled == <<>>      \* a byte that kmalloc left in a buffer

NoName == <<>>        \* a walk that looks for no name: a listing

\* Entries that are no file: a volume, directory or deleted one, and the end.
Skipped == [stem |-> <<>>, ext |-> <<"skipped">>]
EndMark == [stem |-> <<>>, ext |-> <<"end">>]
NoFile == [stem |-> <<>>, ext |-> <<"none">>]

\* A card has its table, the directory entries of each cluster (files are
\* [stem, ext]), and each file's size and first cluster.
Clusters(d) == DOMAIN d.fat
Files(d) == DOMAIN d.size

ASSUME DiskAssumption ==
  /\ {BLK_SIZE, cluslen, Entries, MaxClusters, W, NBMAX_FD} \subseteq Nat \ {0}
  /\ MaxFails \in Nat /\ Lens \subseteq Nat /\ Seeks \subseteq 0 .. (W - 1)
  /\ NoDisk \notin Disks
  /\ \A f \in Names : f \in Seq(Char) /\ f # NoName
  /\ \A d \in Disks :
       /\ IsFiniteSet(Clusters(d)) /\ Root \in Clusters(d) /\ EOC \notin Clusters(d)
       /\ d.fat \in [Clusters(d) -> Clusters(d) \cup {EOC}]
       /\ d.dir \in [Clusters(d) -> [1 .. Entries -> Files(d) \cup {Skipped, EndMark}]]
       /\ \A f \in Files(d) : f.stem \in Seq(Char) /\ f.ext \in [1 .. 3 -> Char]
       /\ NoFile \notin Files(d)
       /\ d.size \in [Files(d) -> 0 .. (W - 1)]
       /\ d.first \in [Files(d) -> Clusters(d)]

VARIABLES
  at,       \* the access that comes next, or "idle"
  mnt,      \* the mount: "none", "ok", or "dangling", to a freed s_fat32
  disk,     \* the card that is mounted
  fds,      \* descriptors of the process that are in use
  file,     \* the file it has open, or NoFile
  offset,   \* and its offset
  name,     \* what the lookup in progress looks for, or NoName
  list,     \* what readdir has collected
  clus,     \* curclus of a walk along a chain
  sec,      \* the sector of that cluster
  left,     \* nbsectors, or nbclusters, still to go through
  len,      \* how much is to be read, as far as the file goes
  buff,     \* what has been read, from the start of the file
  trouble,  \* an access of the call in progress has failed
  ret,      \* what the last call returned
  fails     \* the accesses that have failed, up to MaxFails

walk == <<name, list, clus, sec>>
data == <<left, len, buff>>
open == <<fds, file, offset>>
vars == <<at, mnt, disk, open, walk, data, trouble, ret, fails>>

Lesser(a, b) == IF a < b THEN a ELSE b

\* open, seek, read and close of the device: it takes a descriptor for the
\* time being, and the device may fail.
Access(ok) ==
  /\ ok => fds < NBMAX_FD
  /\ fails' = IF ok \/ fds = NBMAX_FD THEN fails ELSE fails + 1
  /\ fails' <= MaxFails
  /\ trouble' = (trouble \/ ~ok)

\* The call is over.
Return(r) ==
  /\ at' = "idle" /\ ret' = r
  /\ name' = NoName /\ list' = <<>> /\ clus' = Root /\ sec' = 0
  /\ left' = 0 /\ len' = 0 /\ buff' = <<>>

-----------------------------------------------------------------------------
\* create_fat32 opens the device and reads the boot record.  The returns
\* before the partitions are known forget to close it.
ReadMbr ==
  /\ at = "idle" /\ mnt = "none"
  /\ \/ \E sig \in BOOLEAN :
          /\ Access(TRUE)
          /\ fds' = fds + 1
          /\ IF sig THEN at' = "bpb" /\ ret' = [of |-> "none"] /\ UNCHANGED <<walk, data>>
             ELSE Return([of |-> "failed"])
     \/ /\ Access(FALSE)
        /\ fds' \in {fds, Lesser(fds + 1, NBMAX_FD)}
        /\ Return([of |-> "failed"])
  /\ UNCHANGED <<mnt, disk, file, offset>>

\* The first partition of a FAT32 type, if there is one, and its parameter
\* block.  When that cannot be read, the s_fat32 is freed and returned.
ReadBpb ==
  /\ at = "bpb"
  /\ fds' = fds - 1
  /\ \/ /\ fails < MaxFails /\ fails' = fails + 1
        /\ mnt' = "dangling" /\ UNCHANGED disk
        /\ Return([of |-> "mounted"])
     \/ /\ disk' \in Disks /\ mnt' = "ok" /\ UNCHANGED fails
        /\ Return([of |-> "mounted"])
     \/ /\ UNCHANGED <<fails, disk, mnt>>
        /\ Return([of |-> "failed"])
  /\ trouble' = FALSE
  /\ UNCHANGED <<file, offset>>

\* remove_fat32.  The program has closed its file.
Unmount ==
  /\ at = "idle" /\ mnt = "ok" /\ file = NoFile
  /\ mnt' = "none" /\ disk' = NoDisk
  /\ Return([of |-> "unmounted"])
  /\ UNCHANGED <<open, trouble, fails>>

-----------------------------------------------------------------------------
\* get_node_fat32 for name f, or readdir_fat32, starts at the root cluster.
StartWalk(f) ==
  /\ at = "idle" /\ mnt = "ok" /\ file = NoFile
  /\ at' = "dir" /\ name' = f /\ clus' = Root
  /\ trouble' = FALSE /\ ret' = [of |-> "none"]
  /\ UNCHANGED <<mnt, disk, open, list, sec, data, fails>>

\* Variant of CheckFilename: as far as the name that is looked for goes.
CheckFilenameShort(e, f) ==
  /\ IsPrefix(SubSeq(f, 1, Len(f) - 4), e.stem) /\ Len(f) >= 3
  /\ \A j \in 1 .. 3 : e.ext[j] = f[Len(f) - 3 + j]

\* As far as the name in the directory goes the two must agree, and the last
\* three characters must be the extension with its blanks.  Of a shorter name
\* the byte in front of it is compared: that is the highest one of the length
\* in kmalloc's header, 0, which no extension has.
CheckFilename(e, f) ==
  /\ IsPrefix(e.stem, f) /\ Len(f) >= 3
  /\ \A j \in 1 .. 3 : e.ext[j] = f[Len(f) - 3 + j]

Listed(s) ==
  LET upto[n \in 0 .. Len(s)] ==
        IF n = 0 THEN <<>>
        ELSE IF s[n] \in {Skipped, EndMark} THEN upto[n - 1] ELSE Append(upto[n - 1], s[n])
  IN  upto[Len(s)]

\* The entries of cluster c of d up to the end mark, and whether it has one.
Ends(d, c) == \E i \in 1 .. Entries : d.dir[c][i] = EndMark
Scanned(d, c) ==
  LET stop == CHOOSE n \in 0 .. Entries :
                /\ \A i \in 1 .. n : d.dir[c][i] # EndMark
                /\ n < Entries => d.dir[c][n + 1] = EndMark
  IN  Listed(SubSeq(d.dir[c], 1, stop))

\* A walk has come to its end without what it looks for.
WalkOver(l, t) ==
  Return(IF name = NoName THEN [of |-> "listing", list |-> l, trouble |-> t]
         ELSE [of |-> "lookup", name |-> name, file |-> NoFile, trouble |-> t])

\* getnode and open, when the file is found: no writing, and a free descriptor.
Open(f) ==
  /\ Return([of |-> "lookup", name |-> name, file |-> f, trouble |-> trouble'])
  /\ \/ /\ fds < NBMAX_FD
        /\ fds' = fds + 1 /\ file' = f
        /\ offset' \in {0, disk.size[f]}
     \/ UNCHANGED open

\* Variant of MaxEntries: one entry more.
MaxEntriesOver == MaxClusters * Entries + 1

MaxEntries == MaxClusters * Entries

\* One cluster of the directory is read and its entries gone through.
\* readdir stops to look at them when it is full, but goes on to the end of
\* the chain.
ReadDir ==
  /\ at = "dir"
  /\ UNCHANGED <<mnt, disk>>
  /\ \/ Access(FALSE) /\ WalkOver(list, TRUE) /\ UNCHANGED open
     \/ /\ Access(TRUE)
        /\ LET es   == Scanned(disk, clus)
               hits == {i \in DOMAIN es : name # NoName /\ CheckFilename(es[i], name)}
               more == SubSeq(list \o es, 1, Lesser(Len(list \o es), MaxEntries))
               full == name = NoName /\ Len(more) = MaxEntries
           IN  \/ /\ hits # {}
                  /\ Open(es[CHOOSE i \in hits : \A j \in hits : i <= j])
               \/ /\ hits = {} /\ Ends(disk, clus) /\ ~full
                  /\ WalkOver(more, trouble) /\ UNCHANGED open
               \/ /\ hits = {} /\ (~Ends(disk, clus) \/ full)
                  /\ at' = "fatdir" /\ list' = IF name = NoName THEN more ELSE list
                  /\ UNCHANGED <<open, name, clus, sec, data, ret>>

\* Variant of GetEntry: the end of a chain leads to the root.
GetEntryWraps(ok) == IF ~ok THEN EOC ELSE IF disk.fat[clus] = EOC THEN Root ELSE disk.fat[clus]

\* get_entry, and the test of its result, which its failure fails as well.
GetEntry(ok) == IF ok THEN disk.fat[clus] ELSE EOC

NextDirCluster ==
  /\ at = "fatdir"
  /\ \E ok \in BOOLEAN :
       /\ Access(ok)
       /\ IF GetEntry(ok) = EOC THEN WalkOver(list, trouble')
          ELSE /\ at' = "dir" /\ clus' = GetEntry(ok)
               /\ UNCHANGED <<name, list, sec, data, ret>>
  /\ UNCHANGED <<mnt, disk, open>>

-----------------------------------------------------------------------------
Size == disk.size[file]

\* Variant of NbSectors: no sector for what is left over.
NbSectorsDown(l) == LET n == l \div BLK_SIZE IN IF n = 0 THEN 1 ELSE n

NbSectors(l) ==
  LET n == l \div BLK_SIZE IN IF n % BLK_SIZE # 0 \/ n = 0 THEN n + 1 ELSE n

\* read_fat32file up to the choice between the two ways to read.  How much
\* to read follows from the length, where to read from is always the start.
StartRead(n) ==
  LET l  == Lesser(n, (Size - offset) % W)
      nb == NbSectors(l)
  IN  /\ at = "idle" /\ mnt = "ok" /\ file # NoFile
      /\ n > 0
      /\ len' = l /\ clus' = disk.first[file]
      /\ IF nb <= cluslen THEN at' = "short" /\ left' = nb
         ELSE at' = "long" /\ left' = (nb + cluslen - 1) \div cluslen
      /\ trouble' = FALSE /\ ret' = [of |-> "none"]
      /\ UNCHANGED <<mnt, disk, open, name, list, sec, buff, fails>>

\* What a sector adds to the buffer, which is as long as the file.
Filled ==
  buff \o [k \in 1 .. Lesser(BLK_SIZE, Size - Len(buff)) |-> <<clus, sec, k - 1>>]

\* The end of read_fat32file: the part at the offset, read or not.
Deliver(b) ==
  LET n     == IF offset < Size THEN Lesser(len, Size - offset) ELSE 0
      bytes == [i \in 1 .. n |-> IF offset + i <= Len(b) THEN b[offset + i] ELSE Unfilled]
  IN  /\ Return([of |-> "read", from |-> offset, len |-> len, bytes |-> bytes,
                 trouble |-> trouble'])
      /\ offset' = offset + n
      /\ UNCHANGED <<fds, file>>

ReadFails == Access(FALSE) /\ Return([of |-> "failed"]) /\ UNCHANGED open

\* read_shortfile.
ReadShort ==
  /\ at = "short"
  /\ \/ ReadFails
     \/ /\ Access(TRUE)
        /\ IF left = 1 THEN Deliver(Filled)
           ELSE /\ buff' = Filled /\ sec' = sec + 1 /\ left' = left - 1
                /\ UNCHANGED <<at, open, name, list, clus, len, ret>>
  /\ UNCHANGED <<mnt, disk>>

\* read_longfile, a sector.
ReadLong ==
  /\ at = "long"
  /\ \/ ReadFails
     \/ /\ Access(TRUE)
        /\ IF Len(Filled) = Size THEN Deliver(Filled)
           ELSE /\ buff' = Filled
                /\ IF sec + 1 < cluslen THEN sec' = sec + 1 /\ UNCHANGED at
                   ELSE at' = "fatlong" /\ UNCHANGED sec
                /\ UNCHANGED <<open, name, list, clus, left, len, ret>>
  /\ UNCHANGED <<mnt, disk>>

\* Variant of NextFileCluster: the sector is not set to the first.
NextFileClusterLate ==
  /\ at = "fatlong"
  /\ \E ok \in BOOLEAN :
       /\ Access(ok)
       /\ IF GetEntry(ok) = EOC \/ left = 1 THEN Deliver(buff)
          ELSE /\ at' = "long" /\ clus' = GetEntry(ok) /\ left' = left - 1
               /\ UNCHANGED <<sec, open, name, list, len, buff, ret>>
  /\ UNCHANGED <<mnt, disk>>

\* read_longfile, the way to the next cluster.  When there is none, or the
\* table cannot be read, what has been read is all there is.
NextFileCluster ==
  /\ at = "fatlong"
  /\ \E ok \in BOOLEAN :
       /\ Access(ok)
       /\ IF GetEntry(ok) = EOC \/ left = 1 THEN Deliver(buff)
          ELSE /\ at' = "long" /\ clus' = GetEntry(ok) /\ sec' = 0 /\ left' = left - 1
               /\ UNCHANGED <<open, name, list, len, buff, ret>>
  /\ UNCHANGED <<mnt, disk>>

\* seek: SEEK_SET, SEEK_CUR or SEEK_END.
Seek(o) ==
  /\ at = "idle" /\ mnt = "ok" /\ file # NoFile
  /\ \E base \in {0, offset, Size - 1} : offset' = (base + o) % W
  /\ ret' = [of |-> "none"]
  /\ UNCHANGED <<at, mnt, disk, fds, file, walk, data, trouble, fails>>

\* close.
Close ==
  /\ at = "idle" /\ file # NoFile
  /\ fds' = fds - 1 /\ file' = NoFile /\ offset' = 0
  /\ ret' = [of |-> "none"]
  /\ UNCHANGED <<at, mnt, disk, walk, data, trouble, fails>>

-----------------------------------------------------------------------------
Init ==
  /\ at = "idle" /\ mnt = "none" /\ disk = NoDisk
  /\ fds = 0 /\ file = NoFile /\ offset = 0
  /\ name = NoName /\ list = <<>> /\ clus = Root /\ sec = 0
  /\ left = 0 /\ len = 0 /\ buff = <<>>
  /\ trouble = FALSE /\ ret = [of |-> "none"] /\ fails = 0

Goes == ReadBpb \/ ReadDir \/ NextDirCluster \/ ReadShort \/ ReadLong \/ NextFileCluster

Next ==
  \/ Goes
  \/ ReadMbr \/ Unmount \/ Close
  \/ \E f \in Names \cup {NoName} : StartWalk(f)
  \/ \E n \in Lens : StartRead(n)
  \/ \E o \in Seeks : Seek(o)

Spec == Init /\ [][Next]_vars

\* The CPU goes on with a call it has begun: IRQs are masked.
FairSpec == Spec /\ WF_vars(Goes)

(***************************************************************************)
(*                             Properties                                  *)
(***************************************************************************)

\* The chain of clusters of d from c, and what its directory lists.
Chain(d, c) ==
  LET go[n \in Nat] ==
        IF n = 0 THEN c ELSE LET b == go[n - 1] IN IF b = EOC THEN EOC ELSE d.fat[b]
  IN  go
Endless(d) == \A n \in 0 .. Cardinality(Clusters(d)) : Chain(d, Root)[n] # EOC

\* So many clusters along a loop fill a listing, if anything does.
Rounds(d) == MaxClusters * Entries * Cardinality(Clusters(d))
Listing(d) ==
  LET chain == Chain(d, Root)
      upto[n \in 0 .. Rounds(d)] ==
        IF chain[n] = EOC THEN <<>>
        ELSE Scanned(d, chain[n]) \o
             (IF Ends(d, chain[n]) \/ n = Rounds(d) THEN <<>> ELSE upto[n + 1])
  IN  upto[0]

\* The place of byte p of file f.
Place(f, p) ==
  LET s == p \div BLK_SIZE
  IN  <<Chain(disk, disk.first[f])[s \div cluslen], s % cluslen, p % BLK_SIZE>>

TypeOK ==
  /\ at \in {"idle", "bpb", "dir", "fatdir", "short", "long", "fatlong"}
  /\ mnt \in {"none", "ok", "dangling"}
  /\ mnt = "ok" <=> disk # NoDisk
  /\ fds \in 0 .. NBMAX_FD /\ offset \in 0 .. (W - 1)
  /\ file # NoFile => mnt = "ok" /\ fds > 0
  /\ sec \in 0 .. (cluslen - 1) /\ left \in Nat /\ len \in 0 .. (W - 1)
  /\ Len(list) <= MaxClusters * Entries
  /\ fails \in 0 .. MaxFails

\* fat32.c 151-275: the name under which readdir shows an entry finds that
\* entry, unless one listed before has a name that it begins with and the same
\* extension; what any name finds is such an entry; and when every access works
\* a lookup fails only for a name that no entry is shown under.
ListName(e) == e.stem \o <<".">> \o e.ext
Resembles(e, f) == IsPrefix(e.stem, f) /\ IsSuffix(e.ext, f)
LookupRight ==
  ret.of = "lookup" /\ disk # NoDisk =>
    LET listing == Listing(disk)
        same == {i \in DOMAIN listing : ListName(listing[i]) = ret.name}
    IN  IF ret.file = NoFile THEN same = {} \/ ret.trouble
        ELSE /\ Resembles(ret.file, ret.name)
             /\ \E i \in DOMAIN listing : ret.file = listing[i] /\ \A j \in same : i <= j

\* fat32.c 112-188: the listing, whose names are the ListName of its entries,
\* has the files in their order, as many as fit; when an access fails, the
\* first so many.
ListRight ==
  ret.of = "listing" /\ disk # NoDisk =>
    /\ IsPrefix(ret.list, Listing(disk))
    /\ ~ret.trouble => Len(ret.list) = Lesser(Len(Listing(disk)), MaxClusters * Entries)

\* fat32.c 277-416: whatever the offset and whatever fails, no byte of
\* another place is handed out as a byte of the file.
NoWrongByte ==
  ret.of = "read" => \A i \in DOMAIN ret.bytes :
                        ret.bytes[i] \in {Unfilled, Place(file, ret.from + i - 1)}

\* fat32.c 385-387: a read from the start of a file, when every access works,
\* hands out all of it, if the chain is as long as the file and unless the
\* length is in the sector behind a multiple of BLK_SIZE sectors.
Whole(f) == \A n \in 0 .. ((disk.size[f] - 1) \div (BLK_SIZE * cluslen)) :
               Chain(disk, disk.first[f])[n] # EOC
OddSector(l) == l >= BLK_SIZE * BLK_SIZE /\ (l \div BLK_SIZE) % BLK_SIZE = 0
StartComplete ==
  (ret.of = "read" /\ ret.from = 0 /\ ~ret.trouble /\ Whole(file) /\ ~OddSector(ret.len)) =>
    ret.bytes = [i \in 1 .. ret.len |-> Place(file, i - 1)]

\* Every call ends, except a walk of a directory whose chain is a loop.
CallEnds == at # "idle" ~> (at = "idle" \/ (disk # NoDisk /\ Endless(disk)))
=============================================================================
