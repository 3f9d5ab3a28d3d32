-------------------------------- MODULE Files --------------------------------
(***************************************************************************)
(* The contents of a file of vffs.c behind the descriptors of vfs.c: open  *)
(* with its truncation, read, write, seek, stat and chmod, by programs     *)
(* that have the same file open at once.  Vfs has the other side, which    *)
(* block belongs to whom; here the file stays where it is.                 *)
(*                                                                         *)
(* Every call is a system call with IRQs masked, so it is one step, and    *)
(* "lock" is never seen set.  Sizes and offsets are uint32_t.  kmalloc     *)
(* succeeds, and gives memory that holds anything.                         *)
(***************************************************************************)
EXTENDS Integers, Sequences

CONSTANTS
  Fd,      \* descriptors, of any process
  Byte,    \* what programs write
  EOF,     \* 0xFF, which they may write as well
  Junk,    \* what was in memory before
  Modes,   \* the modes they open with: subsets of the flags
  W,       \* 2^32
  Memory,  \* the most that kmalloc can give
  MaxLen,  \* a bound on the length of a write
  Seeks    \* the offsets given to seek

ASSUME FilesAssumption ==
  /\ EOF \in Byte /\ Junk \notin Byte
  /\ {MaxLen, Memory, W} \subseteq Nat \ {0} /\ Memory + MaxLen < W
  /\ Seeks \subseteq 0 .. (W - 1)
  /\ Modes \subseteq SUBSET {"O_RDWR", "O_RDONLY", "O_APPEND"}

Strings == UNION {[1 .. n -> Byte] : n \in 0 .. MaxLen}

VARIABLES
  size, data, perm,  \* s_vfile
  fd_table,          \* s_fd for an open descriptor, Closed for the others
  wild,              \* a byte was written outside of file->data
  ret                \* what the last call did

vars == <<size, data, perm, fd_table, wild, ret>>
file == <<size, data, perm>>

Closed == [mode |-> {}, offset |-> 0, open |-> FALSE]
Nothing == [of |-> "none"]

Init ==
  /\ size = 0 /\ data = <<EOF>> /\ perm = {"PERM_READ", "PERM_WRITE"}
  /\ fd_table = [k \in Fd |-> Closed]
  /\ wild = FALSE /\ ret = Nothing

\* Byte i of the buffer, as C counts.
At(i) == data[i + 1]

\* krealloc keeps what fits.
Resized(n) == [i \in 1 .. n |-> IF i \in DOMAIN data THEN data[i] ELSE Junk]

-----------------------------------------------------------------------------
\* Variant of Truncated: the mark is not set.
TruncatedUnmarked == data' = Resized(1) /\ size' = 0

\* What an open that does not append makes of the file.
Truncated == data' = <<EOF>> /\ size' = 0

\* getnode and open.  Only O_RDWR asks for the permission to write, and any
\* mode but O_APPEND empties the file.
Open(k, mode) ==
  /\ ~fd_table[k].open
  /\ "O_RDWR" \in mode => "PERM_WRITE" \in perm
  /\ fd_table' = [fd_table EXCEPT ![k] =
       [mode |-> mode, offset |-> IF "O_APPEND" \in mode THEN size ELSE 0, open |-> TRUE]]
  /\ IF "O_APPEND" \in mode THEN UNCHANGED <<size, data>> ELSE Truncated
  /\ ret' = Nothing
  /\ UNCHANGED <<perm, wild>>

Close(k) ==
  /\ fd_table[k].open
  /\ fd_table' = [fd_table EXCEPT ![k] = Closed]
  /\ ret' = Nothing
  /\ UNCHANGED <<file, wild>>

\* Variant of Moved: an offset below 0 stays there.
MovedBelow(k, o) == fd_table' = [fd_table EXCEPT ![k].offset = IF o < W THEN o ELSE o % W]

Moved(k, o) == fd_table' = [fd_table EXCEPT ![k].offset = o % W]

\* The bytes from offset o that a read of len bytes may give: it stops at the
\* size, at the mark, and at a byte of the memory before that is one.
Readable(o, len) ==
  {[i \in 1 .. n |-> At(o + i - 1)] :
     n \in {n \in 0 .. len :
             /\ \A i \in 0 .. (n - 1) : o + i < size /\ At(o + i) # EOF
             /\ n < len => o + n >= size \/ At(o + n) \in {EOF, Junk}}}

\* read_vfile.
Read(k, len) ==
  LET o == fd_table[k].offset IN
  /\ fd_table[k].open /\ "PERM_READ" \in perm
  /\ \E bytes \in Readable(o, len) :
       /\ Moved(k, o + Len(bytes))
       /\ ret' = [of |-> "read", from |-> o, bytes |-> bytes]
  /\ UNCHANGED <<file, wild>>

\* Variant of Grown: no room for the mark.
GrownLate(end) == IF end > size THEN Resized(end) ELSE data

\* The buffer when a write is to end at end: it grows for the mark too.
Grown(end) == IF end + 1 > size THEN Resized(end + 1) ELSE data

\* Variant of Written: the mark is on the last byte.
WrittenMarkEarly(o, s) ==
  [i \in DOMAIN Grown(o + Len(s)) |->
     CASE i = o + Len(s) -> EOF
       [] i - 1 \in o .. (o + Len(s) - 2) -> s[i - o]
       [] OTHER -> Grown(o + Len(s))[i]]

\* The buffer after s is written at o, with the mark behind it.
Written(o, s) ==
  [i \in DOMAIN Grown(o + Len(s)) |->
     CASE i - 1 \in o .. (o + Len(s) - 1) -> s[i - o]
       [] i - 1 = o + Len(s) -> EOF
       [] OTHER -> Grown(o + Len(s))[i]]

\* write_vfile.  Where offset, length and mark wrap, the buffer does not grow
\* and the mark goes below it; where they are beyond the memory, krealloc
\* gives NULL, which is written to.
Write(k, s) ==
  LET o    == fd_table[k].offset
      end  == o + Len(s)
      fits == end + 1 <= Memory
  IN  /\ fd_table[k].open
      /\ "O_RDONLY" \notin fd_table[k].mode /\ "PERM_WRITE" \in perm
      /\ IF fits THEN /\ data' = Written(o, s) /\ size' = end
                      /\ wild' = (end + 1 > Len(Grown(end)))
                      /\ Moved(k, end)
         ELSE wild' = TRUE /\ UNCHANGED <<data, size, fd_table>>
      /\ ret' = [of |-> "write", from |-> o, bytes |-> s]
      /\ UNCHANGED perm

\* seek, with SEEK_SET, SEEK_CUR or SEEK_END.
Seek(k, o) ==
  /\ fd_table[k].open
  /\ \E base \in {0, fd_table[k].offset, size - 1} : Moved(k, base + o)
  /\ ret' = Nothing
  /\ UNCHANGED <<file, wild>>

\* stat.
Stat(k) ==
  /\ fd_table[k].open
  /\ ret' = [of |-> "stat", size |-> size]
  /\ UNCHANGED <<file, fd_table, wild>>

\* chmod_vfile.
Chmod(p) ==
  /\ perm' = p /\ ret' = Nothing
  /\ UNCHANGED <<size, data, fd_table, wild>>

\* Once memory that is not the file's is written, anything may follow.
Next ==
  /\ ~wild
  /\ \/ \E k \in Fd :
          \/ \E mode \in Modes : Open(k, mode)
          \/ Close(k) \/ Stat(k)
          \/ \E len \in 0 .. MaxLen : Read(k, len)
          \/ \E s \in Strings : Write(k, s)
          \/ \E o \in Seeks : Seek(k, o)
     \/ \E p \in SUBSET {"PERM_READ", "PERM_WRITE"} : Chmod(p)

Spec == Init /\ [][Next]_vars

(***************************************************************************)
(*                             Properties                                  *)
(***************************************************************************)

TypeOK ==
  /\ size \in 0 .. (Memory - 1) /\ Len(data) \in 1 .. Memory
  /\ \A i \in DOMAIN data : data[i] \in Byte \cup {Junk}
  /\ perm \subseteq {"PERM_READ", "PERM_WRITE"}
  /\ fd_table \in [Fd -> [mode : Modes \cup {{}}, offset : 0 .. (W - 1), open : BOOLEAN]]
  /\ wild \in BOOLEAN
  /\ ret.of \in {"none", "read", "write", "stat"}

\* vffs.c 68, 82-94: a write stays inside the buffer, whatever descriptor's
\* offset it starts at, unless it ends where no memory is; and until then the
\* buffer is longer than the file and the mark is at its end, so that no read
\* runs on behind it.
InBuffer ==
  IF wild THEN ret.from + Len(ret.bytes) >= Memory
  ELSE Len(data) > size /\ At(size) = EOF

\* vffs.c 60-73 and vfs.c 77-81: a read from the start gives no byte that was
\* not written, although a descriptor whose file has been truncated, or that
\* has been moved, leaves a gap when it writes.
NoJunkFromStart == ret.of = "read" /\ ret.from = 0 => \A i \in DOMAIN ret.bytes : ret.bytes[i] # Junk

\* vfs.c 75-81, vffs.c 84-94: the contents change only to nothing, by an open,
\* or by a write, which keeps what is before its offset and puts its bytes there.
Content == SubSeq(data, 1, size)
ContentsByWrite ==
  [][~wild' /\ Content' # Content =>
       \/ Content' = <<>>
       \/ \E k \in Fd, s \in Strings :
            LET o == fd_table[k].offset IN
            /\ Len(Content') = o + Len(s) /\ SubSeq(Content', o + 1, o + Len(s)) = s
            /\ \A i \in 1 .. o : i \in DOMAIN Content => Content'[i] = Content[i]]_vars
=============================================================================
