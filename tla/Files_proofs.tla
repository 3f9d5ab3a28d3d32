---------------------------- MODULE Files_proofs ----------------------------
(***************************************************************************)
(* Invariance proofs for Files, for any memory, any offsets, any lengths   *)
(* and any number of descriptors.                                          *)
(***************************************************************************)
EXTENDS Files, TLAPS

(***************************************************************************)
(* NoJunkFromStart speaks of one read.  What makes it inductive is where   *)
(* in the buffer memory that was never written can be: behind a mark.  A   *)
(* write that overwrites that mark leaves one at its own end, and one that *)
(* grows the buffer does it behind the mark of the file (InBuffer).        *)
(***************************************************************************)
Buffer == data \in Seq(Byte \cup {Junk}) /\ Len(data) \in 1 .. Memory
JunkBehindMark == \A i \in 1 .. Len(data) : data[i] = Junk => \E j \in 1 .. (i - 1) : data[j] = EOF

FilesInv == TypeOK /\ Buffer /\ InBuffer /\ JunkBehindMark /\ NoJunkFromStart

-----------------------------------------------------------------------------
\* The part of a sequence behind its first a elements, up to the b-th.
LEMMA PartIs ==
  ASSUME NEW T, NEW q \in Seq(T), NEW a \in Nat, NEW b \in Nat, a <= b, b <= Len(q)
  PROVE  /\ SubSeq(q, a + 1, b) \in Seq(T) /\ Len(SubSeq(q, a + 1, b)) = b - a
         /\ \A i \in 1 .. (b - a) : SubSeq(q, a + 1, b)[i] = q[a + i]
OBVIOUS

LEMMA Widths ==
  /\ MaxLen \in Nat /\ Memory \in Nat \ {0} /\ W \in Nat \ {0}
  /\ EOF \in Byte /\ Junk \notin Byte
BY FilesAssumption

\* What a program writes is a sequence of bytes.
LEMMA StringIs ==
  ASSUME NEW s \in Strings
  PROVE  s \in Seq(Byte) /\ Len(s) \in 0 .. MaxLen
<1>1. PICK n \in 0 .. MaxLen : s \in [1 .. n -> Byte]
  BY DEF Strings
<1> QED
  BY <1>1, Widths

\* A function on 1 .. n is a sequence of length n.
LEMMA SequenceIs ==
  ASSUME NEW S, NEW n \in Nat, NEW g \in [1 .. n -> S]
  PROVE  g \in Seq(S) /\ Len(g) = n
OBVIOUS

\* The buffer a write leaves: as long as it has to be, and the bytes that were
\* written between those that were kept.
LEMMA WrittenIs ==
  ASSUME FilesInv, ~wild, NEW s \in Strings, NEW o \in 0 .. W - 1, o + Len(s) + 1 <= Memory
  PROVE  LET end == o + Len(s)
             w   == Written(o, s)
         IN  /\ w \in Seq(Byte \cup {Junk}) /\ Len(w) \in 1 .. Memory
             /\ end \in Nat /\ end + 1 <= Len(w) /\ Len(w) = Len(Grown(end))
             /\ \A i \in 1 .. Len(w) :
                  w[i] = CASE i - 1 \in o .. (end - 1) -> s[i - o]
                           [] i - 1 = end -> EOF
                           [] OTHER -> IF i \in 1 .. Len(data) THEN data[i] ELSE Junk
             /\ Len(w) = end + 1 \/ (Len(w) = Len(data) /\ end < size)
<1> DEFINE end == o + Len(s)
           g   == Grown(end)
           w   == Written(o, s)
<1>1. /\ s \in Seq(Byte) /\ Len(s) \in Nat /\ end \in Nat /\ size \in Nat /\ o \in Nat
      /\ data \in Seq(Byte \cup {Junk}) /\ Len(data) > size /\ Len(data) <= Memory
  BY StringIs, Widths DEF FilesInv, TypeOK, Buffer, InBuffer
<1>2. /\ g \in Seq(Byte \cup {Junk}) /\ Len(g) \in 1 .. Memory /\ end + 1 <= Len(g)
      /\ \A i \in 1 .. Len(g) : g[i] = IF i \in 1 .. Len(data) THEN data[i] ELSE Junk
      /\ Len(g) = end + 1 \/ (Len(g) = Len(data) /\ end < size)
  <2>1. CASE end + 1 > size
    <3>1. g = [i \in 1 .. (end + 1) |-> IF i \in 1 .. Len(data) THEN data[i] ELSE Junk]
      BY <1>1, <2>1 DEF Grown, Resized
    <3>2. \A i \in 1 .. (end + 1) :
            (IF i \in 1 .. Len(data) THEN data[i] ELSE Junk) \in Byte \cup {Junk}
      BY <1>1
    <3> HIDE DEF g
    <3>3. g \in [1 .. (end + 1) -> Byte \cup {Junk}]
      BY <3>1, <3>2
    <3>4. g \in Seq(Byte \cup {Junk}) /\ Len(g) = end + 1
      <4>1. end + 1 \in Nat
        BY <1>1
      <4> HIDE DEF end
      <4> QED
        BY <3>3, <4>1, SequenceIs
    <3> QED
      BY <1>1, <3>1, <3>4, Widths
  <2>2. CASE ~(end + 1 > size)
    <3>1. g = data
      BY <2>2 DEF Grown
    <3> QED
      BY <1>1, <2>2, <3>1
  <2> QED
    BY <2>1, <2>2
<1>3. w = [i \in 1 .. Len(g) |-> CASE i - 1 \in o .. (end - 1) -> s[i - o]
                                   [] i - 1 = end -> EOF
                                   [] OTHER -> g[i]]
  BY <1>2 DEF Written
<1> HIDE DEF g, w
<1>4. \A i \in 1 .. Len(g) : i - 1 \in o .. (end - 1) => s[i - o] \in Byte
  BY <1>1 DEF end
<1>5. w \in [1 .. Len(g) -> Byte \cup {Junk}]
  <2>1. EOF \in Byte /\ \A i \in 1 .. Len(g) : g[i] \in Byte \cup {Junk}
    BY <1>2, FilesAssumption
  <2> HIDE DEF end
  <2>2. \A i \in 1 .. Len(g) :
          (CASE i - 1 \in o .. (end - 1) -> s[i - o] [] i - 1 = end -> EOF [] OTHER -> g[i])
            \in Byte \cup {Junk}
    BY <1>4, <2>1
  <2> QED
    BY <1>3, <2>2
<1>6. w \in Seq(Byte \cup {Junk}) /\ Len(w) = Len(g)
  <2>1. Len(g) \in Nat
    BY <1>2
  <2> QED
    BY <1>5, <2>1, SequenceIs
<1>7. \A i \in 1 .. Len(w) :
        w[i] = CASE i - 1 \in o .. (end - 1) -> s[i - o]
                 [] i - 1 = end -> EOF
                 [] OTHER -> IF i \in 1 .. Len(data) THEN data[i] ELSE Junk
  BY <1>2, <1>3, <1>6
<1> QED
  BY <1>1, <1>2, <1>6, <1>7 DEF g, w

\* A write that fits keeps the buffer in order.
LEMMA WrittenKeeps ==
  ASSUME FilesInv, ~wild, NEW s \in Strings, NEW o \in 0 .. W - 1, o + Len(s) + 1 <= Memory
  PROVE  LET end == o + Len(s)
             w   == Written(o, s)
         IN  /\ w[end + 1] = EOF
             /\ \A i \in 1 .. Len(w) : w[i] = Junk => \E j \in 1 .. (i - 1) : w[j] = EOF
<1> DEFINE end == o + Len(s)
           w   == Written(o, s)
<1>1. /\ end \in Nat /\ o \in Nat /\ Len(w) \in Nat /\ end + 1 <= Len(w) /\ size \in Nat
      /\ \A i \in 1 .. Len(w) : i - 1 = end => w[i] = EOF
      /\ \A i \in 1 .. Len(w) :
           i - 1 # end /\ i - 1 \notin o .. (end - 1) =>
             w[i] = IF i \in 1 .. Len(data) THEN data[i] ELSE Junk
      /\ \A i \in 1 .. Len(w) : i - 1 \in o .. (end - 1) => w[i] = s[i - o]
  <2>1. end \in Nat /\ o \in Nat /\ size \in Nat
    BY StringIs DEF FilesInv, TypeOK
  <2>2. /\ Len(w) \in Nat /\ end + 1 <= Len(w)
        /\ \A i \in 1 .. Len(w) :
              w[i] = CASE i - 1 \in o .. (end - 1) -> s[i - o]
                       [] i - 1 = end -> EOF
                       [] OTHER -> IF i \in 1 .. Len(data) THEN data[i] ELSE Junk
    BY WrittenIs, SMTT(30)
  <2> HIDE DEF w, end
  <2>3. \A i \in 1 .. Len(w) : i - 1 = end => i - 1 \notin o .. (end - 1)
    BY <2>1
  <2> QED
    BY <2>1, <2>2, <2>3
<1>2. \A i \in o + 1 .. end : s[i - o] # Junk
  BY StringIs, Widths
<1>3. /\ Len(data) \in Nat /\ Len(data) > size /\ data[size + 1] = EOF
      /\ \A i \in 1 .. Len(data) : data[i] = Junk => \E j \in 1 .. (i - 1) : data[j] = EOF
  BY DEF FilesInv, InBuffer, JunkBehindMark, Buffer, At
<1> HIDE DEF w, end
<1>4. w[end + 1] = EOF
  BY <1>1
<1>5. ASSUME NEW i \in 1 .. Len(w), w[i] = Junk
      PROVE  \E j \in 1 .. (i - 1) : w[j] = EOF
  <2>1. i # end + 1 /\ i \in Nat
    BY <1>1, <1>5, Widths
  <2>2. CASE i > end + 1
    <3>1. end + 1 \in 1 .. (i - 1)
      BY <1>1, <2>1, <2>2
    <3> QED
      BY <1>4, <3>1
  <2>3. CASE i < end + 1
    <3>1. i - 1 \notin o .. (end - 1)
      <4>1. i - 1 \in o .. (end - 1) => i \in o + 1 .. end /\ w[i] = s[i - o]
        BY <1>1
      <4> QED
        BY <1>2, <1>5, <4>1
    <3>2. i - 1 < o /\ i - 1 # end
      BY <1>1, <2>1, <2>3, <3>1
    <3>3. PICK j \in 1 .. (i - 1) : (IF j \in 1 .. Len(data) THEN data[j] ELSE Junk) = EOF
      <4>1. CASE i \in 1 .. Len(data)
        <5>1. data[i] = Junk
          BY <1>1, <1>5, <3>1, <3>2, <4>1
        <5>2. PICK j \in 1 .. (i - 1) : data[j] = EOF
          BY <1>3, <4>1, <5>1
        <5> QED
          BY <1>3, <4>1, <5>2
      <4>2. CASE i \notin 1 .. Len(data)
        <5>1. size + 1 \in 1 .. (i - 1) /\ size + 1 \in 1 .. Len(data)
          BY <1>1, <1>3, <2>1, <4>2
        <5> QED
          BY <1>3, <5>1
      <4> QED
        BY <4>1, <4>2
    <3>4. /\ j \in 1 .. Len(w) /\ j - 1 # end /\ j - 1 \notin o .. (end - 1)
      BY <1>1, <2>3, <3>2
    <3>5. w[j] = EOF
      BY <1>1, <3>3, <3>4
    <3> QED
      BY <3>5
  <2> QED
    BY <1>1, <2>1, <2>2, <2>3
<1> QED
  BY <1>4, <1>5 DEF w, end

\* What a read from the start gives ends before the first mark.
LEMMA ReadFromStart ==
  ASSUME FilesInv, ~wild, NEW len \in Nat, NEW bytes \in Readable(0, len)
  PROVE  \A i \in DOMAIN bytes : bytes[i] # Junk
<1>1. PICK n \in 0 .. len : /\ bytes = [i \in 1 .. n |-> At(0 + i - 1)]
                            /\ \A i \in 0 .. (n - 1) : 0 + i < size /\ At(0 + i) # EOF
  BY DEF Readable
<1>2. Len(data) \in Nat /\ Len(data) > size /\ size \in Nat
  BY DEF FilesInv, InBuffer, Buffer, TypeOK
<1>3. SUFFICES ASSUME NEW i \in 1 .. n, bytes[i] = Junk PROVE FALSE
  BY <1>1
<1>4. data[i] = Junk /\ i \in 1 .. Len(data)
  <2>1. i - 1 \in 0 .. (n - 1) /\ 0 + (i - 1) = i - 1 /\ (0 + i - 1) + 1 = i
    OBVIOUS
  <2>2. i - 1 < size
    BY <1>1, <2>1
  <2> QED
    BY <1>1, <1>2, <1>3, <2>1, <2>2 DEF At
<1>5. PICK j \in 1 .. (i - 1) : data[j] = EOF
  BY <1>4 DEF FilesInv, JunkBehindMark
<1>6. j - 1 \in 0 .. (n - 1) /\ (0 + (j - 1)) + 1 = j
  OBVIOUS
<1> QED
  BY <1>1, <1>5, <1>6 DEF At

\* An offset stays an offset.
LEMMA MovedIs ==
  ASSUME TypeOK, NEW k \in Fd, NEW o \in Int, Moved(k, o)
  PROVE  fd_table' \in [Fd -> [mode : Modes \cup {{}}, offset : 0 .. (W - 1), open : BOOLEAN]]
<1>1. o % W \in 0 .. W - 1
  BY Widths
<1> QED
  BY <1>1 DEF TypeOK, Moved

\* How much of the state a read or a change of a descriptor leaves alone.
LEMMA FileKept ==
  ASSUME FilesInv, ~wild, UNCHANGED <<file, wild>>,
         fd_table' \in [Fd -> [mode : Modes \cup {{}}, offset : 0 .. (W - 1), open : BOOLEAN]],
         ret'.of \in {"none", "read", "write", "stat"}, NoJunkFromStart'
  PROVE  FilesInv'
BY DEF FilesInv, file, TypeOK, Buffer, InBuffer, JunkBehindMark, At

-----------------------------------------------------------------------------
LEMMA FilesStart == Init => FilesInv
<1> SUFFICES ASSUME Init PROVE FilesInv
  OBVIOUS
<1>1. data = <<EOF>> /\ Len(data) = 1 /\ data[1] = EOF /\ data \in Seq(Byte \cup {Junk})
  BY Widths DEF Init
<1>2. 0 \in 0 .. W - 1 /\ 0 \in 0 .. Memory - 1 /\ 1 \in 1 .. Memory
  BY Widths
<1>3. wild \in BOOLEAN
  BY Zenon DEF Init
<1>4. TypeOK
  BY <1>1, <1>2, <1>3, Widths DEF Init, TypeOK, Closed, Nothing
<1>5. Buffer /\ InBuffer /\ JunkBehindMark
  BY <1>1, <1>2, Widths DEF Init, Buffer, InBuffer, JunkBehindMark, At
<1>6. NoJunkFromStart
  BY DEF Init, NoJunkFromStart, Nothing
<1> QED
  BY <1>4, <1>5, <1>6 DEF FilesInv

LEMMA WriteStep ==
  ASSUME FilesInv, ~wild, NEW k \in Fd, NEW s \in Strings, Write(k, s)
  PROVE  FilesInv'
<1> DEFINE o   == fd_table[k].offset
           end == o + Len(s)
<1>1. /\ o \in 0 .. W - 1 /\ Len(s) \in Nat /\ end \in Nat /\ s \in Seq(Byte)
      /\ perm' = perm /\ ret' = [of |-> "write", from |-> o, bytes |-> s]
  BY StringIs DEF FilesInv, TypeOK, Write
<1>2. NoJunkFromStart' /\ ret'.of = "write" /\ ret'.from = o /\ ret'.bytes = s
  BY <1>1 DEF NoJunkFromStart
<1>3. CASE end + 1 <= Memory
  <2>1. /\ data' = Written(o, s) /\ size' = end /\ wild' = (end + 1 > Len(Grown(end)))
        /\ Moved(k, end)
    BY <1>3 DEF Write
  <2>2. /\ data' \in Seq(Byte \cup {Junk}) /\ Len(data') \in 1 .. Memory
        /\ end + 1 <= Len(data') /\ Len(data') = Len(Grown(end))
    BY <1>1, <1>3, <2>1, WrittenIs
  <2>3. /\ data'[end + 1] = EOF
        /\ \A i \in 1 .. Len(data') : data'[i] = Junk => \E j \in 1 .. (i - 1) : data'[j] = EOF
    BY <1>1, <1>3, <2>1, WrittenKeeps
  <2>4. fd_table' \in [Fd -> [mode : Modes \cup {{}}, offset : 0 .. (W - 1), open : BOOLEAN]]
    BY <1>1, <2>1, MovedIs DEF FilesInv
  <2>5. wild' = FALSE
    <3>1. (end + 1 > Len(Grown(end))) = FALSE
      BY <1>1, <2>2
    <3> QED
      BY <2>1, <3>1, Zenon
  <2> HIDE DEF end, o
  <2>6. size' \in 0 .. (Memory - 1)
    BY <1>1, <1>3, <2>1, Widths
  <2>7. wild' \in BOOLEAN
    BY <2>5, Zenon
  <2>8. TypeOK'
    BY <1>1, <1>2, <2>2, <2>4, <2>6, <2>7 DEF TypeOK, FilesInv
  <2>9. Buffer' /\ InBuffer' /\ JunkBehindMark'
    BY <1>1, <2>1, <2>2, <2>3, <2>5 DEF Buffer, InBuffer, JunkBehindMark, At
  <2> QED
    BY <1>2, <2>8, <2>9 DEF FilesInv
<1>4. CASE ~(end + 1 <= Memory)
  <2>1. wild' = TRUE /\ UNCHANGED <<data, size, fd_table>>
    BY <1>4 DEF Write
  <2>2. wild' \in BOOLEAN
    BY <2>1, Zenon
  <2>3. TypeOK'
    BY <1>1, <1>2, <2>1, <2>2 DEF TypeOK, FilesInv
  <2>4. ret'.from + Len(ret'.bytes) >= Memory
    BY <1>1, <1>2, <1>4, Widths
  <2>5. InBuffer' /\ Buffer' /\ JunkBehindMark'
    BY <2>1, <2>4 DEF InBuffer, Buffer, JunkBehindMark, FilesInv
  <2> QED
    BY <1>2, <2>3, <2>5 DEF FilesInv
<1> QED
  BY <1>3, <1>4

LEMMA OpenStep ==
  ASSUME FilesInv, ~wild, NEW k \in Fd, NEW mode \in Modes, Open(k, mode)
  PROVE  FilesInv'
<1>1. /\ ret' = Nothing /\ UNCHANGED <<perm, wild>>
      /\ fd_table' = [fd_table EXCEPT ![k] =
           [mode |-> mode, offset |-> IF "O_APPEND" \in mode THEN size ELSE 0, open |-> TRUE]]
  BY DEF Open
<1>2. NoJunkFromStart' /\ ret'.of = "none"
  BY <1>1 DEF NoJunkFromStart, Nothing
<1>3. fd_table' \in [Fd -> [mode : Modes \cup {{}}, offset : 0 .. (W - 1), open : BOOLEAN]]
  <2>1. size \in 0 .. W - 1 /\ 0 \in 0 .. W - 1
    <3>1. Memory + MaxLen < W /\ MaxLen >= 0
      BY FilesAssumption
    <3> QED
      BY <3>1, Widths DEF FilesInv, TypeOK
  <2> QED
    BY <1>1, <2>1 DEF FilesInv, TypeOK
<1>4. CASE UNCHANGED <<size, data>>
  BY <1>1, <1>2, <1>3, <1>4, FileKept DEF file
<1>5. CASE Truncated
  <2>1. /\ data' = <<EOF>> /\ Len(data') = 1 /\ data'[1] = EOF /\ size' = 0
        /\ data' \in Seq(Byte \cup {Junk})
    BY <1>5, Widths DEF Truncated
  <2>2. 0 \in 0 .. Memory - 1 /\ 1 \in 1 .. Memory
    BY Widths
  <2>3. TypeOK'
    BY <1>1, <1>2, <1>3, <2>1, <2>2 DEF TypeOK, FilesInv
  <2>4. Buffer' /\ InBuffer' /\ JunkBehindMark'
    BY <1>1, <2>1, <2>2, Widths DEF Buffer, InBuffer, JunkBehindMark, At
  <2> QED
    BY <1>2, <2>3, <2>4 DEF FilesInv
<1> QED
  BY <1>4, <1>5 DEF Open

LEMMA ReadStep ==
  ASSUME FilesInv, ~wild, NEW k \in Fd, NEW len \in 0 .. MaxLen, Read(k, len)
  PROVE  FilesInv'
<1> DEFINE o == fd_table[k].offset
<1>1. PICK bytes \in Readable(o, len) :
        Moved(k, o + Len(bytes)) /\ ret' = [of |-> "read", from |-> o, bytes |-> bytes]
  BY DEF Read
<1>2. UNCHANGED <<file, wild>> /\ o \in Nat /\ len \in Nat
  BY Widths DEF Read, FilesInv, TypeOK
<1>3. Len(bytes) \in Nat
  <2>1. PICK n \in 0 .. len : bytes = [i \in 1 .. n |-> At(o + i - 1)]
    BY DEF Readable
  <2> QED
    BY <1>2, <2>1
<1>4. fd_table' \in [Fd -> [mode : Modes \cup {{}}, offset : 0 .. (W - 1), open : BOOLEAN]]
  BY <1>1, <1>2, <1>3, MovedIs DEF FilesInv
<1>5. NoJunkFromStart' /\ ret'.of = "read"
  <2>1. ret'.from = o /\ ret'.bytes = bytes /\ ret'.of = "read"
    BY <1>1
  <2>2. o = 0 => \A i \in DOMAIN bytes : bytes[i] # Junk
    BY <1>2, ReadFromStart
  <2> QED
    BY <2>1, <2>2 DEF NoJunkFromStart
<1> QED
  BY <1>2, <1>4, <1>5, FileKept

\* The calls that change no byte of the file.
LEMMA OtherStep ==
  ASSUME FilesInv, ~wild,
         \/ \E k \in Fd : Close(k) \/ Stat(k) \/ \E o \in Seeks : Seek(k, o)
         \/ \E p \in SUBSET {"PERM_READ", "PERM_WRITE"} : Chmod(p)
  PROVE  FilesInv'
<1>1. ASSUME NEW k \in Fd, Close(k) PROVE FilesInv'
  <2>1. fd_table' = [fd_table EXCEPT ![k] = Closed] /\ ret' = Nothing /\ UNCHANGED <<file, wild>>
    BY <1>1 DEF Close
  <2>2. 0 \in 0 .. W - 1
    BY Widths
  <2>3. fd_table' \in [Fd -> [mode : Modes \cup {{}}, offset : 0 .. (W - 1), open : BOOLEAN]]
    BY <2>1, <2>2 DEF FilesInv, TypeOK, Closed
  <2> QED
    BY <2>1, <2>3, FileKept DEF Nothing, NoJunkFromStart
<1>2. ASSUME NEW k \in Fd, Stat(k) PROVE FilesInv'
  <2>1. ret'.of = "stat" /\ UNCHANGED <<file, fd_table, wild>>
    BY <1>2 DEF Stat
  <2> QED
    BY <2>1, FileKept DEF NoJunkFromStart, FilesInv, TypeOK
<1>3. ASSUME NEW k \in Fd, NEW o \in Seeks, Seek(k, o) PROVE FilesInv'
  <2>1. PICK base \in {0, fd_table[k].offset, size - 1} : Moved(k, base + o)
    BY <1>3 DEF Seek
  <2>2. base + o \in Int
    <3>1. o \in Int /\ size - 1 \in Int /\ fd_table[k].offset \in Int
      BY FilesAssumption DEF FilesInv, TypeOK
    <3> QED
      BY <3>1
  <2>3. ret' = Nothing /\ UNCHANGED <<file, wild>>
    BY <1>3 DEF Seek
  <2> QED
    BY <2>1, <2>2, <2>3, MovedIs, FileKept DEF Nothing, NoJunkFromStart, FilesInv
<1>4. ASSUME NEW p \in SUBSET {"PERM_READ", "PERM_WRITE"}, Chmod(p) PROVE FilesInv'
  <2>1. perm' = p /\ ret' = Nothing /\ UNCHANGED <<size, data, fd_table, wild>>
    BY <1>4 DEF Chmod
  <2>2. TypeOK' /\ NoJunkFromStart'
    BY <2>1 DEF FilesInv, TypeOK, Nothing, NoJunkFromStart
  <2>3. Buffer' /\ JunkBehindMark' /\ InBuffer'
    BY <2>1 DEF FilesInv, Buffer, JunkBehindMark, InBuffer, At
  <2> QED
    BY <2>2, <2>3 DEF FilesInv
<1> QED
  BY <1>1, <1>2, <1>3, <1>4

LEMMA FilesStep == FilesInv /\ [Next]_vars => FilesInv'
<1> SUFFICES ASSUME FilesInv, [Next]_vars PROVE FilesInv'
  OBVIOUS
<1>1. CASE Next
  BY <1>1, OpenStep, ReadStep, WriteStep, OtherStep DEF Next
<1>2. CASE UNCHANGED vars
  BY <1>2 DEF vars, file, FilesInv, TypeOK, Buffer, InBuffer, JunkBehindMark, NoJunkFromStart, At
<1> QED
  BY <1>1, <1>2

-----------------------------------------------------------------------------
\* The file, its buffer and every descriptor keep their types; offsets wrap.
THEOREM FilesTypeCorrect == Spec => []TypeOK
<1>1. FilesInv => TypeOK
  BY DEF FilesInv
<1> QED
  BY FilesStart, FilesStep, <1>1, PTL DEF Spec

\* No write of any length at any offset leaves the buffer while there is memory,
\* and the file is always followed by its mark.
THEOREM InBufferCorrect == Spec => []InBuffer
<1>1. FilesInv => InBuffer
  BY DEF FilesInv
<1> QED
  BY FilesStart, FilesStep, <1>1, PTL DEF Spec

\* A read from the start never gives what was in the memory before, whatever
\* gaps the truncations and seeks of other descriptors have left.
THEOREM NoJunkCorrect == Spec => []NoJunkFromStart
<1>1. FilesInv => NoJunkFromStart
  BY DEF FilesInv
<1> QED
  BY FilesStart, FilesStep, <1>1, PTL DEF Spec

\* What a change of the contents may be.
Change ==
  ~wild' /\ Content' # Content =>
    \/ Content' = <<>>
    \/ \E k \in Fd, s \in Strings :
         LET o == fd_table[k].offset IN
         /\ Len(Content') = o + Len(s) /\ SubSeq(Content', o + 1, o + Len(s)) = s
         /\ \A i \in 1 .. o : i \in DOMAIN Content => Content'[i] = Content[i]

LEMMA SameContent == ASSUME UNCHANGED <<size, data>> PROVE Change
BY DEF Change, Content

LEMMA WriteChange ==
  ASSUME FilesInv, ~wild, NEW k \in Fd, NEW s \in Strings, Write(k, s)
  PROVE  Change
<1> DEFINE o   == fd_table[k].offset
           end == o + Len(s)
<1>1. CASE ~(end + 1 <= Memory)
  BY <1>1, SameContent DEF Write
<1>2. CASE end + 1 <= Memory
  <2>1. /\ o \in 0 .. W - 1 /\ o \in Nat /\ Len(s) \in Nat /\ end \in Nat /\ s \in Seq(Byte)
        /\ size \in Nat /\ data \in Seq(Byte \cup {Junk}) /\ size < Len(data)
    BY StringIs DEF FilesInv, TypeOK, InBuffer, Buffer
  <2>2. data' = Written(o, s) /\ size' = end
    BY <1>2 DEF Write
  <2>3. /\ data' \in Seq(Byte \cup {Junk}) /\ end + 1 <= Len(data')
        /\ \A i \in 1 .. Len(data') :
             data'[i] = CASE i - 1 \in o .. (end - 1) -> s[i - o]
                          [] i - 1 = end -> EOF
                          [] OTHER -> IF i \in 1 .. Len(data) THEN data[i] ELSE Junk
    BY <1>2, <2>1, <2>2, WrittenIs
  <2>o. end = o + Len(s)
    OBVIOUS
  <2> HIDE DEF o, end
  <2>4. /\ \A i \in 1 .. Len(s) : data'[i + o] = s[i]
        /\ \A i \in 1 .. o : i \in 1 .. Len(data) => data'[i] = data[i]
    <3>1. ASSUME NEW i \in 1 .. Len(s) PROVE data'[i + o] = s[i]
      <4>1. i + o \in 1 .. Len(data') /\ i + o - 1 \in o .. (end - 1) /\ (i + o) - o = i
        <5>1. Len(s) \in Nat /\ o \in Nat /\ end + 1 <= Len(data')
          BY <2>1, <2>3
        <5> QED
          BY <2>o, <5>1
      <4>2. \A j \in 1 .. Len(data') : j - 1 \in o .. (end - 1) => data'[j] = s[j - o]
        BY <2>3
      <4>3. data'[i + o] = s[(i + o) - o]
        BY <2>1, <4>1, <4>2
      <4> QED
        BY <4>1, <4>3
    <3>2. ASSUME NEW i \in 1 .. o, i \in 1 .. Len(data) PROVE data'[i] = data[i]
      <4>1. i \in 1 .. Len(data') /\ i - 1 \notin o .. (end - 1) /\ i - 1 # end
        BY <2>1, <2>o, <2>3
      <4> QED
        BY <2>3, <3>2, <4>1
    <3> QED
      BY <3>1, <3>2
  <2>5. /\ Content' = SubSeq(data', 1, end) /\ Content = SubSeq(data, 1, size)
    BY <2>2 DEF Content
  <2>6. /\ Content' \in Seq(Byte \cup {Junk}) /\ Len(Content') = end
        /\ \A i \in 1 .. end : Content'[i] = data'[i]
    BY <2>1, <2>3, <2>5
  <2>7. /\ DOMAIN Content = 1 .. size
        /\ \A i \in 1 .. size : Content[i] = data[i]
    BY <2>1, <2>5
  <2>8. SubSeq(Content', o + 1, end) = s
    <3> DEFINE t == SubSeq(Content', o + 1, end)
    <3>1. o + 1 \in 1 .. end + 1 /\ end \in o .. end /\ end - o = Len(s)
      BY <2>1, <2>o
    <3>2. t \in Seq(Byte \cup {Junk}) /\ Len(t) = Len(s)
      BY <2>1, <2>6, <3>1, PartIs
    <3>3. \A i \in 1 .. Len(s) : t[i] = Content'[o + i]
      BY <2>1, <2>6, <3>1, PartIs
    <3>4. \A i \in 1 .. Len(s) : o + i \in 1 .. end /\ o + i = i + o
      BY <2>1, <2>o
    <3>5. \A i \in 1 .. Len(s) : t[i] = s[i]
      BY <2>4, <2>6, <3>3, <3>4
    <3> HIDE DEF t
    <3>6. t = s
      BY <2>1, <3>2, <3>5
    <3> QED
      BY <3>6 DEF t
  <2>9. \A i \in 1 .. o : i \in DOMAIN Content => Content'[i] = Content[i]
    <3>1. size <= Len(data) /\ o <= end
      BY <2>1, <2>o
    <3>2. \A i \in 1 .. o : i \in 1 .. end
      BY <2>1, <3>1
    <3>3. \A i \in 1 .. size : i \in 1 .. Len(data)
      BY <2>1, <3>1
    <3> QED
      BY <2>4, <2>6, <2>7, <3>2, <3>3
  <2> QED
    BY <2>6, <2>8, <2>9 DEF Change, end, o
<1> QED
  BY <1>1, <1>2

LEMMA NextChanges == FilesInv /\ [Next]_vars => [Change]_vars
<1> SUFFICES ASSUME FilesInv, Next PROVE Change
  OBVIOUS
<1>1. ~wild
  BY DEF Next
<1>2. ASSUME NEW k \in Fd, NEW mode \in Modes, Open(k, mode) PROVE Change
  <2>1. CASE Truncated
    <3>1. size' = 0 /\ data' = <<EOF>>
      BY <2>1 DEF Truncated
    <3>2. Content' = <<>>
      BY <3>1 DEF Content
    <3> QED
      BY <3>2 DEF Change
  <2> QED
    BY <1>2, <2>1, SameContent DEF Open
<1>3. ASSUME NEW k \in Fd, NEW s \in Strings, Write(k, s) PROVE Change
  BY <1>1, <1>3, WriteChange
<1> QED
  BY <1>2, <1>3, SameContent DEF Next, Close, Stat, Read, Seek, Chmod, file

\* The contents change only to nothing, by an open, or to what a write makes of
\* them: no seek, chmod, read or close of any program does.
THEOREM ContentsByWriteCorrect == Spec => ContentsByWrite
<1>1. FilesInv /\ [Next]_vars => [~wild' /\ Content' # Content =>
        \/ Content' = <<>>
        \/ \E k \in Fd, s \in Strings :
             LET o == fd_table[k].offset IN
             /\ Len(Content') = o + Len(s) /\ SubSeq(Content', o + 1, o + Len(s)) = s
             /\ \A i \in 1 .. o : i \in DOMAIN Content => Content'[i] = Content[i]]_vars
  BY NextChanges DEF Change
<1> QED
  BY FilesStart, FilesStep, <1>1, PTL DEF Spec, ContentsByWrite
=============================================================================
