--------------------------- MODULE Console_proofs ---------------------------
(***************************************************************************)
(* Invariance proofs for Mailbox and for Console on top of it, for any     *)
(* depth of the mailbox, any timeout and any size of the screen.           *)
(***************************************************************************)
EXTENDS Console, Integers, TLAPS

(***************************************************************************)
(* The mailbox.  PowerCycled is about the moment a power-on is taken to    *)
(* have worked; what makes it inductive is what the one buffer says of the *)
(* card in between: the request in it is the one being made (once it is    *)
(* filled in), an "on" in it means that the card has power, and an "off"   *)
(* that it has been without since the power-off was asked for.             *)
(***************************************************************************)
Message == [chan : {0, 1, 8}, zero : BOOLEAN]
Buffer == [of : {"none", "off", "on", "clock"}, code : {"failure", "request", "success"},
           value : {"none", "off", "on", "rate"}]

MailTypes == /\ to \in Seq({1, 8}) /\ from \in Seq(Message) /\ buffer \in Buffer
             /\ {power, cycled} \subseteq BOOLEAN

Answered == /\ cpu \in {"write", "read", "up"} /\ call # "framebuffer" => buffer.of = call
            /\ buffer.of = "on" /\ buffer.value = "on" => power
            /\ cpu # "fill" /\ call = "off" /\ buffer.value = "off" => cycled
            /\ cpu = "up" /\ call = "off" /\ result = "done" => cycled
            /\ call = "on" /\ off = "done" => cycled
            /\ cpu = "up" /\ call = "on" /\ result = "done" => power

\* init_graphics waits for the framebuffer it asks for once; nobody else does.
Asking == call = "framebuffer" /\ cpu \in {"write", "read"}
FbOnce == /\ Asking => /\ fb # "ready"
                       /\ to = <<>> \/ (to = <<1>> /\ fb = "unset" /\ cpu = "read")
          /\ Asking /\ cpu = "write" => to = <<>> /\ fb = "unset"
          /\ ~Asking => to \in Seq({8}) /\ fb \in {"null", "ready"}
          /\ call = "framebuffer" => cpu # "fill"
          /\ \A i \in 1 .. Len(from) : from[i].chan = 1 => fb # "unset"

MailInv == TypeMailbox /\ MailTypes /\ Answered /\ FbOnce

-----------------------------------------------------------------------------
\* What a response is judged to be.
LEMMA JudgedIs ==
  ASSUME MailTypes
  PROVE  /\ Judged \in {"done", "other", "fail"}
         /\ Judged = "done" /\ call \in {"on", "off"} => buffer.value = call
BY DEF Judged

LEMMA MailStart == MailboxInit => MailInv
<1> SUFFICES ASSUME MailboxInit PROVE MailInv
  OBVIOUS
<1>1. TypeMailbox
  BY MailboxAssumption DEF MailboxInit, TypeMailbox
<1>2. MailTypes
  <2>1. {power, cycled} \subseteq BOOLEAN
    BY Zenon DEF MailboxInit
  <2>2. to \in Seq({1, 8}) /\ from \in Seq(Message) /\ buffer \in Buffer
    BY DEF MailboxInit, Buffer
  <2> QED
    BY <2>1, <2>2 DEF MailTypes
<1>3. Answered /\ FbOnce
  BY DEF MailboxInit, Answered, FbOnce, Asking
<1> QED
  BY <1>1, <1>2, <1>3 DEF MailInv

LEMMA MailStep ==
  ASSUME MailInv, [MailboxNext]_mailbox
  PROVE  MailInv'
<1> USE DEF MailInv
<1>a. /\ MAILBOX_TIMEOUT \in Nat \ {0} /\ Depth \in Nat \ {0}
      /\ to \in Seq({1, 8}) /\ from \in Seq(Message) /\ buffer \in Buffer
      /\ timeout \in Nat
  BY MailboxAssumption DEF MailTypes, TypeMailbox
<1>1. CASE WriteMailbox
  <2>1. /\ cpu = "write" /\ Len(to) < Depth /\ to' = Append(to, Channel)
        /\ cpu' = "read" /\ timeout' = 0
        /\ UNCHANGED <<from, buffer, fb, call, result, power, cycled, off>>
    BY <1>1 DEF WriteMailbox
  <2>2. to' \in Seq({1, 8}) /\ Len(to') = Len(to) + 1
    BY <1>a, <2>1 DEF Channel
  <2>3. TypeMailbox' /\ MailTypes' /\ Answered'
    BY <1>a, <2>1, <2>2 DEF TypeMailbox, MailTypes, Answered
  <2>4. FbOnce'
    <3>1. CASE call = "framebuffer"
      <4>1. to' = <<1>>
        BY <2>1, <3>1 DEF FbOnce, Asking, Channel
      <4> QED
        BY <2>1, <3>1, <4>1 DEF FbOnce, Asking
    <3>2. CASE call # "framebuffer"
      <4>1. to' \in Seq({8})
        BY <2>1, <3>2 DEF FbOnce, Asking, Channel
      <4> QED
        BY <2>1, <3>2, <4>1 DEF FbOnce, Asking
    <3> QED
      BY <3>1, <3>2
  <2> QED
    BY <2>3, <2>4
<1>2. CASE PollEmpty
  <2>1. /\ cpu = "read" /\ cpu' \in {"read", "up"} /\ timeout' \in 0 .. MAILBOX_TIMEOUT
        /\ cpu' = "up" => call # "framebuffer" /\ result' = Judged
        /\ cpu' = "read" => result' = result
        /\ UNCHANGED <<to, from, buffer, fb, call, power, cycled, off>>
    BY <1>2, <1>a DEF PollEmpty, TimeLeft, TypeMailbox, gpu
  <2>2. result' \in {"none", "done", "other", "fail"}
    BY <2>1, JudgedIs DEF TypeMailbox
  <2>3. TypeMailbox' /\ MailTypes'
    BY <1>a, <2>1, <2>2 DEF TypeMailbox, MailTypes
  <2>4. Answered'
    BY <2>1, JudgedIs DEF Answered
  <2>5. FbOnce'
    BY <2>1 DEF FbOnce, Asking
  <2> QED
    BY <2>3, <2>4, <2>5
<1>3. CASE PollMessage
  <2> DEFINE msg == Head(from)
  <2>1. /\ cpu = "read" /\ from # <<>> /\ from' = Tail(from)
        /\ UNCHANGED <<to, buffer, call, power, cycled, off>>
    BY <1>3 DEF PollMessage
  <2>2. /\ from' \in Seq(Message) /\ Len(from') <= Len(from) /\ msg \in Message /\ msg = from[1]
        /\ \A i \in 1 .. Len(from') : i + 1 \in 1 .. Len(from) /\ from'[i] = from[i + 1]
    BY <1>a, <2>1
  <2>3. \/ UNCHANGED <<cpu, result, fb>>
        \/ /\ call = "framebuffer" /\ msg.chan = 1 /\ cpu' = "up"
           /\ result' \in {"done", "fail"}
           /\ fb' = IF fb = "given" THEN "ready" ELSE fb
        \/ call # "framebuffer" /\ cpu' = "up" /\ result' = Judged /\ fb' = fb
    BY <1>3 DEF PollMessage, TakeFramebuffer, Mine, Channel
  <2>4. timeout' \in 0 .. MAILBOX_TIMEOUT
    BY <1>3, <1>a DEF PollMessage, TypeMailbox
  <2>5. result' \in {"none", "done", "other", "fail"} /\ cpu' \in {"read", "up"}
        /\ fb' \in {"unset", "null", "given", "ready"}
    BY <2>1, <2>3, JudgedIs DEF TypeMailbox
  <2>6. TypeMailbox' /\ MailTypes'
    BY <1>a, <2>1, <2>2, <2>4, <2>5 DEF TypeMailbox, MailTypes
  <2>7. Answered'
    BY <2>1, <2>3, JudgedIs DEF Answered
  <2>8. FbOnce'
    <3>1. CASE UNCHANGED <<cpu, result, fb>>
      BY <2>1, <2>2, <3>1 DEF FbOnce, Asking
    <3>2. CASE call = "framebuffer" /\ msg.chan = 1 /\ cpu' = "up"
                 /\ fb' = IF fb = "given" THEN "ready" ELSE fb
      <4>1. Asking /\ fb # "unset" /\ fb # "ready"
        BY <1>a, <2>1, <2>2, <3>2 DEF FbOnce, Asking
      <4>2. to' = <<>> /\ fb' \in {"null", "ready"}
        BY <2>1, <3>2, <4>1 DEF FbOnce, TypeMailbox
      <4> QED
        BY <2>1, <3>2, <4>2 DEF FbOnce, Asking
    <3>3. CASE call # "framebuffer" /\ cpu' = "up" /\ fb' = fb
      BY <2>1, <2>2, <3>3 DEF FbOnce, Asking
    <3> QED
      BY <2>3, <3>1, <3>2, <3>3
  <2> QED
    BY <2>6, <2>7, <2>8
<1>4. CASE Fill
  <2>1. /\ cpu = "fill" /\ cpu' = "write"
        /\ buffer' = [buffer EXCEPT !.of = call, !.value = "none"]
        /\ UNCHANGED <<to, from, fb, call, result, timeout, power, cycled, off>>
    BY <1>4 DEF Fill
  <2>2. call # "framebuffer"
    BY <2>1 DEF FbOnce
  <2>3. buffer' \in Buffer /\ buffer'.of = call /\ buffer'.value = "none"
    BY <1>a, <2>1, <2>2 DEF Buffer, TypeMailbox
  <2>4. TypeMailbox' /\ MailTypes' /\ Answered'
    BY <2>1, <2>3 DEF TypeMailbox, MailTypes, Answered
  <2>5. FbOnce'
    BY <2>1, <2>2 DEF FbOnce, Asking
  <2> QED
    BY <2>4, <2>5
<1>5. CASE Ask
  <2>1. /\ cpu = "up" /\ cpu' = "fill" /\ result' = "none"
        /\ call' \in Follows
        /\ cycled' = IF call' = "off" THEN ~power ELSE cycled
        /\ off' = IF call' = "on" THEN result ELSE off
        /\ buffer' = [buffer EXCEPT !.code = "request"]
        /\ UNCHANGED <<to, from, fb, timeout, power>>
    BY <1>5 DEF Ask
  <2>2. /\ call' \in {"on", "clock", "off"}
        /\ call' = "on" => call = "off"
    BY <2>1 DEF Follows
  <2>3. buffer' \in Buffer /\ buffer'.of = buffer.of /\ buffer'.value = buffer.value
    BY <1>a, <2>1 DEF Buffer
  <2>4. cycled' \in BOOLEAN
    BY <2>1 DEF MailTypes
  <2>5. TypeMailbox' /\ MailTypes'
    BY <2>1, <2>2, <2>3, <2>4 DEF TypeMailbox, MailTypes
  <2>6. Answered'
    BY <2>1, <2>2, <2>3 DEF Answered
  <2>7. FbOnce'
    BY <2>1, <2>2 DEF FbOnce, Asking
  <2> QED
    BY <2>5, <2>6, <2>7
<1>6. CASE Serve
  <2>1. /\ to # <<>> /\ Len(from) < Depth /\ to' = Tail(to)
        /\ UNCHANGED <<cpu, call, result, timeout, off>>
    BY <1>6 DEF Serve
  <2>2. to' \in Seq({1, 8}) /\ Len(to') <= Len(to)
    BY <1>a, <2>1
  <2>3. CASE ServeFb
    <3>1. PICK p \in {"null", "given"}, zero \in BOOLEAN :
            fb' = p /\ from' = Append(from, [chan |-> 1, zero |-> zero])
      BY <2>3 DEF ServeFb
    <3>2. Head(to) = 1 /\ UNCHANGED <<buffer, power, cycled>>
      BY <2>3 DEF ServeFb
    <3>3. from' \in Seq(Message) /\ Len(from') = Len(from) + 1
      BY <1>a, <3>1 DEF Message
    <3>4. TypeMailbox' /\ MailTypes' /\ Answered'
      BY <1>a, <2>1, <2>2, <3>1, <3>2, <3>3 DEF TypeMailbox, MailTypes, Answered
    <3>5. Asking /\ to = <<1>>
      <4>1. to \notin Seq({8})
        BY <1>a, <2>1, <3>2
      <4> QED
        BY <2>1, <4>1 DEF FbOnce
    <3>6. to' = <<>> /\ fb' \in {"null", "given"}
      BY <2>1, <3>1, <3>5
    <3> QED
      BY <2>1, <3>4, <3>5, <3>6 DEF FbOnce, Asking
  <2>4. CASE ServeProp
    <3>1. /\ Head(to) = 8 /\ fb' = fb
          /\ from' = Append(from, [chan |-> 8, zero |-> FALSE])
      BY <2>4 DEF ServeProp
    <3>2. /\ from' \in Seq(Message) /\ Len(from') = Len(from) + 1
          /\ \A i \in 1 .. Len(from') : \/ i \in 1 .. Len(from) /\ from'[i] = from[i]
                                        \/ from'[i].chan = 8
      BY <1>a, <3>1 DEF Message
    <3>3. \/ /\ buffer.of \in {"off", "on"}
             /\ power' = (buffer.of = "on") /\ cycled' = (cycled \/ ~power')
             /\ buffer' = [buffer EXCEPT !.code = "success", !.value = buffer.of]
          \/ /\ buffer.of = "clock" /\ UNCHANGED <<power, cycled>>
             /\ buffer' = [buffer EXCEPT !.code = "success", !.value = "rate"]
          \/ /\ UNCHANGED <<power, cycled>>
             /\ buffer' = [buffer EXCEPT !.code = "failure"] \/ buffer' = buffer
      BY <2>4 DEF ServeProp
    <3>4. /\ buffer' \in Buffer /\ power' \in BOOLEAN /\ cycled' \in BOOLEAN
      BY <1>a, <3>3 DEF Buffer, MailTypes
    <3>5. Answered'
      BY <1>a, <2>1, <3>3 DEF Answered, Buffer, MailTypes
    <3>6. TypeMailbox' /\ MailTypes'
      BY <1>a, <2>1, <2>2, <3>1, <3>2, <3>4 DEF TypeMailbox, MailTypes
    <3>7. FbOnce'
      <4>1. ~Asking
        BY <2>1, <3>1 DEF FbOnce
      <4>2. to' \in Seq({8})
        BY <2>1, <4>1 DEF FbOnce
      <4> QED
        BY <2>1, <3>1, <3>2, <4>1, <4>2 DEF FbOnce, Asking
    <3> QED
      BY <3>5, <3>6, <3>7
  <2> QED
    BY <1>6, <2>3, <2>4 DEF Serve
<1>7. CASE Stray
  <2>1. /\ Len(from) < Depth /\ from' = Append(from, [chan |-> 0, zero |-> TRUE])
        /\ UNCHANGED <<cpu, to, buffer, fb, call, result, timeout, power, cycled, off>>
    BY <1>7 DEF Stray
  <2>2. /\ from' \in Seq(Message) /\ Len(from') = Len(from) + 1
        /\ \A i \in 1 .. Len(from') : \/ i \in 1 .. Len(from) /\ from'[i] = from[i]
                                      \/ from'[i].chan = 0
    BY <1>a, <2>1 DEF Message
  <2> QED
    BY <1>a, <2>1, <2>2 DEF TypeMailbox, MailTypes, Answered, FbOnce, Asking
<1>8. CASE UNCHANGED mailbox
  BY <1>8 DEF mailbox, TypeMailbox, MailTypes, Answered, FbOnce, Asking
<1> QED
  BY <1>1, <1>2, <1>3, <1>4, <1>5, <1>6, <1>7, <1>8 DEF MailboxNext, Cpu

\* Every step of Console is one of the mailbox or leaves it alone.
LEMMA NextIsMail == [Next]_vars => [MailboxNext]_mailbox
BY DEF Next, Mail, ProcessPrints, KlogWrite, MayPrint, vars

\* When a power cycle is taken to have worked, the card has power, and if the
\* power-off had worked too it has been without: however late the GPU's
\* answers are, and whatever requests they answer.
THEOREM PowerCycledCorrect == Spec => []PowerCycled
<1>1. Init => MailInv
  BY MailStart DEF Init
<1>2. MailInv /\ [Next]_vars => MailInv'
  BY MailStep, NextIsMail
<1>3. MailInv => PowerCycled
  BY DEF MailInv, Answered, PowerCycled
<1> QED
  BY <1>1, <1>2, <1>3, PTL DEF Spec

-----------------------------------------------------------------------------
(***************************************************************************)
(* The cursor.  A column is at most NBCOL wherever a process may find it,  *)
(* unless init has stored it without looking since: after its letter or    *)
(* tab it is a few columns more, after its backspace it may be -1.  The    *)
(* row stays on the screen until a process moves it between init's test    *)
(* and its use (raced).                                                    *)
(***************************************************************************)
Column == /\ x <= NBCOL + 4 \/ x = W - 1
          /\ at \notin {"idle", "zero x", "draw", "erase"} => x <= NBCOL
          /\ at = "draw" => x <= NBCOL + 1
          /\ at = "erase" => x <= NBCOL \/ x = W - 1
          /\ at \in {"store x", "draw"} => reg <= NBCOL

Row == /\ ~raced => /\ y < NBLIN
                    /\ at = "load y" => y < NBLIN - 1
                    /\ at = "store y" => reg < NBLIN - 1
       /\ raced => met
       /\ met => ink = {}

\* The cells up to column cx of row cy.
Before(cx, cy) == {c \in (0 .. NBCOL - 1) \X (0 .. NBLIN - 1) : c[2] < cy \/ (c[2] = cy /\ c[1] < cx)}

\* As long as no process prints inside a character of init, what is on the
\* screen is above the cursor or to its left.
Behind ==
  ~met => /\ at \in {"test y", "scroll", "load y", "store y"} =>
               ink \subseteq Before(NBCOL, y) /\ x = 0
          /\ at \in {"idle", "zero x", "test tab", "test x", "load x", "store x"} =>
               ink \subseteq Before(x, y)
          /\ at = "draw" => ink \subseteq Before(reg, y) /\ x = reg + 1 /\ reg < NBCOL
          /\ at = "erase" => ink \subseteq Before(x + 1, y) /\ x < NBCOL
          /\ at = "store y" => reg = y
          /\ at = "store x" => reg = x
          /\ at \in {"test tab", "test x", "load x", "store x"} /\ char # "tab" => x < NBCOL
          /\ at \in {"load x", "store x"} /\ char = "back" => x > 0
          /\ at \in {"load x", "store x"} /\ char = "tab" => x + 4 < NBCOL
          /\ at = "scroll" => y = NBLIN - 1
          /\ x <= NBCOL
          /\ ~over

Shown == OnLine /\ OnlyByRace /\ (wild # {} => ~Asking)

CursorTypes ==
  /\ {x, y, reg} \subseteq 0 .. W - 1
  /\ at \in {"idle", "zero x", "test y", "scroll", "load y", "store y", "test tab",
             "test x", "load x", "store x", "draw", "erase"}
  /\ char \in Chars /\ over \in BOOLEAN
  /\ at = "test tab" => char = "tab"
  /\ at = "test x" => char = "back"

CursorInv == CursorTypes /\ Column /\ Row /\ Behind /\ Shown

-----------------------------------------------------------------------------
\* What the remainder of a small number is.
LEMMA ModSmall ==
  ASSUME NEW m \in Nat \ {0}, NEW n \in 0 .. m - 1
  PROVE  n % m = n
OBVIOUS

LEMMA ModOnce ==
  ASSUME NEW m \in Nat \ {0}, NEW n \in m .. 2 * m - 1
  PROVE  n % m = n - m
OBVIOUS

LEMMA Sizes ==
  /\ NBCOL \in Nat /\ NBLIN \in Nat /\ W \in Nat
  /\ NBCOL > 4 /\ NBLIN > 0 /\ W > NBCOL + 5 /\ W > NBLIN
BY ConsoleAssumption

\* What is on the screen is on the screen.
LEMMA InkFits ==
  ASSUME CursorInv
  PROVE  ink \subseteq (0 .. NBCOL) \X (0 .. NBLIN - 1)
<1>1. \A cx, cy : Before(cx, cy) \subseteq (0 .. NBCOL) \X (0 .. NBLIN - 1)
  BY Sizes DEF Before
<1>2. CASE met
  BY <1>2 DEF CursorInv, Row
<1>3. CASE ~met
  <2>1. \E cx, cy : ink \subseteq Before(cx, cy)
    BY <1>3 DEF CursorInv, CursorTypes, Behind
  <2> QED
    BY <1>1, <2>1
<1> QED
  BY <1>2, <1>3

\* klog.c 21-46: a scroll leaves the last row blank.
LEMMA ScrolledBefore ==
  ASSUME NEW cells, cells \subseteq Before(NBCOL, NBLIN - 1)
  PROVE  Scrolled(cells) \subseteq Before(0, NBLIN - 1)
<1>1. \A d \in cells : d \in (0 .. NBCOL - 1) \X (0 .. NBLIN - 1)
  BY DEF Before
<1>2. {d \in cells : d[1] >= NBCOL} = {}
  BY <1>1, Sizes
<1>3. \A d \in cells : d[2] > 0 => <<d[1], d[2] - 1>> \in Before(0, NBLIN - 1)
  <2> SUFFICES ASSUME NEW d \in cells, d[2] > 0
               PROVE  <<d[1], d[2] - 1>> \in Before(0, NBLIN - 1)
    OBVIOUS
  <2>1. d[1] \in 0 .. NBCOL - 1 /\ d[2] - 1 \in 0 .. NBLIN - 1 /\ d[2] - 1 < NBLIN - 1
    BY <1>1, Sizes
  <2> QED
    BY <2>1 DEF Before
<1> QED
  BY <1>2, <1>3 DEF Scrolled

\* A longer stretch of the screen holds a shorter one.
LEMMA BeforeGrows ==
  ASSUME NEW a \in Nat, NEW b \in Nat, NEW r \in Nat, a <= b
  PROVE  Before(a, r) \subseteq Before(b, r)
BY Sizes DEF Before

\* A full row is all that is before the next one.
LEMMA BeforeFull ==
  ASSUME NEW r \in Nat, NEW a \in Nat, a >= NBCOL
  PROVE  Before(a, r) = Before(0, r + 1) /\ Before(a, r) = Before(NBCOL, r)
BY Sizes DEF Before

\* The stretch to the next cell has that cell more.
LEMMA BeforeNext ==
  ASSUME NEW a \in Nat, NEW r \in Nat, a < NBCOL, r < NBLIN
  PROVE  Before(a + 1, r) = Before(a, r) \cup {<<a, r>>} /\ <<a, r>> \notin Before(a, r)
<1> USE Sizes
<1>1. <<a, r>> \in Before(a + 1, r) /\ <<a, r>> \notin Before(a, r)
  BY DEF Before
<1>2. ASSUME NEW d \in Before(a + 1, r), d \notin Before(a, r) PROVE d = <<a, r>>
  <2>1. d \in (0 .. NBCOL - 1) \X (0 .. NBLIN - 1) /\ d[2] = r /\ d[1] = a
    BY <1>2 DEF Before
  <2> QED
    BY <2>1
<1>3. Before(a, r) \subseteq Before(a + 1, r)
  BY DEF Before
<1> QED
  BY <1>1, <1>2, <1>3

Shot == [x : Nat, y : 0 .. W - 1, ink : SUBSET (Nat \X Nat), over : BOOLEAN,
         wild : SUBSET {"none", "row", "column"}]

LEMMA ShotIs ==
  /\ \A a \in Nat, b \in 0 .. W - 1, i \in SUBSET (Nat \X Nat), o \in BOOLEAN,
        w \in SUBSET {"none", "row", "column"} :
       [x |-> a, y |-> b, ink |-> i, over |-> o, wild |-> w] \in Shot
  /\ \A c \in Shot : /\ c.x \in Nat /\ c.y \in 0 .. W - 1 /\ c.ink \in SUBSET (Nat \X Nat)
                     /\ c.over \in BOOLEAN /\ c.wild \in SUBSET {"none", "row", "column"}
                     /\ c = [x |-> c.x, y |-> c.y, ink |-> c.ink, over |-> c.over, wild |-> c.wild]
BY DEF Shot

\* A new line goes to the first column of the next row, or of the last one
\* with everything above it, and touches nothing else.
LEMMA NewLineIs ==
  ASSUME NEW c \in Shot
  PROVE  /\ NewLine(c) \in Shot /\ NewLine(c).x = 0
         /\ NewLine(c).over = c.over /\ NewLine(c).wild = c.wild
         /\ c.y < NBLIN => /\ NewLine(c).y < NBLIN
                           /\ c.ink \subseteq Before(NBCOL, c.y) =>
                                NewLine(c).ink \subseteq Before(0, NewLine(c).y)
<1>1. CASE c.y = NBLIN - 1
  <2>1. NewLine(c) = [c EXCEPT !.x = 0, !.ink = Scrolled(c.ink)]
    BY <1>1 DEF NewLine
  <2>2. Scrolled(c.ink) \in SUBSET (Nat \X Nat)
    <3>1. \A d \in c.ink : d \in Nat \X Nat /\ (d[2] > 0 => <<d[1], d[2] - 1>> \in Nat \X Nat)
      BY DEF Shot
    <3> QED
      BY <3>1 DEF Scrolled
  <2> DEFINE n == NewLine(c)
  <2>3. n = [x |-> 0, y |-> c.y, ink |-> Scrolled(c.ink), over |-> c.over, wild |-> c.wild]
    BY <2>1, ShotIs
  <2>4. n \in Shot
    BY <2>2, <2>3, ShotIs
  <2>5. c.ink \subseteq Before(NBCOL, c.y) => Scrolled(c.ink) \subseteq Before(0, c.y)
    BY <1>1, ScrolledBefore
  <2> HIDE DEF n
  <2> QED
    BY <2>3, <2>4, <2>5 DEF n
<1>2. CASE c.y # NBLIN - 1
  <2>1. NewLine(c) = [c EXCEPT !.x = 0, !.y = (c.y + 1) % W]
    BY <1>2 DEF NewLine
  <2>2. c.y \in Nat /\ (c.y + 1) % W \in 0 .. W - 1
    BY Sizes DEF Shot
  <2>3. c.y < NBLIN => (c.y + 1) % W = c.y + 1 /\ c.y + 1 < NBLIN
    BY <1>2, Sizes DEF Shot
  <2>4. Before(NBCOL, c.y) = Before(0, c.y + 1)
    BY <2>2, BeforeFull, Sizes
  <2> DEFINE n == NewLine(c)
  <2>5. n = [x |-> 0, y |-> (c.y + 1) % W, ink |-> c.ink, over |-> c.over, wild |-> c.wild]
    BY <2>1, ShotIs
  <2>6. n \in Shot
    BY <2>2, <2>5, ShotIs
  <2> HIDE DEF n
  <2> QED
    BY <2>3, <2>4, <2>5, <2>6 DEF n
<1> QED
  BY <1>1, <1>2

\* The test for a full row leaves a column that has room for a character.
LEMMA WrappedIs ==
  ASSUME NEW c \in Shot
  PROVE  /\ Wrapped(c) \in Shot /\ Wrapped(c).x < NBCOL
         /\ Wrapped(c).over = c.over /\ Wrapped(c).wild = c.wild
         /\ c.y < NBLIN =>
              /\ Wrapped(c).y < NBLIN
              /\ c.ink \subseteq Before(c.x, c.y) =>
                   Wrapped(c).ink \subseteq Before(Wrapped(c).x, Wrapped(c).y)
<1>1. c.x \in Nat /\ c.y \in Nat /\ NBCOL \in Nat /\ NBCOL > 0
  BY ShotIs, Sizes
<1>2. CASE c.x >= NBCOL
  <2>1. Wrapped(c) = NewLine(c)
    BY <1>2 DEF Wrapped
  <2>2. Before(c.x, c.y) = Before(NBCOL, c.y)
    BY <1>1, <1>2, BeforeFull
  <2> QED
    BY <1>1, <2>1, <2>2, NewLineIs
<1>3. CASE c.x < NBCOL
  <2>1. Wrapped(c) = c
    BY <1>1, <1>3 DEF Wrapped
  <2> QED
    BY <1>3, <2>1
<1> QED
  BY <1>1, <1>2, <1>3

\* A character of a process on a row with room: the column stays on the
\* screen, and nothing is drawn outside or over another character if the
\* row was on it and what is drawn was behind the cursor.
LEMMA TypedIs ==
  ASSUME NEW c \in Shot, c.x < NBCOL, NEW ch \in Chars
  PROVE  LET t == Typed(c, ch)
         IN  /\ t.x \in 0 .. NBCOL /\ t.y \in 0 .. W - 1 /\ t.over \in BOOLEAN
             /\ c.wild = {} => "column" \notin t.wild
             /\ c.y < NBLIN =>
                  /\ t.y < NBLIN
                  /\ c.wild = {} /\ fb = "ready" => t.wild = {}
                  /\ c.ink \subseteq Before(c.x, c.y) => t.ink \subseteq Before(t.x, t.y)
                  /\ c.ink \subseteq Before(c.x, c.y) /\ ~c.over => ~t.over
<1> DEFINE t == Typed(c, ch)
<1>1. /\ c.x \in Nat /\ c.y \in Nat /\ c.y \in 0 .. W - 1 /\ c.over \in BOOLEAN
      /\ c = [x |-> c.x, y |-> c.y, ink |-> c.ink, over |-> c.over, wild |-> c.wild]
  BY ShotIs, Sizes
<1>2. \A col \in 0 .. NBCOL : /\ "column" \notin Outside(col, c.y)
                              /\ c.y < NBLIN /\ fb = "ready" => Outside(col, c.y) = {}
  BY <1>1, Sizes DEF Outside, Blank
<1>3. CASE ch = "newline"
  <2>1. t = NewLine(c)
    BY <1>3 DEF Typed
  <2>2. Before(c.x, c.y) \subseteq Before(NBCOL, c.y)
    BY <1>1, BeforeGrows, Sizes
  <2>3. t \in Shot /\ t.y \in 0 .. W - 1 /\ t.over \in BOOLEAN
    BY <2>1, NewLineIs, ShotIs
  <2> HIDE DEF t
  <2>4. /\ t.x = 0 /\ t.over = c.over /\ t.wild = c.wild
        /\ c.y < NBLIN => /\ t.y < NBLIN
                          /\ c.ink \subseteq Before(NBCOL, c.y) => t.ink \subseteq Before(0, t.y)
    BY <2>1, NewLineIs
  <2> QED
    BY <2>2, <2>3, <2>4, Sizes DEF t
<1>4. CASE ch = "tab"
  <2>1. CASE c.x + 4 < NBCOL
    <3>1. t = [c EXCEPT !.x = c.x + 4]
      BY <1>4, <2>1 DEF Typed
    <3>2. t = [x |-> c.x + 4, y |-> c.y, ink |-> c.ink, over |-> c.over, wild |-> c.wild]
      BY <1>1, <3>1
    <3>3. Before(c.x, c.y) \subseteq Before(c.x + 4, c.y)
      <4>1. c.x + 4 \in Nat /\ c.x <= c.x + 4
        BY <1>1
      <4> QED
        BY <1>1, <4>1, BeforeGrows
    <3> HIDE DEF t
    <3> QED
      BY <1>1, <2>1, <3>2, <3>3, Sizes DEF t
  <2>2. CASE ~(c.x + 4 < NBCOL)
    <3>1. t = c
      BY <1>4, <2>2 DEF Typed
    <3> QED
      BY <1>1, <3>1, Sizes
  <2> QED
    BY <2>1, <2>2
<1>5. CASE ch = "back"
  <2>1. CASE c.x = 0
    <3>1. t = c
      BY <1>5, <2>1 DEF Typed
    <3> QED
      BY <1>1, <3>1, Sizes
  <2>2. CASE c.x # 0
    <3> DEFINE b == c.x - 1
    <3>1. b \in Nat /\ b \in 0 .. NBCOL /\ b < NBCOL /\ b + 1 = c.x
      BY <1>1, <2>2, Sizes
    <3>2. t = [c EXCEPT !.x = c.x - 1, !.ink = c.ink \ {<<c.x - 1, c.y>>},
                        !.wild = c.wild \cup Outside(c.x - 1, c.y)]
      BY <1>5, <2>2 DEF Typed
    <3>3. t = [x |-> b, y |-> c.y, ink |-> c.ink \ {<<b, c.y>>}, over |-> c.over,
               wild |-> c.wild \cup Outside(b, c.y)]
      BY <1>1, <3>2
    <3>4. c.y < NBLIN => Before(c.x, c.y) = Before(b, c.y) \cup {<<b, c.y>>}
      BY <1>1, <3>1, BeforeNext
    <3> HIDE DEF t, b
    <3> QED
      BY <1>1, <1>2, <3>1, <3>3, <3>4, Sizes DEF t
  <2> QED
    BY <2>1, <2>2
<1>6. CASE ch = "letter"
  <2> DEFINE o == c.over \/ <<c.x, c.y>> \in c.ink
  <2>1. t = [c EXCEPT !.x = c.x + 1, !.ink = c.ink \cup {<<c.x, c.y>>},
                      !.over = o, !.wild = c.wild \cup Outside(c.x, c.y)]
    BY <1>6 DEF Typed
  <2>2. t = [x |-> c.x + 1, y |-> c.y, ink |-> c.ink \cup {<<c.x, c.y>>}, over |-> o,
             wild |-> c.wild \cup Outside(c.x, c.y)]
    BY <1>1, <2>1
  <2>3. t.x = c.x + 1 /\ t.y = c.y /\ t.wild = c.wild \cup Outside(c.x, c.y)
        /\ t.ink = c.ink \cup {<<c.x, c.y>>}
    BY <2>2
  <2>4. t.over = o /\ o \in BOOLEAN
    BY <2>2
  <2>5. c.y < NBLIN => Before(c.x + 1, c.y) = Before(c.x, c.y) \cup {<<c.x, c.y>>}
    BY <1>1, BeforeNext
  <2>6. c.y < NBLIN => <<c.x, c.y>> \notin Before(c.x, c.y)
    BY <1>1, BeforeNext
  <2>7. c.y < NBLIN /\ c.ink \subseteq Before(c.x, c.y) /\ ~c.over => ~t.over
    BY <2>4, <2>6
  <2> HIDE DEF t, o
  <2> QED
    BY <1>1, <1>2, <2>3, <2>4, <2>5, <2>7, Sizes DEF t
<1> QED
  BY <1>3, <1>4, <1>5, <1>6 DEF Chars

\* Once init_graphics is over, nothing writes framebuffer->ptr any more.
LEMMA FbKept ==
  ASSUME MailInv, [MailboxNext]_mailbox, ~Asking
  PROVE  ~Asking' /\ fb' = fb
<1>1. \/ UNCHANGED <<cpu, call>>
      \/ call' # "framebuffer"
      \/ cpu' = "up"
  BY DEF MailInv, FbOnce, Asking, MailboxNext, Cpu, WriteMailbox, PollEmpty, PollMessage,
         Fill, Ask, Follows, Serve, Stray, mailbox, TakeFramebuffer
<1>2. fb' = fb
  <2>1. CASE Serve
    <3>1. to # <<>> /\ to \in Seq({8})
      BY <2>1 DEF Serve, MailInv, FbOnce
    <3>2. Head(to) = 8
      BY <3>1
    <3> QED
      BY <2>1, <3>2 DEF Serve, ServeFb, ServeProp
  <2>2. CASE PollMessage
    BY <2>2 DEF PollMessage, Asking
  <2> QED
    BY <2>1, <2>2
       DEF MailboxNext, Cpu, WriteMailbox, PollEmpty, Fill, Ask, Stray, mailbox, gpu
<1> QED
  BY <1>1, <1>2 DEF Asking

\* A cell at column -1 or up to NBCOL is on the screen or in its margin.
LEMMA OutsideIs ==
  ASSUME NEW col \in Nat, NEW row \in Nat, col <= NBCOL \/ col = W - 1
  PROVE  /\ "column" \notin Outside(col, row)
         /\ row < NBLIN /\ fb = "ready" => Outside(col, row) = {}
BY Sizes DEF Outside, Blank

\* A whole character of a process.
LEMMA ProcessStep ==
  ASSUME MailInv, CursorInv, ProcessPrints
  PROVE  CursorInv'
<1> USE DEF CursorInv
<1>1. PICK ch \in Chars : Become(Typed(Wrapped(Held), ch))
  BY DEF ProcessPrints
<1> DEFINE w == Wrapped(Held)
           t == Typed(w, ch)
<1>2. /\ wild = {} /\ fb \in {"null", "ready"} /\ ~Asking
      /\ UNCHANGED <<fb, cpu, call>> /\ UNCHANGED init
  BY DEF ProcessPrints, MayPrint, MailInv, FbOnce, Asking, mailbox
<1>3. /\ x \in Nat /\ y \in 0 .. W - 1 /\ y \in Nat /\ ink \in SUBSET (Nat \X Nat) /\ over \in BOOLEAN
  <2>1. x \in Nat /\ y \in 0 .. W - 1 /\ y \in Nat
    <3>1. x \in 0 .. W - 1 /\ y \in 0 .. W - 1
      BY DEF CursorTypes
    <3> QED
      BY <3>1, Sizes
  <2>2. ink \in SUBSET (Nat \X Nat)
    BY InkFits, Sizes
  <2>3. over \in BOOLEAN
    BY DEF CursorTypes
  <2> QED
    BY <2>1, <2>2, <2>3
<1>4. /\ Held \in Shot /\ Held.x = x /\ Held.y = y /\ Held.ink = ink /\ Held.over = over
      /\ Held.wild = wild
  BY <1>2, <1>3, ShotIs DEF Held
<1> HIDE DEF w, t
<1>5. /\ w \in Shot /\ w.x < NBCOL /\ w.over = over /\ w.wild = {}
      /\ y < NBLIN => /\ w.y < NBLIN
                      /\ ink \subseteq Before(x, y) => w.ink \subseteq Before(w.x, w.y)
  BY <1>2, <1>4, WrappedIs DEF w
<1>6. /\ t.x \in 0 .. NBCOL /\ t.y \in 0 .. W - 1 /\ t.over \in BOOLEAN
      /\ "column" \notin t.wild
      /\ y < NBLIN =>
           /\ t.y < NBLIN
           /\ fb = "ready" => t.wild = {}
           /\ ink \subseteq Before(x, y) => t.ink \subseteq Before(t.x, t.y)
           /\ ink \subseteq Before(x, y) /\ ~over => ~t.over
  BY <1>5, TypedIs DEF t
<1>7. /\ x' = t.x /\ y' = t.y /\ over' = t.over /\ wild' = t.wild
      /\ ink' = IF met' THEN {} ELSE t.ink
  BY <1>1 DEF Become, t, w
<1>8. /\ met \/ at # "idle" => met'
      /\ met' => met \/ at # "idle"
      /\ raced \/ (at = "load y" /\ y' # y) => raced'
      /\ raced' => raced \/ (at = "load y" /\ y' # y)
  BY DEF ProcessPrints
<1>9. UNCHANGED <<at, char, reg>>
  BY <1>2 DEF init
<1>10. CursorTypes'
  <2>1. x' \in 0 .. W - 1 /\ y' \in 0 .. W - 1
    BY <1>6, <1>7, Sizes
  <2>2. over' \in BOOLEAN
    BY <1>6, <1>7
  <2> QED
    BY <1>9, <2>1, <2>2 DEF CursorTypes
<1>11. Column'
  <2>1. x' \in Nat /\ x' <= NBCOL
    BY <1>6, <1>7, Sizes
  <2>2. at' = at /\ reg' = reg /\ reg \in 0 .. W - 1
    BY <1>9 DEF CursorTypes
  <2>3. at \in {"store x", "draw"} => reg <= NBCOL
    BY DEF Column
  <2>4. x' <= NBCOL + 4
    BY <2>1, Sizes
  <2>5. at' \in {"store x", "draw"} => reg' <= NBCOL
    BY <2>2, <2>3
  <2>6. x' <= NBCOL + 1
    BY <2>1, Sizes
  <2> QED
    BY <2>1, <2>4, <2>5, <2>6 DEF Column
<1>12. Row'
  BY <1>3, <1>6, <1>7, <1>8, <1>9, Sizes DEF Row
<1>13. Behind'
  <2>1. CASE met'
    BY <2>1 DEF Behind
  <2>2. CASE ~met'
    <3>1. ~met /\ at = "idle" /\ at' = "idle" /\ ~raced
      BY <2>2, <1>8, <1>9 DEF Row
    <3>2. y < NBLIN /\ ink \subseteq Before(x, y) /\ ~over
      BY <3>1 DEF Row, Behind
    <3>3. ink' \subseteq Before(x', y') /\ ~over' /\ x' <= NBCOL
      BY <2>2, <3>2, <1>6, <1>7, Sizes
    <3> QED
      BY <3>1, <3>3 DEF Behind
  <2> QED
    BY <2>1, <2>2
<1>14. Shown'
  <2>1. ~Asking'
    BY <1>2 DEF Asking
  <2>2. OnLine'
    BY <1>6, <1>7 DEF OnLine
  <2>3. wild' # {} => raced' \/ fb' = "null"
    <3>1. ~raced' => y < NBLIN
      BY <1>8 DEF Row
    <3> QED
      BY <1>2, <1>6, <1>7, <3>1
  <2> QED
    BY <2>1, <2>2, <2>3 DEF Shown, OnlyByRace
<1> QED
  BY <1>10, <1>11, <1>12, <1>13, <1>14

\* What init finds when it takes its next step inside klog_write.
LEMMA Loaded ==
  ASSUME MailInv, CursorInv, MayPrint
  PROVE  /\ x \in Nat /\ y \in Nat /\ reg \in Nat
         /\ x < W /\ y < W /\ reg < W
         /\ NBCOL \in Nat /\ NBLIN \in Nat /\ W \in Nat /\ W > NBCOL + 5 /\ W > NBLIN
         /\ ~raced => y < NBLIN
         /\ wild = {} /\ fb \in {"null", "ready"} /\ ~Asking
         /\ ~Asking' /\ fb' = fb
<1>1. x \in 0 .. W - 1 /\ y \in 0 .. W - 1 /\ reg \in 0 .. W - 1
  BY DEF CursorInv, CursorTypes
<1>2. wild = {} /\ cpu = "up" /\ UNCHANGED <<cpu, call, fb>>
  BY DEF MayPrint, mailbox
<1>3. ~raced => y < NBLIN
  BY DEF CursorInv, Row
<1>4. fb \in {"null", "ready"} /\ ~Asking /\ ~Asking'
  BY <1>2 DEF MailInv, FbOnce, Asking
<1> QED
  BY <1>1, <1>2, <1>3, <1>4, Sizes

\* A step of init that draws nothing.
LEMMA NothingWild ==
  ASSUME MailInv, CursorInv, MayPrint, wild' = wild
  PROVE  Shown'
BY Loaded DEF Shown, OnLine, OnlyByRace

\* Each step of init inside klog_write, between which processes may print.
LEMMA InitStep ==
  ASSUME MailInv, CursorInv, KlogWrite
  PROVE  CursorInv'
<1> USE DEF CursorInv
<1>a. MayPrint
  BY DEF KlogWrite
<1>b. /\ x \in Nat /\ y \in Nat /\ reg \in Nat
      /\ x < W /\ y < W /\ reg < W
      /\ NBCOL \in Nat /\ NBLIN \in Nat /\ W \in Nat /\ W > NBCOL + 5 /\ W > NBLIN
      /\ ~raced => y < NBLIN
      /\ wild = {} /\ fb \in {"null", "ready"} /\ ~Asking
      /\ ~Asking' /\ fb' = fb
  BY <1>a, Loaded
<1>n. /\ x \in Nat /\ y \in Nat /\ reg \in Nat
      /\ x < W /\ y < W /\ reg < W
      /\ NBCOL \in Nat /\ NBLIN \in Nat /\ W \in Nat \ {0} /\ W > NBCOL + 5 /\ W > NBLIN
      /\ NBLIN > 0 /\ NBCOL > 4
  BY <1>b, Sizes
<1>c. \A ch \in Chars : First(ch) \in {"zero x", "test tab", "test x", "load x"}
  BY DEF First, Chars
<1>1. CASE TestWrap
  <2>1. /\ at = "idle" /\ char' \in Chars /\ UNCHANGED <<x, y, ink, over, met, raced, wild, reg>>
        /\ at' = IF x >= NBCOL THEN "zero x" ELSE First(char')
    BY <1>1 DEF TestWrap, Keep, cursor, screen
  <2>2. /\ at' \in {"zero x", "test tab", "test x", "load x"}
        /\ at' # "zero x" => x < NBCOL
        /\ at' = "test tab" => char' = "tab"
        /\ at' = "test x" => char' = "back"
        /\ at' = "load x" => char' = "letter"
    <3>1. CASE x >= NBCOL
      <4>1. at' = "zero x"
        BY <2>1, <3>1
      <4> QED
        BY <4>1
    <3>2. CASE ~(x >= NBCOL)
      <4>1. at' = First(char')
        BY <2>1, <3>2
      <4>2. x < NBCOL
        BY <1>n, <3>2
      <4> QED
        BY <2>1, <4>1, <4>2 DEF First, Chars
    <3> QED
      BY <3>1, <3>2
  <2>3. CursorTypes' /\ Row'
    BY <2>1, <2>2 DEF CursorTypes, Row
  <2>4. Column'
    <3>1. x < NBCOL => x <= NBCOL
      BY <1>n
    <3> QED
      BY <2>1, <2>2, <3>1 DEF Column
  <2>5. Behind'
    BY <2>1, <2>2 DEF Behind
  <2> QED
    BY <1>a, <2>1, <2>3, <2>4, <2>5, NothingWild
<1>2. CASE ZeroX
  <2>1. /\ at = "zero x" /\ at' = "test y" /\ x' = 0
        /\ UNCHANGED <<y, ink, over, met, raced, wild, reg, char>>
    BY <1>2 DEF ZeroX, Goto, screen
  <2>z. 0 \in 0 .. W - 1 /\ 0 <= NBCOL + 4 /\ 0 <= NBCOL
    BY <1>n
  <2>2. CursorTypes' /\ Row'
    BY <2>1, <2>z DEF CursorTypes, Row
  <2>3. Column'
    BY <2>1, <2>z DEF Column
  <2>4. Behind'
    <3>1. ~met => ink \subseteq Before(NBCOL, y) /\ ~over
      <4>1. ~met => ink \subseteq Before(x, y) /\ x <= NBCOL /\ ~over
        BY <2>1 DEF Behind
      <4> QED
        BY <1>b, <4>1, BeforeGrows
    <3> QED
      BY <2>1, <2>z, <3>1 DEF Behind
  <2> QED
    BY <1>a, <2>1, <2>2, <2>3, <2>4, NothingWild
<1>3. CASE TestY
  <2>1. /\ at = "test y" /\ at' = IF y = NBLIN - 1 THEN "scroll" ELSE "load y"
        /\ UNCHANGED <<x, y, ink, over, met, raced, wild, reg, char>>
    BY <1>3 DEF TestY, Goto, Keep, cursor, screen
  <2>2. CursorTypes'
    BY <2>1 DEF CursorTypes
  <2>3. Row'
    <3>1. ~raced => y < NBLIN
      BY <1>b
    <3>2. y < NBLIN /\ y # NBLIN - 1 => y < NBLIN - 1
      BY <1>n
    <3>3. at' = "load y" => y # NBLIN - 1
      BY <2>1
    <3>4. at' = "load y" /\ ~raced => y < NBLIN - 1
      BY <3>1, <3>2, <3>3
    <3> QED
      BY <2>1, <3>4 DEF Row
  <2>4. Column'
    BY <2>1 DEF Column
  <2>5. Behind'
    BY <2>1 DEF Behind
  <2> QED
    BY <1>a, <2>1, <2>2, <2>3, <2>4, <2>5, NothingWild
<1>d. ASSUME AfterLine
      PROVE  /\ char' = char /\ at' \in {"idle", "zero x", "test tab", "test x", "load x"}
             /\ at' = "test tab" => char = "tab"
             /\ at' = "test x" => char = "back"
             /\ at' = "load x" => char = "letter"
  BY <1>d DEF AfterLine, First, CursorTypes, Chars
<1>4. CASE Scroll
  <2>1. /\ at = "scroll" /\ ink' = Scrolled(ink) /\ AfterLine
        /\ UNCHANGED <<x, y, over, met, raced, wild, reg>>
    BY <1>4 DEF Scroll, cursor
  <2>2. CursorTypes'
    BY <1>d, <2>1 DEF CursorTypes
  <2>3. Row'
    <3>1. Scrolled({}) = {}
      BY DEF Scrolled
    <3> QED
      BY <1>d, <2>1, <3>1 DEF Row
  <2>4. Column'
    <3>1. x <= NBCOL
      BY <2>1 DEF Column
    <3> QED
      BY <1>b, <1>d, <2>1, <3>1 DEF Column
  <2>5. Behind'
    <3>1. ~met => ink' \subseteq Before(x, y) /\ x = 0 /\ ~over
      BY <2>1, ScrolledBefore DEF Behind
    <3>2. ~met => x < NBCOL /\ x <= NBCOL
      BY <1>n, <3>1
    <3> QED
      BY <1>d, <2>1, <3>1, <3>2 DEF Behind
  <2> QED
    BY <1>a, <2>1, <2>2, <2>3, <2>4, <2>5, NothingWild
<1>5. CASE LoadY
  <2>1. /\ at = "load y" /\ at' = "store y" /\ reg' = y
        /\ UNCHANGED <<x, y, ink, over, met, raced, wild, char>>
    BY <1>5 DEF LoadY, Goto, Keep, cursor, screen
  <2>2. CursorTypes' /\ Row'
    BY <2>1 DEF CursorTypes, Row
  <2>3. Column' /\ Behind'
    BY <2>1 DEF Column, Behind
  <2> QED
    BY <1>a, <2>1, <2>2, <2>3, NothingWild
<1>6. CASE StoreY
  <2>1. /\ at = "store y" /\ y' = (reg + 1) % W /\ AfterLine
        /\ UNCHANGED <<x, ink, over, met, raced, wild, reg>>
    BY <1>6 DEF StoreY, screen
  <2>2. /\ y' \in 0 .. W - 1
        /\ reg + 1 < W => y' = reg + 1
    <3>1. y' = (reg + 1) % W /\ W \in Nat \ {0} /\ reg \in Nat
      BY <1>n, <2>1
    <3>2. y' \in 0 .. W - 1
      BY <3>1
    <3>3. ASSUME reg + 1 < W PROVE y' = reg + 1
      <4>1. reg + 1 \in 0 .. W - 1
        BY <3>1, <3>3
      <4> QED
        BY <3>1, <4>1, ModSmall
    <3> QED
      BY <3>2, <3>3
  <2>3. CursorTypes'
    BY <1>d, <2>1, <2>2 DEF CursorTypes
  <2>4. Row'
    <3>1. ~raced => reg < NBLIN - 1
      BY <2>1 DEF Row
    <3>2. ~raced => y' < NBLIN
      BY <1>b, <2>2, <3>1
    <3> QED
      BY <1>d, <2>1, <3>2 DEF Row
  <2>5. Column'
    <3>1. x <= NBCOL
      BY <2>1 DEF Column
    <3> QED
      BY <1>b, <1>d, <2>1, <3>1 DEF Column
  <2>6. Behind'
    <3>1. ~met => ink \subseteq Before(NBCOL, y) /\ x = 0 /\ ~over /\ reg = y /\ ~raced
      BY <2>1 DEF Behind, Row
    <3>2. ~met => Before(NBCOL, y) = Before(0, y + 1) /\ y' = y + 1
      <4>1. ~met => reg + 1 < W
        BY <1>b, <3>1
      <4> QED
        BY <1>b, <2>2, <3>1, <4>1, BeforeFull
    <3>3. ~met => ink \subseteq Before(x', y')
      BY <2>1, <3>1, <3>2
    <3>4. ~met => x < NBCOL /\ x <= NBCOL
      BY <1>n, <3>1
    <3> QED
      BY <1>d, <2>1, <3>1, <3>3, <3>4 DEF Behind
  <2> QED
    BY <1>a, <2>1, <2>3, <2>4, <2>5, <2>6, NothingWild
<1>7. CASE TestX
  <2>1. /\ at \in {"test tab", "test x"} /\ at' \in {"load x", "idle"}
        /\ at' = "load x" /\ at = "test tab" => x + 4 < NBCOL
        /\ at' = "load x" /\ at = "test x" => x > 0
        /\ UNCHANGED <<x, y, ink, over, met, raced, wild, reg, char>>
    BY <1>7 DEF TestX, Goto, Keep, cursor, screen
  <2>2. CursorTypes' /\ Row'
    BY <2>1 DEF CursorTypes, Row
  <2>3. Column'
    <3>1. x <= NBCOL
      BY <2>1 DEF Column
    <3> QED
      BY <1>b, <2>1, <3>1 DEF Column
  <2>4. Behind'
    <3>1. at = "test tab" => char = "tab"
      BY DEF CursorTypes
    <3>2. at = "test x" => char = "back"
      BY DEF CursorTypes
    <3> QED
      BY <1>b, <2>1, <3>1, <3>2 DEF Behind
  <2> QED
    BY <1>a, <2>1, <2>2, <2>3, <2>4, NothingWild
<1>8. CASE LoadX
  <2>1. /\ at = "load x" /\ at' = "store x" /\ reg' = x
        /\ UNCHANGED <<x, y, ink, over, met, raced, wild, char>>
    BY <1>8 DEF LoadX, Goto, Keep, cursor, screen
  <2>2. CursorTypes' /\ Row'
    BY <2>1 DEF CursorTypes, Row
  <2>3. Column' /\ Behind'
    BY <2>1 DEF Column, Behind
  <2> QED
    BY <1>a, <2>1, <2>2, <2>3, NothingWild
<1>9. CASE StoreX
  <2>1. /\ at = "store x" /\ x' = Moved % W
        /\ at' = CASE char = "tab" -> "idle" [] char = "back" -> "erase" [] OTHER -> "draw"
        /\ UNCHANGED <<y, ink, over, met, raced, wild, reg, char>>
    BY <1>9 DEF StoreX, Goto, screen
  <2>2. reg <= NBCOL
    BY <2>1 DEF Column
  <2>3. ~met => reg = x /\ ink \subseteq Before(x, y) /\ ~over /\ x <= NBCOL
    BY <2>1 DEF Behind
  <2>4. CASE char = "tab"
    <3>1. at' = "idle" /\ Moved = reg + 4
      BY <2>1, <2>4 DEF Moved
    <3>2. x' = reg + 4 /\ x' \in 0 .. W - 1 /\ x' <= NBCOL + 4
      <4>1. reg + 4 \in 0 .. W - 1 /\ reg + 4 <= NBCOL + 4
        BY <1>n, <2>2
      <4> QED
        BY <1>n, <2>1, <3>1, <4>1, ModSmall
    <3>3. CursorTypes' /\ Row'
      BY <2>1, <3>1, <3>2 DEF CursorTypes, Row
    <3>4. Column'
      BY <3>1, <3>2 DEF Column
    <3>5. Behind'
      <4>1. ~met => x + 4 < NBCOL
        BY <2>1, <2>4 DEF Behind
      <4>2. ~met => Before(x, y) \subseteq Before(x', y) /\ x' <= NBCOL
        BY <1>b, <2>3, <3>2, <4>1, BeforeGrows
      <4> QED
        BY <2>1, <2>3, <3>1, <4>2 DEF Behind
    <3> QED
      BY <1>a, <2>1, <3>3, <3>4, <3>5, NothingWild
  <2>5. CASE char = "back"
    <3>1. at' = "erase" /\ Moved = reg + W - 1
      BY <2>1, <2>5 DEF Moved
    <3>2. IF reg = 0 THEN x' = W - 1 ELSE x' = reg - 1
      <4> DEFINE n == reg + W - 1
      <4>1. x' = n % W /\ W \in Nat \ {0}
        BY <1>n, <2>1, <3>1
      <4>2. reg = 0 => n \in 0 .. W - 1 /\ n = W - 1
        BY <1>n
      <4>3. reg # 0 => n \in W .. 2 * W - 1 /\ n - W = reg - 1
        BY <1>n
      <4> HIDE DEF n
      <4>4. CASE reg = 0
        BY <4>1, <4>2, <4>4, ModSmall
      <4>5. CASE reg # 0
        BY <4>1, <4>3, <4>5, ModOnce
      <4> QED
        BY <4>4, <4>5
    <3>3. x' \in 0 .. W - 1 /\ (x' <= NBCOL \/ x' = W - 1)
      BY <1>b, <2>2, <3>2
    <3>4. CursorTypes' /\ Row'
      BY <2>1, <3>1, <3>3 DEF CursorTypes, Row
    <3>5. Column'
      <4>1. x' <= NBCOL + 4 \/ x' = W - 1
        BY <1>b, <3>3
      <4> QED
        BY <3>1, <3>3, <4>1 DEF Column
    <3>6. Behind'
      <4>1. ~met => x > 0 /\ x < NBCOL
        BY <2>1, <2>5 DEF Behind
      <4>2. ~met => x' + 1 = x /\ x' < NBCOL /\ x' <= NBCOL
        BY <1>b, <2>3, <3>2, <4>1
      <4> QED
        BY <2>1, <2>3, <3>1, <4>2 DEF Behind
    <3> QED
      BY <1>a, <2>1, <3>4, <3>5, <3>6, NothingWild
  <2>6. CASE char \notin {"tab", "back"}
    <3>1. at' = "draw" /\ Moved = reg + 1
      BY <2>1, <2>6 DEF Moved
    <3>2. x' = reg + 1 /\ x' \in 0 .. W - 1 /\ x' <= NBCOL + 1 /\ x' <= NBCOL + 4
      <4>1. reg + 1 \in 0 .. W - 1 /\ reg + 1 <= NBCOL + 1 /\ reg + 1 <= NBCOL + 4
        BY <1>n, <2>2
      <4> QED
        BY <1>n, <2>1, <3>1, <4>1, ModSmall
    <3>3. CursorTypes' /\ Row'
      BY <2>1, <3>1, <3>2 DEF CursorTypes, Row
    <3>4. Column'
      BY <2>1, <2>2, <3>1, <3>2 DEF Column
    <3>5. Behind'
      <4>1. ~met => x < NBCOL
        BY <2>1, <2>6 DEF Behind
      <4>2. ~met => x' <= NBCOL /\ reg < NBCOL
        BY <1>b, <2>3, <3>2, <4>1
      <4> QED
        BY <2>1, <2>3, <3>1, <3>2, <4>2 DEF Behind
    <3> QED
      BY <1>a, <2>1, <3>3, <3>4, <3>5, NothingWild
  <2> QED
    BY <2>4, <2>5, <2>6
<1>10. CASE Draw
  <2>1. /\ at = "draw" /\ at' = "idle"
        /\ over' = (over \/ <<reg, y>> \in ink)
        /\ ink' = IF met THEN {} ELSE ink \cup {<<reg, y>>}
        /\ wild' = wild \cup Outside(reg, y)
        /\ UNCHANGED <<x, y, met, raced, reg, char>>
    BY <1>10 DEF Draw, Goto, cursor
  <2>2. over' \in BOOLEAN
    BY <2>1
  <2>3. CursorTypes'
    BY <2>1, <2>2 DEF CursorTypes
  <2>4. Row'
    BY <2>1 DEF Row
  <2>5. Column'
    <3>1. x <= NBCOL + 4
      <4>1. x <= NBCOL + 1
        BY <2>1 DEF Column
      <4> QED
        BY <1>b, <4>1
    <3> QED
      BY <2>1, <3>1 DEF Column
  <2>6. Behind'
    <3>1. ~met => ink \subseteq Before(reg, y) /\ x = reg + 1 /\ reg < NBCOL /\ ~over /\ ~raced
      BY <2>1 DEF Behind, Row
    <3>2. ~met => /\ Before(reg + 1, y) = Before(reg, y) \cup {<<reg, y>>}
                  /\ <<reg, y>> \notin Before(reg, y)
      BY <1>b, <3>1, BeforeNext
    <3>3. ~met => reg + 1 <= NBCOL
      BY <1>n, <3>1
    <3>4. ~met => ink' \subseteq Before(x', y')
      BY <2>1, <3>1, <3>2
    <3>5. ~met => ~over'
      BY <2>1, <3>1, <3>2
    <3> QED
      BY <2>1, <3>1, <3>3, <3>4, <3>5 DEF Behind
  <2>7. Shown'
    <3>1. reg <= NBCOL
      BY <2>1 DEF Column
    <3>2. /\ "column" \notin Outside(reg, y)
          /\ y < NBLIN /\ fb = "ready" => Outside(reg, y) = {}
      BY <1>b, <3>1, OutsideIs
    <3> QED
      BY <1>b, <2>1, <3>2 DEF Shown, OnLine, OnlyByRace
  <2> QED
    BY <2>3, <2>4, <2>5, <2>6, <2>7
<1>11. CASE Erase
  <2>1. /\ at = "erase" /\ at' = "idle"
        /\ ink' = ink \ {<<x, y>>}
        /\ wild' = wild \cup Outside(x, y)
        /\ UNCHANGED <<x, y, over, met, raced, reg, char>>
    BY <1>11 DEF Erase, Goto, cursor
  <2>2. CursorTypes' /\ Row'
    BY <2>1 DEF CursorTypes, Row
  <2>3. x <= NBCOL \/ x = W - 1
    BY <2>1 DEF Column
  <2>4. Column'
    <3>1. x <= NBCOL + 4 \/ x = W - 1
      BY <1>b, <2>3
    <3> QED
      BY <2>1, <3>1 DEF Column
  <2>5. Behind'
    <3>1. ~met => ink \subseteq Before(x + 1, y) /\ x < NBCOL /\ ~over /\ ~raced
      BY <2>1 DEF Behind, Row
    <3>2. ~met => Before(x + 1, y) = Before(x, y) \cup {<<x, y>>}
      BY <1>b, <3>1, BeforeNext
    <3>3. ~met => ink' \subseteq Before(x', y') /\ ~over' /\ x' <= NBCOL
      BY <1>b, <2>1, <3>1, <3>2
    <3> QED
      BY <2>1, <3>3 DEF Behind
  <2>6. Shown'
    <3>1. /\ "column" \notin Outside(x, y)
          /\ y < NBLIN /\ fb = "ready" => Outside(x, y) = {}
      BY <1>b, <2>3, OutsideIs
    <3> QED
      BY <1>b, <2>1, <3>1 DEF Shown, OnLine, OnlyByRace
  <2> QED
    BY <2>2, <2>4, <2>5, <2>6
<1> QED
  BY <1>1, <1>2, <1>3, <1>4, <1>5, <1>6, <1>7, <1>8, <1>9, <1>10, <1>11 DEF KlogWrite

ConsoleInv == MailInv /\ CursorInv

LEMMA ConsoleStart == Init => ConsoleInv
<1> SUFFICES ASSUME Init PROVE ConsoleInv
  OBVIOUS
<1>1. MailInv
  BY MailStart DEF Init
<1>2. CursorTypes
  <2>1. 0 \in 0 .. W - 1
    BY Sizes
  <2>2. x = 0 /\ y = 0 /\ reg = 0 /\ at = "idle" /\ char = "letter" /\ over = FALSE
    BY DEF Init
  <2>3. over \in BOOLEAN
    BY <2>2
  <2> QED
    BY <2>1, <2>2, <2>3 DEF CursorTypes, Chars
<1>3. Column /\ Row
  BY Sizes DEF Init, Column, Row
<1>4. Behind /\ Shown
  BY Sizes DEF Init, Behind, Shown, OnLine, OnlyByRace
<1> QED
  BY <1>1, <1>2, <1>3, <1>4 DEF ConsoleInv, CursorInv

LEMMA ConsoleStep == ConsoleInv /\ [Next]_vars => ConsoleInv'
<1> SUFFICES ASSUME ConsoleInv, [Next]_vars PROVE ConsoleInv'
  OBVIOUS
<1> USE DEF ConsoleInv
<1>1. MailInv'
  BY MailStep, NextIsMail
<1>2. CASE Mail \/ UNCHANGED vars
  <2>1. UNCHANGED <<x, y, at, char, wrapping, reg, ink, over, met, raced, wild>>
    BY <1>2 DEF Mail, vars, cursor, screen, init
  <2>2. ~Asking => ~Asking' /\ fb' = fb
    BY FbKept, NextIsMail
  <2>3. CursorTypes' /\ Column' /\ Row'
    <3>1. CursorTypes'
      BY <2>1 DEF CursorInv, CursorTypes
    <3>2. Column'
      BY <2>1 DEF CursorInv, Column
    <3>3. Row'
      BY <2>1 DEF CursorInv, Row
    <3> QED
      BY <3>1, <3>2, <3>3
  <2>4. Behind'
    BY <2>1 DEF CursorInv, Behind
  <2>5. Shown'
    BY <2>1, <2>2 DEF CursorInv, Shown, OnLine, OnlyByRace
  <2> QED
    BY <1>1, <2>3, <2>4, <2>5 DEF CursorInv
<1> QED
  BY <1>1, <1>2, ProcessStep, InitStep DEF Next

\* The mailbox and the cursor keep their types, and only cells of the screen
\* are drawn on: also after a race has moved the cursor off its last row.
THEOREM ConsoleTypeCorrect == Spec => []TypeOK
<1>1. ConsoleInv => TypeOK
  BY InkFits DEF ConsoleInv, MailInv, CursorInv, CursorTypes, TypeOK
<1> QED
  BY ConsoleStart, ConsoleStep, <1>1, PTL DEF Spec

\* However the characters of processes fall between init's loads and stores of
\* the cursor, none is drawn right of the screen, whatever its size.
THEOREM OnLineCorrect == Spec => []OnLine
<1>1. ConsoleInv => OnLine
  BY DEF ConsoleInv, CursorInv, Shown
<1> QED
  BY ConsoleStart, ConsoleStep, <1>1, PTL DEF Spec

\* The one interleaving that draws below it is a process's new line between
\* init's test of the row and its load of it.
THEOREM OnlyByRaceCorrect == Spec => []OnlyByRace
<1>1. ConsoleInv => OnlyByRace
  BY DEF ConsoleInv, CursorInv, Shown
<1> QED
  BY ConsoleStart, ConsoleStep, <1>1, PTL DEF Spec

\* As long as no process prints inside a character of init, nothing is drawn
\* over another character.
THEOREM NoOverdrawCorrect == Spec => []NoOverdraw
<1>1. ConsoleInv => NoOverdraw
  BY DEF ConsoleInv, CursorInv, CursorTypes, Behind, NoOverdraw
<1> QED
  BY ConsoleStart, ConsoleStep, <1>1, PTL DEF Spec
=============================================================================
