------------------------------- MODULE Console -------------------------------
(***************************************************************************)
(* The kernel log on the screen, src/src/klog.c, which init prints to with *)
(* IRQs unmasked and every process through write(2) on the console.  They  *)
(* share one cursor.  A process prints inside a system call, so a whole    *)
(* character of its is one step; init may be preempted by processes at     *)
(* every access of the cursor.  The screen is what init_graphics got over  *)
(* the mailbox.                                                            *)
(***************************************************************************)
EXTENDS Mailbox, FiniteSets

CONSTANTS
  NBCOL, NBLIN,  \* the size of the screen in characters
  W              \* the cursor counts modulo W

ASSUME ConsoleAssumption ==
  /\ {NBCOL, NBLIN, W} \subseteq Nat \ {0} /\ NBCOL > 4 /\ W > NBCOL + 5 /\ W > NBLIN

VARIABLES
  x, y,      \* the cursor
  at,        \* where init is in klog_write: see TypeOK
  char,      \* the character it prints
  wrapping,  \* the new line is because the row is full
  reg,       \* what it has loaded of the cursor
  ink,       \* the cells of the screen that are not blank
  printed,   \* somebody has printed
  met,       \* a process has printed inside a character of init
  over,      \* a character has been drawn over another
  raced,     \* one has moved the row between init's test of it and its use
  wild       \* pixels outside the framebuffer: over the "row" or "column", or without one

cursor == <<x, y>>
screen == <<ink, over, met, raced, wild>>
init == <<at, char, wrapping, reg>>
vars == <<mailbox, cursor, screen, init, printed>>

Chars == {"letter", "newline", "tab", "back"}

Init ==
  /\ MailboxInit
  /\ x = 0 /\ y = 0                      \* init_klog clears the screen
  /\ at = "idle" /\ char = "letter" /\ wrapping = FALSE /\ reg = 0
  /\ ink = {} /\ printed = FALSE /\ over = FALSE
  /\ met = FALSE /\ raced = FALSE /\ wild = {}

-----------------------------------------------------------------------------
\* The screen is some pixels wider than NBCOL characters: column NBCOL is on
\* it, and a column of -1 is in the margin.
Blank(col) == col = W - 1
Outside(col, row) ==
  (IF fb # "ready" THEN {"none"} ELSE {})
    \cup (IF row >= NBLIN THEN {"row"} ELSE {})
    \cup (IF col > NBCOL /\ ~Blank(col) THEN {"column"} ELSE {})

\* Variant of Scrolled: the last row is copied and not cleared.
ScrolledNotCleared(cells) ==
  {<<c[1], c[2] - 1>> : c \in {d \in cells : d[1] < NBCOL /\ d[2] > 0}}
    \cup {d \in cells : d[1] >= NBCOL \/ d[2] = NBLIN - 1}

\* scroll: column NBCOL stays where it is.
Scrolled(cells) ==
  {<<c[1], c[2] - 1>> : c \in {d \in cells : d[1] < NBCOL /\ d[2] > 0}}
    \cup {d \in cells : d[1] >= NBCOL}

\* What one character of a process does to cursor and screen, held in c.
NewLine(c) ==
  IF c.y = NBLIN - 1 THEN [c EXCEPT !.x = 0, !.ink = Scrolled(@)]
  ELSE [c EXCEPT !.x = 0, !.y = (@ + 1) % W]

\* Variant of Wrapped: the test comes two columns late.
WrappedLate(c) == IF c.x > NBCOL + 1 THEN NewLine(c) ELSE c

Wrapped(c) == IF c.x >= NBCOL THEN NewLine(c) ELSE c

Typed(c, ch) ==
  CASE ch = "newline" -> NewLine(c)
    [] ch = "tab" -> IF c.x + 4 < NBCOL THEN [c EXCEPT !.x = @ + 4] ELSE c
    [] ch = "back" -> IF c.x = 0 THEN c
                      ELSE [c EXCEPT !.x = @ - 1, !.ink = @ \ {<<c.x - 1, c.y>>},
                                     !.wild = @ \cup Outside(c.x - 1, c.y)]
    [] ch = "letter" -> [c EXCEPT !.x = @ + 1, !.ink = @ \cup {<<c.x, c.y>>},
                                  !.over = @ \/ <<c.x, c.y>> \in c.ink,
                                  !.wild = @ \cup Outside(c.x, c.y)]

Held == [x |-> x, y |-> y, ink |-> ink, over |-> over, wild |-> wild]

\* Cells are followed only until a process prints inside a character of init.
Become(c) ==
  /\ x' = c.x /\ y' = c.y
  /\ over' = c.over /\ wild' = c.wild
  /\ ink' = IF met' THEN {} ELSE c.ink

\* init_graphics is over, whatever it returned, and no pixel has gone astray.
MayPrint == /\ cpu = "up" /\ asked = 0 /\ wild = {}
            /\ printed' = TRUE /\ UNCHANGED mailbox

\* sys_write of a process: one character.
ProcessPrints ==
  /\ MayPrint
  /\ met' = (met \/ at # "idle")
  /\ \E ch \in Chars : Become(Typed(Wrapped(Held), ch))
  /\ raced' = (raced \/ (at = "load y" /\ y' # y))
  /\ UNCHANGED init

-----------------------------------------------------------------------------
\* klog_write of init, one access of the cursor a step: it is compiled without
\* optimisation.  The scroll, which does not move the cursor, is one step.

Goto(where) == at' = where /\ UNCHANGED <<char, wrapping>>
Keep == UNCHANGED <<cursor, screen>>

\* The switch on the character.
First(ch) == CASE ch = "newline" -> "zero x" [] ch = "tab" -> "test tab"
               [] ch = "back" -> "test x" [] ch = "letter" -> "load x"

TestWrap ==
  /\ at = "idle"
  /\ \E ch \in Chars :
       /\ char' = ch
       /\ wrapping' = (x >= NBCOL)
       /\ at' = IF x >= NBCOL THEN "zero x" ELSE First(ch)
  /\ Keep /\ UNCHANGED reg

ZeroX ==
  /\ at = "zero x"
  /\ x' = 0 /\ Goto("test y")
  /\ UNCHANGED <<y, screen, reg>>

AfterLine ==
  /\ wrapping' = FALSE
  /\ at' = IF wrapping THEN First(char) ELSE "idle"
  /\ UNCHANGED char

TestY ==
  /\ at = "test y"
  /\ Goto(IF y = NBLIN - 1 THEN "scroll" ELSE "load y")
  /\ Keep /\ UNCHANGED reg

Scroll ==
  /\ at = "scroll"
  /\ ink' = Scrolled(ink) /\ AfterLine
  /\ UNCHANGED <<cursor, over, met, raced, wild, reg>>

LoadY ==
  /\ at = "load y"
  /\ reg' = y /\ Goto("store y")
  /\ Keep

StoreY ==
  /\ at = "store y"
  /\ y' = (reg + 1) % W /\ AfterLine
  /\ UNCHANGED <<x, screen, reg>>

\* '\t' and '\b' test x before they load it again to move it.
TestX ==
  /\ at \in {"test tab", "test x"}
  /\ Goto(IF (at = "test tab" /\ x + 4 < NBCOL) \/ (at = "test x" /\ x > 0)
            THEN "load x" ELSE "idle")
  /\ Keep /\ UNCHANGED reg

LoadX ==
  /\ at = "load x"
  /\ reg' = x /\ Goto("store x")
  /\ Keep

Moved == CASE char = "tab" -> reg + 4 [] char = "back" -> reg + W - 1 [] OTHER -> reg + 1

StoreX ==
  /\ at = "store x"
  /\ x' = Moved % W
  /\ Goto(CASE char = "tab" -> "idle" [] char = "back" -> "erase" [] OTHER -> "draw")
  /\ UNCHANGED <<y, screen, reg>>

\* The cell is the one that was loaded, in the row that is current now.
Draw ==
  /\ at = "draw"
  /\ over' = (over \/ <<reg, y>> \in ink)
  /\ ink' = IF met THEN {} ELSE ink \cup {<<reg, y>>}
  /\ wild' = wild \cup Outside(reg, y)
  /\ Goto("idle")
  /\ UNCHANGED <<cursor, met, raced, reg>>

\* clear_char takes the cursor anew.
Erase ==
  /\ at = "erase"
  /\ ink' = ink \ {<<x, y>>}
  /\ wild' = wild \cup Outside(x, y)
  /\ Goto("idle")
  /\ UNCHANGED <<cursor, over, met, raced, reg>>

KlogWrite ==
  /\ MayPrint
  /\ \/ TestWrap \/ ZeroX \/ TestY \/ Scroll \/ LoadY \/ StoreY
     \/ TestX \/ LoadX \/ StoreX \/ Draw \/ Erase

\* The card's power and clock are not asked for once somebody has printed: the
\* two do not meet, and are explored one after the other.
Mail ==
  /\ MailboxNext
  /\ printed => asked' = asked
  /\ UNCHANGED <<cursor, screen, init, printed>>

Next == Mail \/ ProcessPrints \/ KlogWrite

Spec == Init /\ [][Next]_vars /\ WF_vars(Cpu /\ UNCHANGED <<cursor, screen, init, printed>>)

(***************************************************************************)
(*                             Properties                                  *)
(***************************************************************************)

TypeOK ==
  /\ TypeMailbox
  /\ {x, y, reg} \subseteq 0 .. W - 1
  /\ at \in {"idle", "zero x", "test y", "scroll", "load y", "store y", "test tab",
             "test x", "load x", "store x", "draw", "erase"}
  /\ char \in Chars
  /\ ink \subseteq (0 .. NBCOL) \X (0 .. NBLIN - 1)

\* klog.c 51-84: the column stays on the screen, however init's steps on the
\* cursor and the characters of processes are interleaved.
OnLine == "column" \notin wild

\* klog.c 54-57, 64-67, main.c 61: pixels are written outside the framebuffer
\* only after a process has printed a new line between init's test of the row and
\* its increment, or when there is no framebuffer, which k_start does not ask.
OnlyByRace == wild # {} => raced \/ fb = "null"

\* klog.c 51-84: no character is drawn over another, as long as no process prints
\* in the middle of a character of init.
NoOverdraw == over => met
=============================================================================
