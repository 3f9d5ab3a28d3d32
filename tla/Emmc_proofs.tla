---------------------------- MODULE Emmc_proofs ----------------------------
(***************************************************************************)
(* Proofs for Emmc, for a card of any size, any number of retries and any  *)
(* number of faults, and that it implements BlockDevice.                   *)
(***************************************************************************)
EXTENDS MCEmmc, Integers, TLAPS

(***************************************************************************)
(* Where the driver is.                                                    *)
(***************************************************************************)
\* card_init before it has reset the card, until it has read its capacity,
\* until the card has an address, and with an address.
Early == {"GO_IDLE_STATE", "SEND_IF_COND", "IO_SET_OP_COND", "OCR_INQUIRY", "SD_SEND_OP_COND"}
Middle == {"VOLTAGE_SWITCH", "ALL_SEND_CID", "SEND_RELATIVE_ADDR"}
Late == {"SELECT_CARD_INIT", "SET_BLOCKLEN", "SEND_SCR", "SET_BUS_WIDTH", "initialised"}
InCardInit == {"reset"} \cup Early \cup Middle \cup Late

\* A request with a card that is taken to be initialised.
Ensuring == {"SEND_STATUS", "SELECT_CARD", "STOP_TRANSMISSION", "recheck"}
Transferring == {"transfer", "block"}
InRequest == Ensuring \cup Transferring

(***************************************************************************)
(* What holds whatever goes wrong.                                         *)
(***************************************************************************)
Booting == at \in InCardInit /\ back = "boot"

\* The request in progress fits the card, and there is none elsewhere.
Requests ==
  /\ at \in {"requests", "off", "wild", "stuck"} \cup InCardInit \cup InRequest
  /\ req.blk + req.n <= Blocks
  /\ at \in {"requests", "off"} \/ Booting => req = NoReq /\ buf = Blank /\ pos = 0 /\ try = 0
  /\ at \in InRequest \cup InCardInit /\ ~Booting => req.op # "none" /\ out = "none"
  /\ at \in Transferring => req.n > 0
  /\ Booting => out = "none"
  /\ at \in InCardInit \cup Ensuring => pos = 0 /\ try = 0

\* The device exists from the end of the boot until a card_init frees it.
Device ==
  /\ Booting => bd = "null" /\ quiet = 0
  /\ at \in InRequest \cup InCardInit /\ ~Booting => bd = "dev"
  /\ at \in {"requests", "wild"} /\ bd = "null" => slot = "local"

\* The card has the address the driver has, and the capacity the driver takes
\* it to have, unless it is another one, which is then not addressed at all.
Capacity ==
  /\ at \in Early \cup Middle => ~rca
  /\ at \in InRequest \cup Late => rca
  /\ rca /\ card.st \in Addressed => hc = card.hc
  /\ at \in Middle /\ card.st \notin {"idle", "waking"} /\ ~irq /\ ~removal => hc = card.hc
  /\ card.hc => card.v2

(***************************************************************************)
(* What holds as long as nothing goes wrong.                               *)
(***************************************************************************)
Sane == card.in /\ ~irq /\ ~removal /\ rca /\ hc = card.hc
Good == Sane /\ wide = card.wide /\ card.st \in {"tran", "data", "rcv"}

\* Whether the requests since the last fault include one that was looked at.
Second == quiet = 2 \/ req.n = 0

\* The state that a card is in when card_init has come to a command.
Expected ==
  /\ at \in {"SEND_IF_COND", "IO_SET_OP_COND", "OCR_INQUIRY"} => card.st = "idle"
  /\ at = "SD_SEND_OP_COND" => card.st \in {"idle", "waking"}
  /\ at \in {"VOLTAGE_SWITCH", "ALL_SEND_CID"} => card.st = "ready"
  /\ at = "SEND_RELATIVE_ADDR" => card.st = "ident"
  /\ at = "SELECT_CARD_INIT" => card.st = "stby"
  /\ at \in {"SET_BLOCKLEN", "SEND_SCR", "SET_BUS_WIDTH", "initialised"} => card.st = "tran"

Quiet ==
  quiet > 0 =>
    /\ at = "requests" /\ rca => Good
    /\ at = "reset" /\ rca => card.in
    /\ at \in InCardInit \ {"reset"} =>
         /\ card.in /\ ~irq /\ ~removal /\ Expected
         /\ IF at = "GO_IDLE_STATE" THEN ~wide ELSE wide = card.wide
    /\ at \in {"IO_SET_OP_COND", "OCR_INQUIRY", "SD_SEND_OP_COND"} => v2 = card.v2
    /\ at \in Middle \cup Late => hc = card.hc
    /\ at = "SEND_STATUS" /\ Second => Good
    /\ at \in InRequest \ {"SEND_STATUS"} => Sane /\ (Second => wide = card.wide)
    /\ at = "SELECT_CARD" => card.st = "stby"
    /\ at = "STOP_TRANSMISSION" => card.st = "data"
    /\ at = "recheck" => card.st = "tran"
    /\ at = "transfer" => card.st \in {"tran", "data", "rcv"} /\ (Second => card.st = "tran")
    /\ at = "block" => /\ pos < req.n => card.st \in {"data", "rcv"}
                       /\ pos = req.n => card.st \in {"tran", "data", "rcv"}
                       /\ pos > 0 => wide = card.wide

EmmcInv == TypeOK /\ Requests /\ Device /\ Capacity /\ Quiet

-----------------------------------------------------------------------------
(***************************************************************************)
(* The commands.                                                           *)
(***************************************************************************)
LEMMA StepsIs ==
  \A s, t :
    /\ <<"GO_IDLE_STATE", s, t>> \in CardSteps <=> s \in CardStates /\ t = "idle"
    /\ <<"SEND_STATUS", s, t>> \in CardSteps <=> s \in Addressed /\ t = s
    /\ <<"STOP_TRANSMISSION", s, t>> \in CardSteps <=> s \in {"data", "rcv"} /\ t = "tran"
    /\ <<"DESELECT_CARD", s, t>> \in CardSteps <=> s \in {"stby", "tran", "data"} /\ t = "stby"
    /\ <<"READ_BLOCKS", s, t>> \in CardSteps <=> s = "tran" /\ t = "data"
    /\ <<"WRITE_BLOCKS", s, t>> \in CardSteps <=> s = "tran" /\ t = "rcv"
    /\ <<"SEND_IF_COND", s, t>> \in CardSteps <=> s = "idle" /\ t = "idle"
    /\ <<"OCR_INQUIRY", s, t>> \in CardSteps <=> s = "idle" /\ t = "idle"
    /\ <<"SD_SEND_OP_COND", s, t>> \in CardSteps <=>
         s \in {"idle", "waking"} /\ t \in {"waking", "ready"}
    /\ <<"VOLTAGE_SWITCH", s, t>> \in CardSteps <=> s = "ready" /\ t = "ready"
    /\ <<"ALL_SEND_CID", s, t>> \in CardSteps <=> s = "ready" /\ t = "ident"
    /\ <<"SEND_RELATIVE_ADDR", s, t>> \in CardSteps <=> s = "ident" /\ t = "stby"
    /\ <<"SELECT_CARD", s, t>> \in CardSteps <=> s = "stby" /\ t = "tran"
    /\ <<"SET_BLOCKLEN", s, t>> \in CardSteps <=> s = "tran" /\ t = "tran"
    /\ <<"SEND_SCR", s, t>> \in CardSteps <=> s = "tran" /\ t = "tran"
    /\ <<"SET_BUS_WIDTH", s, t>> \in CardSteps <=> s = "tran" /\ t = "tran"
    /\ <<"IO_SET_OP_COND", s, t>> \notin CardSteps
BY DEF CardSteps, CardStates, Addressed

LEMMA StepLeads ==
  \A c, s, t : <<c, s, t>> \in CardSteps =>
    /\ c = "GO_IDLE_STATE" => t = "idle"
    /\ c = "SEND_STATUS" => s \in Addressed /\ t = s
    /\ c = "STOP_TRANSMISSION" => s \in {"data", "rcv"} /\ t = "tran"
    /\ c = "DESELECT_CARD" => s \in {"stby", "tran", "data"} /\ t = "stby"
    /\ c = "READ_BLOCKS" => s = "tran" /\ t = "data"
    /\ c = "WRITE_BLOCKS" => s = "tran" /\ t = "rcv"
    /\ c \in {"SEND_IF_COND", "OCR_INQUIRY"} => s = "idle" /\ t = "idle"
    /\ c = "SD_SEND_OP_COND" => s \in {"idle", "waking"} /\ t \in {"waking", "ready"}
    /\ c = "VOLTAGE_SWITCH" => s = "ready" /\ t = "ready"
    /\ c = "ALL_SEND_CID" => s = "ready" /\ t = "ident"
    /\ c = "SEND_RELATIVE_ADDR" => s = "ident" /\ t = "stby"
    /\ c = "SELECT_CARD" => s = "stby" /\ t = "tran"
    /\ c \in {"SET_BLOCKLEN", "SEND_SCR", "SET_BUS_WIDTH"} => s = "tran" /\ t = "tran"
BY DEF CardSteps, CardStates, Addressed

LEMMA StepsTyped == \A t \in CardSteps : t = <<t[1], t[2], t[3]>> /\ t[3] \in CardStates
BY DEF CardSteps, CardStates, Addressed

LEMMA CommandsIs ==
  Commands = {"GO_IDLE_STATE", "SEND_STATUS", "STOP_TRANSMISSION", "DESELECT_CARD", "READ_BLOCKS",
              "WRITE_BLOCKS", "SEND_IF_COND", "OCR_INQUIRY", "SD_SEND_OP_COND", "VOLTAGE_SWITCH",
              "ALL_SEND_CID", "SEND_RELATIVE_ADDR", "SELECT_CARD", "SET_BLOCKLEN", "SEND_SCR",
              "SET_BUS_WIDTH", "IO_SET_OP_COND"}
<1> DEFINE C == {"GO_IDLE_STATE", "SEND_STATUS", "STOP_TRANSMISSION", "DESELECT_CARD", "READ_BLOCKS",
              "WRITE_BLOCKS", "SEND_IF_COND", "OCR_INQUIRY", "SD_SEND_OP_COND", "VOLTAGE_SWITCH",
              "ALL_SEND_CID", "SEND_RELATIVE_ADDR", "SELECT_CARD", "SET_BLOCKLEN", "SEND_SCR",
              "SET_BUS_WIDTH"}
<1>1. \A t \in CardSteps : t[1] \in C
  BY DEF CardSteps, CardStates, Addressed
<1>2. \A c \in C : \E t \in CardSteps : t[1] = c
  <2>1. /\ <<"GO_IDLE_STATE", "idle", "idle">> \in CardSteps
        /\ <<"SEND_STATUS", "tran", "tran">> \in CardSteps
        /\ <<"STOP_TRANSMISSION", "data", "tran">> \in CardSteps
        /\ <<"DESELECT_CARD", "stby", "stby">> \in CardSteps
        /\ <<"READ_BLOCKS", "tran", "data">> \in CardSteps
        /\ <<"WRITE_BLOCKS", "tran", "rcv">> \in CardSteps
        /\ <<"SEND_IF_COND", "idle", "idle">> \in CardSteps
        /\ <<"OCR_INQUIRY", "idle", "idle">> \in CardSteps
        /\ <<"SD_SEND_OP_COND", "idle", "waking">> \in CardSteps
        /\ <<"VOLTAGE_SWITCH", "ready", "ready">> \in CardSteps
        /\ <<"ALL_SEND_CID", "ready", "ident">> \in CardSteps
        /\ <<"SEND_RELATIVE_ADDR", "ident", "stby">> \in CardSteps
        /\ <<"SELECT_CARD", "stby", "tran">> \in CardSteps
        /\ <<"SET_BLOCKLEN", "tran", "tran">> \in CardSteps
        /\ <<"SEND_SCR", "tran", "tran">> \in CardSteps
        /\ <<"SET_BUS_WIDTH", "tran", "tran">> \in CardSteps
    BY DEF CardSteps, CardStates, Addressed
  <2> QED
    BY <2>1
<1> QED
  BY <1>1, <1>2 DEF Commands

\* What a card may answer.
LEMMA AfterIs ==
  ASSUME NEW c
  PROVE  /\ \A s \in After(c) :
              \/ card.in /\ <<c, card.st, s>> \in CardSteps
              \/ c = "GO_IDLE_STATE" /\ ~card.in /\ s = card.st
              \/ c = "SD_SEND_OP_COND" /\ card.in /\ card.hc /\ ~v2 /\ s = card.st
                   /\ \E t : <<c, card.st, t>> \in CardSteps
         /\ card.in /\ c # "SD_SEND_OP_COND" /\ (c = "SEND_IF_COND" => card.v2) =>
              \A s : <<c, card.st, s>> \in CardSteps => s \in After(c)
         /\ card.in /\ c = "SD_SEND_OP_COND" /\ (card.hc => v2) =>
              \A s : <<c, card.st, s>> \in CardSteps => s \in After(c)
<1> DEFINE next == {t[3] : t \in {t \in CardSteps : t[1] = c /\ t[2] = card.st}}
<1>1. \A s : s \in next <=> <<c, card.st, s>> \in CardSteps
  <2>1. \A s : <<c, card.st, s>> \in CardSteps => s \in next
    OBVIOUS
  <2>2. \A s : s \in next => <<c, card.st, s>> \in CardSteps
    BY StepsTyped
  <2> QED
    BY <2>1, <2>2
<1> HIDE DEF next
<1>2. After(c) = CASE ~card.in /\ c = "GO_IDLE_STATE" -> {card.st}
                   [] ~card.in /\ c # "GO_IDLE_STATE" -> {}
                   [] card.in /\ c = "SEND_IF_COND" /\ ~card.v2 -> {}
                   [] card.in /\ c = "SD_SEND_OP_COND" /\ card.hc /\ ~v2 /\ next # {} -> {card.st}
                   [] OTHER -> next
  BY DEF After, next
<1>3. \/ ~card.in /\ c = "GO_IDLE_STATE" /\ After(c) = {card.st}
      \/ ~card.in /\ After(c) = {}
      \/ card.in /\ c = "SEND_IF_COND" /\ ~card.v2 /\ After(c) = {}
      \/ /\ card.in /\ c = "SD_SEND_OP_COND" /\ card.hc /\ ~v2 /\ next # {}
         /\ After(c) = {card.st}
      \/ /\ card.in /\ ~(c = "SEND_IF_COND" /\ ~card.v2)
         /\ ~(c = "SD_SEND_OP_COND" /\ card.hc /\ ~v2 /\ next # {})
         /\ After(c) = next
  BY <1>2
<1>4. next # {} => \E t : <<c, card.st, t>> \in CardSteps
  BY <1>1
<1> QED
  BY <1>1, <1>3, <1>4

(***************************************************************************)
(* What a command leaves behind.                                           *)
(***************************************************************************)
Card == [in : BOOLEAN, st : CardStates, wide : BOOLEAN, v2 : BOOLEAN, hc : BOOLEAN,
         s18 : BOOLEAN, data : Data]

\* The fields of a card, and what is left of them when some are changed.
LEMMA CardFields ==
  ASSUME NEW c \in Card
  PROVE  /\ c.in \in BOOLEAN /\ c.st \in CardStates /\ c.wide \in BOOLEAN /\ c.v2 \in BOOLEAN
         /\ c.hc \in BOOLEAN /\ c.s18 \in BOOLEAN /\ c.data \in Data
BY Zenon DEF Card

LEMMA CardClosed ==
  ASSUME NEW c \in Card, NEW s \in CardStates
  PROVE  LET d == [c EXCEPT !.st = s]
         IN  /\ d \in Card /\ d.st = s /\ d.wide = c.wide
             /\ d.in = c.in /\ d.v2 = c.v2 /\ d.hc = c.hc /\ d.s18 = c.s18 /\ d.data = c.data
BY DEF Card

LEMMA CardRemoved ==
  ASSUME NEW c \in Card
  PROVE  LET d == [c EXCEPT !.in = FALSE]
         IN  /\ d \in Card /\ d.in = FALSE /\ d.st = c.st /\ d.wide = c.wide
             /\ d.v2 = c.v2 /\ d.hc = c.hc /\ d.s18 = c.s18 /\ d.data = c.data
BY DEF Card

LEMMA CardWritten ==
  ASSUME NEW c \in Card, NEW b \in Block, NEW v \in Value
  PROVE  LET d == [c EXCEPT !.data[b] = v]
         IN  /\ d \in Card /\ d.st = c.st /\ d.wide = c.wide
             /\ d.in = c.in /\ d.v2 = c.v2 /\ d.hc = c.hc /\ d.s18 = c.s18
             /\ d.data = [c.data EXCEPT ![b] = v]
BY DEF Card, Data

\* The card is the same one, and holds the same.
SameKind == /\ card' \in Card /\ card'.in = card.in /\ card'.v2 = card.v2 /\ card'.hc = card.hc
            /\ card'.s18 = card.s18
SameCard == SameKind /\ card'.data = card.data

LEMMA TakenIs ==
  ASSUME card \in Card, NEW c, Taken(c)
  PROVE  /\ SameCard /\ card'.wide = Width(c) /\ card'.st \in After(c)
<1>1. PICK s \in After(c) : card' = [card EXCEPT !.st = s, !.wide = Width(c)]
  BY DEF Taken
<1>2. s \in CardStates
  <2>1. card.st \in CardStates
    BY CardFields
  <2>2. s = card.st \/ <<c, card.st, s>> \in CardSteps
    BY AfterIs
  <2>3. ASSUME <<c, card.st, s>> \in CardSteps PROVE s \in CardStates
    BY <2>3, StepsTyped
  <2> QED
    BY <2>1, <2>2, <2>3
<1>3. Width(c) \in BOOLEAN
  <2>1. CASE c = "GO_IDLE_STATE"
    BY <2>1, Zenon DEF Width
  <2>2. CASE c = "SET_BUS_WIDTH"
    <3>1. c # "GO_IDLE_STATE"
      BY <2>2
    <3> QED
      BY <2>2, <3>1, Zenon DEF Width
  <2>3. CASE c \notin {"GO_IDLE_STATE", "SET_BUS_WIDTH"}
    BY <2>3, CardFields DEF Width
  <2> QED
    BY <2>1, <2>2, <2>3
<1> DEFINE w == Width(c)
           d == [card EXCEPT !.st = s, !.wide = w]
<1>w. w \in BOOLEAN
  BY <1>3
<1> HIDE DEF w
<1>4. /\ d \in Card /\ d.st = s /\ d.wide = w
      /\ d.in = card.in /\ d.v2 = card.v2 /\ d.hc = card.hc /\ d.s18 = card.s18
      /\ d.data = card.data
  BY <1>2, <1>w DEF Card
<1>5. card' = d
  BY <1>1 DEF w
<1> HIDE DEF d
<1> QED
  BY <1>1, <1>4, <1>5 DEF SameCard, SameKind, w

\* The types, on the card's side and on the driver's.
TypeLine == /\ removal \in BOOLEAN /\ irq \in BOOLEAN /\ err \in {"none", "cmdTimeout", "other"}
            /\ faults \in 0 .. MaxFaults /\ quiet \in 0 .. 2 /\ card \in Card
TypeDriver == /\ rca \in BOOLEAN /\ hc \in BOOLEAN /\ failed \in BOOLEAN /\ wide \in BOOLEAN
              /\ v2 \in BOOLEAN
TypeRest == /\ bd \in {"null", "dev", "freed"}
            /\ back \in {"boot", "SEND_STATUS", "recheck"} /\ slot \in {"caller", "local"}
            /\ req \in [op : {"none", "read", "write"}, blk : Block, n : 0 .. Blocks]
            /\ buf \in Data /\ pos \in 0 .. req.n /\ try \in 0 .. (MaxRetries - 1)
            /\ out \in {"none", "ok", "fail"}

LEMMA TypesAre == TypeOK => TypeLine /\ TypeDriver /\ TypeRest
BY DEF TypeOK, TypeLine, TypeDriver, TypeRest, Card

LEMMA TypesMake ==
  ASSUME TypeLine', TypeDriver', TypeRest', Requests'
  PROVE  TypeOK'
<1>1. at' \in {"reset", "requests", "off", "wild", "stuck", "initialised", "recheck", "transfer", "block",
               "SELECT_CARD_INIT"} \cup Commands
  BY CommandsIs DEF Requests, InCardInit, InRequest, Early, Middle, Late, Ensuring, Transferring
<1>2. {rca', hc', failed', removal', v2', wide', irq'} \subseteq BOOLEAN
  BY Zenon DEF TypeLine, TypeDriver
<1> QED
  BY <1>1, <1>2 DEF TypeOK, TypeLine, TypeRest, Card

\* A command that is answered has been taken, and nothing is amiss; one that
\* is not, without anything going wrong, was not issued or has no answer.
LEMMA IssueIs ==
  ASSUME TypeOK, NEW c, NEW ok \in BOOLEAN, Issue(c, ok)
  PROVE  /\ irq' = FALSE /\ (removal' <=> removal \/ irq)
         /\ quiet' \in {0, quiet}
         /\ SameCard /\ TypeLine'
         /\ card' = card \/ (card'.wide = Width(c) /\ card'.st \in After(c))
         /\ ok => /\ ~removal' /\ quiet' = quiet
                  /\ card'.wide = Width(c) /\ card'.st \in After(c)
         /\ ~ok /\ quiet' > 0 => /\ card' = card
                                 /\ removal' \/ (After(c) = {} /\ err' = "cmdTimeout")
<1>1. /\ card \in Card /\ err \in {"none", "cmdTimeout", "other"} /\ faults \in 0 .. MaxFaults
      /\ quiet \in 0 .. 2 /\ removal \in BOOLEAN /\ irq \in BOOLEAN
  BY DEF TypeOK, Card
<1>2. irq' = FALSE /\ removal' = (removal \/ irq)
  BY DEF Issue, HandleInterrupts
<1>3. irq' \in BOOLEAN /\ removal' \in BOOLEAN /\ (removal' <=> removal \/ irq)
  BY <1>1, <1>2
<1> USE DEF TypeLine
<1>4. card' = card => SameCard
  BY <1>1 DEF SameCard, SameKind
<1>5. CASE removal'
  <2>1. ~ok /\ UNCHANGED <<card, err, faults, quiet>>
    BY <1>5 DEF Issue, NoFault
  <2>2. TypeLine'
    BY <1>1, <1>3, <2>1
  <2> QED
    BY <1>1, <1>2, <1>3, <1>4, <1>5, <2>1, <2>2
<1>6. CASE ~removal'
  <2>1. IssueInt(c, ok)
    BY <1>6 DEF Issue
  <2>2. CASE ok /\ NoFault /\ Taken(c) /\ UNCHANGED err
    <3>1. UNCHANGED <<err, faults, quiet>>
      BY <2>2 DEF NoFault
    <3>2. SameCard /\ card'.wide = Width(c) /\ card'.st \in After(c)
      BY <1>1, <2>2, TakenIs
    <3>3. TypeLine'
      BY <1>1, <1>3, <3>1, <3>2 DEF SameCard, SameKind
    <3> QED
      BY <1>1, <1>2, <1>3, <1>6, <2>2, <3>1, <3>2, <3>3
  <2>3. CASE ~ok /\ NoFault /\ After(c) = {} /\ err' = "cmdTimeout" /\ UNCHANGED card
    <3>1. UNCHANGED <<faults, quiet>>
      BY <2>3 DEF NoFault
    <3>2. TypeLine'
      BY <1>1, <1>3, <2>3, <3>1
    <3> QED
      BY <1>1, <1>2, <1>3, <1>4, <2>3, <3>1, <3>2
  <2>4. CASE ~ok /\ Fault /\ err' \in {"cmdTimeout", "other"} /\ (Taken(c) \/ UNCHANGED card)
    <3>1. quiet' = 0 /\ faults' \in 0 .. MaxFaults
      BY <1>1, <2>4, EmmcAssumption DEF Fault
    <3>2. Taken(c) => SameCard /\ card'.wide = Width(c) /\ card'.st \in After(c)
      BY <1>1, TakenIs
    <3>3. TypeLine'
      <4>1. card' \in Card
        BY <1>4, <2>4, <3>2 DEF SameCard, SameKind
      <4>2. quiet' \in 0 .. 2
        BY <3>1
      <4> QED
        BY <1>3, <2>4, <3>1, <4>1, <4>2
    <3> QED
      BY <1>1, <1>2, <1>3, <1>4, <2>4, <3>1, <3>2, <3>3
  <2> QED
    BY <2>1, <2>2, <2>3, <2>4 DEF IssueInt
<1> QED
  BY <1>5, <1>6

LEMMA Answer ==
  ASSUME TypeOK, NEW c, Issue(c, TRUE)
  PROVE  /\ ~irq /\ ~removal /\ irq' = FALSE /\ ~removal' /\ quiet' = quiet
         /\ SameCard /\ TypeLine' /\ card'.wide = Width(c) /\ card'.st \in After(c)
<1>1. TRUE \in BOOLEAN
  OBVIOUS
<1> QED
  BY <1>1, IssueIs

LEMMA NoAnswer ==
  ASSUME TypeOK, NEW c, Issue(c, FALSE)
  PROVE  /\ irq' = FALSE /\ (removal' <=> removal \/ irq)
         /\ quiet' \in {0, quiet} /\ quiet' \in Nat
         /\ SameCard /\ TypeLine' /\ (card' = card \/ card'.st \in After(c))
         /\ quiet' > 0 => /\ quiet' = quiet /\ card' = card
                          /\ removal' \/ (After(c) = {} /\ err' = "cmdTimeout")
<1>1. FALSE \in BOOLEAN
  OBVIOUS
<1>2. /\ irq' = FALSE /\ (removal' <=> removal \/ irq)
      /\ quiet' \in {0, quiet}
      /\ SameCard /\ TypeLine' /\ (card' = card \/ card'.st \in After(c))
      /\ quiet' > 0 => card' = card /\ (removal' \/ (After(c) = {} /\ err' = "cmdTimeout"))
  BY <1>1, IssueIs
<1>3. quiet' \in Nat
  BY <1>2 DEF TypeLine
<1>4. quiet' > 0 => quiet' = quiet
  BY <1>2, <1>3
<1> QED
  BY <1>2, <1>3, <1>4

-----------------------------------------------------------------------------
(***************************************************************************)
(* A wait without a bound, from which nothing comes back.                  *)
(***************************************************************************)
LEMMA StuckKeeps ==
  ASSUME EmmcInv, at' = "stuck", UNCHANGED <<bd, rca, failed, wide, init, data>>,
         hc' \in BOOLEAN, hc' = hc \/ ~rca, SameKind, rca => card'.st = card.st,
         TypeLine', quiet' = 0
  PROVE  EmmcInv' /\ bd' = bd
<1> USE DEF InCardInit, InRequest, Early, Middle, Late, Ensuring, Transferring
<1>0. TypeOK /\ Requests /\ Capacity /\ UNCHANGED <<bd, rca, failed, wide, v2, back, slot, data>>
  BY DEF EmmcInv, init
<1>1. TypeDriver' /\ TypeRest'
  BY <1>0, TypesAre DEF TypeDriver, TypeRest, data
<1>2. Requests'
  BY <1>0 DEF Requests, Booting, data
<1>3. Device'
  BY DEF Device, Booting
<1>4. Capacity'
  BY <1>0 DEF Capacity, SameKind
<1>5. Quiet'
  BY DEF Quiet
<1> QED
  BY <1>0, <1>1, <1>2, <1>3, <1>4, <1>5, TypesMake DEF EmmcInv

\* Something goes wrong, and the card is as it was or has taken a command.
LEMMA FaultLine ==
  ASSUME TypeOK, Fault, HandleInterrupts, err' = err, card' \in Card
  PROVE  TypeLine' /\ quiet' = 0
<1>1. TypeLine
  BY TypesAre
<1>2. quiet' = 0 /\ faults' \in 0 .. MaxFaults
  BY <1>1, EmmcAssumption DEF TypeLine, Fault
<1>3. quiet' \in 0 .. 2
  BY <1>2
<1>4. irq' \in BOOLEAN /\ removal' \in BOOLEAN
  BY <1>1 DEF TypeLine, HandleInterrupts
<1> QED
  BY <1>1, <1>2, <1>3, <1>4 DEF TypeLine

LEMMA InhibitedStep ==
  ASSUME EmmcInv, Inhibited
  PROVE  EmmcInv' /\ bd' = bd /\ at' = "stuck" /\ quiet' = 0
<1>1. /\ TypeOK /\ HandleInterrupts /\ Fault /\ at' = "stuck"
      /\ UNCHANGED <<bd, rca, hc, failed, wide, init, data, err, card>>
  BY DEF EmmcInv, Inhibited, device
<1>2. card \in Card /\ hc \in BOOLEAN
  BY <1>1, TypesAre DEF TypeLine, TypeDriver
<1>3. SameKind /\ TypeLine' /\ quiet' = 0
  BY <1>1, <1>2, FaultLine DEF SameKind
<1> QED
  BY <1>1, <1>2, <1>3, StuckKeeps

LEMMA ClockStuckStep ==
  ASSUME EmmcInv, ClockStuck, at = "SD_SEND_OP_COND"
  PROVE  EmmcInv' /\ bd' = bd /\ at' = "stuck" /\ quiet' = 0 /\ SameCard
<1>1. /\ TypeOK /\ HandleInterrupts /\ Fault /\ Taken(at) /\ at' = "stuck"
      /\ hc' = (card.hc /\ v2) /\ UNCHANGED <<bd, rca, failed, wide, init, data, err>>
  BY DEF EmmcInv, ClockStuck
<1>2. card \in Card /\ ~rca
  BY <1>1, TypesAre DEF TypeLine, EmmcInv, Capacity, Early
<1>3. SameCard
  BY <1>1, <1>2, TakenIs
<1>4. TypeLine' /\ quiet' = 0
  BY <1>1, <1>3, FaultLine DEF SameCard, SameKind
<1>5. hc' \in BOOLEAN
  BY <1>1, <1>2, CardFields, TypesAre DEF TypeDriver
<1> QED
  BY <1>1, <1>2, <1>3, <1>4, <1>5, StuckKeeps DEF SameCard

-----------------------------------------------------------------------------
(***************************************************************************)
(* card_init.                                                              *)
(***************************************************************************)
LEMMA StaysInit ==
  ASSUME EmmcInv, at \in InCardInit, at' \in InCardInit, UNCHANGED <<bd, back, data>>,
         quiet' \in {0, quiet}
  PROVE  Requests' /\ Device'
BY DEF EmmcInv, Requests, Device, Booting, data, InCardInit, InRequest, Early, Middle, Late,
       Ensuring, Transferring

\* An answer is a result, and there is no request any more.
LEMMA ReturnIs ==
  ASSUME NEW result \in {"ok", "fail"}, Return(result)
  PROVE  /\ at' = "requests" /\ out' = result
         /\ req' = NoReq /\ buf' = Blank /\ pos' = 0 /\ try' = 0
         /\ req'.blk = 0 /\ req'.n = 0 /\ req'.op = "none"
         /\ req' \in [op : {"none", "read", "write"}, blk : Block, n : 0 .. Blocks]
         /\ buf' \in Data /\ pos' \in 0 .. req'.n /\ try' \in 0 .. (MaxRetries - 1)
<1>1. Blank \in Data
  <2>1. (CHOOSE v \in Value : TRUE) \in Value
    BY EmmcAssumption
  <2> QED
    BY <2>1 DEF Blank, Data
<1>2. 0 \in Block /\ 0 \in 0 .. Blocks /\ 0 \in 0 .. (MaxRetries - 1) /\ 0 \in 0 .. 0
  BY EmmcAssumption DEF Block
<1>3. NoReq.blk = 0 /\ NoReq.n = 0 /\ NoReq.op = "none"
      /\ NoReq \in [op : {"none", "read", "write"}, blk : Block, n : 0 .. Blocks]
  BY <1>2 DEF NoReq
<1> QED
  BY <1>1, <1>2, <1>3 DEF Return

\* Giving up is a failure of the request or of the boot.
LEMMA InitFailsKeeps ==
  ASSUME EmmcInv, at \in InCardInit, NEW frees \in BOOLEAN, InitFails(frees), TypeLine', SameCard,
         quiet' \in {0, quiet}, quiet' > 0 => ~rca,
         rca /\ card'.st \in Addressed => card.st \in Addressed
  PROVE  EmmcInv'
<1>1. /\ UNCHANGED <<rca, hc, failed, wide, v2, back, slot>>
      /\ bd' \in {"null", "dev", "freed"} /\ (bd' = "null" => bd = "null")
      /\ bd = "null" => bd' = "null"
  BY TypesAre DEF InitFails, device, init, EmmcInv, TypeRest
<1>2. TypeDriver' /\ (TypeRest /\ Requests /\ Device /\ Capacity)
  BY <1>1, TypesAre DEF TypeDriver, EmmcInv
<1>3. CASE back = "boot"
  <2>1. at' = "off" /\ UNCHANGED <<req, buf, pos, try, out>>
    BY <1>3 DEF InitFails, data
  <2>2. TypeRest'
    BY <1>1, <1>2, <2>1 DEF TypeRest
  <2>3. Requests'
    BY <1>2, <1>3, <2>1 DEF Requests, Booting, InCardInit, InRequest, Early, Middle, Late,
                            Ensuring, Transferring
  <2>4. Device'
    BY <2>1 DEF Device, Booting, InCardInit, InRequest, Early, Middle, Late, Ensuring, Transferring
  <2>5. Capacity'
    BY <1>1, <1>2, <2>1 DEF Capacity, SameCard, SameKind, InRequest, Early, Middle, Late, Ensuring, Transferring
  <2>6. Quiet'
    BY <2>1 DEF Quiet, InCardInit, InRequest, Early, Middle, Late, Ensuring, Transferring
  <2> QED
    BY <1>2, <2>2, <2>3, <2>4, <2>5, <2>6, TypesMake DEF EmmcInv
<1>4. CASE back # "boot"
  <2>1. Return("fail")
    BY <1>4 DEF InitFails
  <2>2. TypeRest'
    BY <1>1, <1>2, <2>1, ReturnIs DEF TypeRest
  <2>3. Requests'
    BY <1>4, <2>1, <1>1, ReturnIs, EmmcAssumption
       DEF Requests, Booting, InCardInit, InRequest, Early, Middle, Late, Ensuring, Transferring
  <2>4. Device'
    <3>1. bd' # "null"
      BY <1>1, <1>2, <1>4 DEF Device, Booting
    <3> QED
      BY <2>1, <3>1, ReturnIs
         DEF Device, Booting, InCardInit, InRequest, Early, Middle, Late, Ensuring, Transferring
  <2>5. Capacity'
    BY <1>1, <1>2, <2>1, ReturnIs
       DEF Capacity, SameCard, SameKind, InRequest, Early, Middle, Late, Ensuring, Transferring
  <2>6. Quiet'
    BY <1>1, <2>1, ReturnIs
       DEF Quiet, InCardInit, InRequest, Early, Middle, Late, Ensuring, Transferring
  <2> QED
    BY <1>2, <2>2, <2>3, <2>4, <2>5, <2>6, TypesMake DEF EmmcInv
<1> QED
  BY <1>3, <1>4

\* With nothing amiss, the card answers what card_init asks it.
LEMMA InitAnswered ==
  ASSUME EmmcInv, at \in InCardInit \ {"reset", "initialised", "SEND_IF_COND", "IO_SET_OP_COND"},
         NEW c, c = at \/ (at = "SELECT_CARD_INIT" /\ c = "SELECT_CARD"), Issue(c, FALSE),
         c # "SELECT_CARD_INIT"
  PROVE  quiet' = 0
<1>0. TypeOK
  BY DEF EmmcInv
<1>q. quiet' \in Nat
  BY <1>0, NoAnswer
<1> SUFFICES ASSUME quiet' > 0 PROVE FALSE
  BY <1>q
<1>1. quiet > 0 /\ (removal' <=> removal \/ irq) /\ (removal' \/ After(c) = {})
  BY <1>0, NoAnswer
<1>2. /\ card.in /\ ~irq /\ ~removal
      /\ at = "SD_SEND_OP_COND" => v2 = card.v2
      /\ card.hc => card.v2
  BY <1>1 DEF EmmcInv, Quiet, Capacity
<1>e. Expected
  BY <1>1 DEF EmmcInv, Quiet
<1>s. card.st \in CardStates
  BY TypesAre, CardFields DEF EmmcInv, TypeLine
<1>3. \E s : <<c, card.st, s>> \in CardSteps
  <2>1. \/ c = "GO_IDLE_STATE" /\ card.st \in CardStates
        \/ c = "OCR_INQUIRY" /\ card.st = "idle"
        \/ c = "SD_SEND_OP_COND" /\ card.st \in {"idle", "waking"}
        \/ c \in {"VOLTAGE_SWITCH", "ALL_SEND_CID"} /\ card.st = "ready"
        \/ c = "SEND_RELATIVE_ADDR" /\ card.st = "ident"
        \/ c = "SELECT_CARD" /\ card.st = "stby"
        \/ c \in {"SET_BLOCKLEN", "SEND_SCR", "SET_BUS_WIDTH"} /\ card.st = "tran"
    <3>1. at \in {"GO_IDLE_STATE", "OCR_INQUIRY", "SD_SEND_OP_COND", "VOLTAGE_SWITCH", "ALL_SEND_CID",
                 "SEND_RELATIVE_ADDR", "SELECT_CARD_INIT", "SET_BLOCKLEN", "SEND_SCR",
                 "SET_BUS_WIDTH"}
      BY DEF InCardInit, Early, Middle, Late
    <3>2. CASE at = "SELECT_CARD_INIT"
      BY <1>e, <3>2 DEF Expected
    <3>3. CASE at # "SELECT_CARD_INIT"
      <4>1. c = at
        BY <3>3
      <4>2. CASE at \in {"GO_IDLE_STATE", "OCR_INQUIRY", "SD_SEND_OP_COND"}
        BY <1>e, <1>s, <4>1, <4>2 DEF Expected
      <4>3. CASE at \in {"VOLTAGE_SWITCH", "ALL_SEND_CID", "SEND_RELATIVE_ADDR"}
        BY <1>e, <1>s, <4>1, <4>3 DEF Expected
      <4>4. CASE at \in {"SET_BLOCKLEN", "SEND_SCR", "SET_BUS_WIDTH"}
        BY <1>e, <1>s, <4>1, <4>4 DEF Expected
      <4> QED
        BY <3>1, <3>3, <4>2, <4>3, <4>4
    <3> QED
      BY <3>2, <3>3
  <2>2. ASSUME NEW s, NEW t, c = "GO_IDLE_STATE" /\ s \in CardStates /\ t = "idle"
        PROVE  <<c, s, t>> \in CardSteps
    BY <2>2, StepsIs
  <2>3. /\ <<"OCR_INQUIRY", "idle", "idle">> \in CardSteps
        /\ <<"SD_SEND_OP_COND", "idle", "ready">> \in CardSteps
        /\ <<"SD_SEND_OP_COND", "waking", "ready">> \in CardSteps
        /\ <<"VOLTAGE_SWITCH", "ready", "ready">> \in CardSteps
        /\ <<"ALL_SEND_CID", "ready", "ident">> \in CardSteps
        /\ <<"SEND_RELATIVE_ADDR", "ident", "stby">> \in CardSteps
        /\ <<"SELECT_CARD", "stby", "tran">> \in CardSteps
        /\ <<"SET_BLOCKLEN", "tran", "tran">> \in CardSteps
        /\ <<"SEND_SCR", "tran", "tran">> \in CardSteps
        /\ <<"SET_BUS_WIDTH", "tran", "tran">> \in CardSteps
    BY DEF CardSteps, CardStates, Addressed
  <2> QED
    BY <2>1, <2>2, <2>3
<1>4. \A s : <<c, card.st, s>> \in CardSteps => s \in After(c)
  BY <1>2, AfterIs
<1> QED
  BY <1>1, <1>2, <1>3, <1>4

\* A command of card_init that fails, and card_init with it.
LEMMA Refusal ==
  ASSUME EmmcInv, at \in InCardInit \ {"reset", "initialised"},
         NEW c, c = at \/ (at = "SELECT_CARD_INIT" /\ c = "SELECT_CARD"), c # "SELECT_CARD_INIT",
         c \in {"SEND_IF_COND", "IO_SET_OP_COND"} => quiet' = 0,
         NEW frees \in BOOLEAN, Issue(c, FALSE), InitFails(frees)
  PROVE  EmmcInv' /\ quiet' = 0
<1>1. TypeOK
  BY DEF EmmcInv
<1>2. quiet' = 0
  <2>1. CASE c \in {"SEND_IF_COND", "IO_SET_OP_COND"}
    BY <2>1
  <2>2. CASE c \notin {"SEND_IF_COND", "IO_SET_OP_COND"}
    <3>1. at \notin {"SEND_IF_COND", "IO_SET_OP_COND"}
      BY <2>2
    <3> QED
      BY <3>1, InitAnswered
  <2> QED
    BY <2>1, <2>2
<1>3. TypeLine' /\ SameCard /\ quiet' \in {0, quiet} /\ (card' = card \/ card'.st \in After(c))
  BY <1>1, NoAnswer
<1>4. rca /\ card'.st \in Addressed => card.st \in Addressed
  <2>1. ASSUME rca, card'.st \in After(c) PROVE card.st \in Addressed
    <3>1. at \in {"SELECT_CARD_INIT", "SET_BLOCKLEN", "SEND_SCR", "SET_BUS_WIDTH"}
      BY <2>1 DEF EmmcInv, Capacity, InCardInit, Early, Middle, Late
    <3>2. c \in {"SELECT_CARD", "SET_BLOCKLEN", "SEND_SCR", "SET_BUS_WIDTH"}
      BY <3>1
    <3>3. <<c, card.st, card'.st>> \in CardSteps
      BY <2>1, <3>2, AfterIs
    <3>4. card.st \in {"stby", "tran"}
      BY <3>2, <3>3, StepLeads
    <3> QED
      BY <3>4 DEF Addressed
  <2> QED
    BY <1>3, <2>1
<1> QED
  BY <1>2, <1>3, <1>4, InitFailsKeeps

\* A command of card_init that is answered, and what it makes of the card.
LEMMA Accepted ==
  ASSUME EmmcInv, at \in InCardInit \ {"reset", "initialised"},
         NEW c, c # "GO_IDLE_STATE", c # "SD_SEND_OP_COND", Issue(c, TRUE),
         at' \in InCardInit, UNCHANGED <<bd, back, data>>
  PROVE  /\ ~irq /\ ~removal /\ irq' = FALSE /\ ~removal' /\ quiet' = quiet
         /\ SameCard /\ TypeLine' /\ TypeLine /\ TypeDriver /\ TypeRest /\ Requests' /\ Device'
         /\ <<c, card.st, card'.st>> \in CardSteps
         /\ c # "SET_BUS_WIDTH" => card'.wide = card.wide
         /\ card.hc => card.v2
<1>1. TypeOK /\ (card.hc => card.v2)
  BY DEF EmmcInv, Capacity
<1>2. /\ ~irq /\ ~removal /\ irq' = FALSE /\ ~removal' /\ quiet' = quiet
      /\ SameCard /\ TypeLine' /\ card'.wide = Width(c) /\ card'.st \in After(c)
  BY <1>1, Answer
<1>3. TypeLine /\ TypeDriver /\ TypeRest
  BY <1>1, TypesAre
<1>4. Requests' /\ Device'
  BY <1>2, StaysInit
<1>5. <<c, card.st, card'.st>> \in CardSteps
  BY <1>2, AfterIs
<1>6. c # "SET_BUS_WIDTH" => Width(c) = card.wide
  BY DEF Width
<1> QED
  BY <1>1, <1>2, <1>3, <1>4, <1>5, <1>6

\* The step of card_init that reset the card.
LEMMA GoIdleStep ==
  ASSUME EmmcInv, GoIdle
  PROVE  EmmcInv' /\ (bd' = bd \/ quiet' = 0) /\ (at' = "requests" => quiet' = 0)
<1> USE DEF InCardInit, InRequest, Early, Middle, Late, Ensuring, Transferring
<1>1. CASE Issue("GO_IDLE_STATE", FALSE) /\ InitFails(FALSE)
  <2>1. at = "GO_IDLE_STATE" /\ FALSE \in BOOLEAN
    BY DEF GoIdle, InitStep
  <2> QED
    BY <1>1, <2>1, Refusal
<1>2. CASE /\ Issue("GO_IDLE_STATE", TRUE) /\ at' = "SEND_IF_COND"
           /\ UNCHANGED <<bd, device, init, data>>
  <2>1. at = "GO_IDLE_STATE" /\ UNCHANGED <<bd, rca, hc, failed, wide, v2, back, slot, data>>
    BY <1>2 DEF GoIdle, InitStep, device, init
  <2>2. TypeOK /\ ~rca /\ (card.hc => card.v2)
    BY <2>1 DEF EmmcInv, Capacity
  <2>3. /\ ~irq /\ ~removal /\ irq' = FALSE /\ ~removal' /\ quiet' = quiet
        /\ SameCard /\ TypeLine' /\ card'.wide = Width("GO_IDLE_STATE")
        /\ card'.st \in After("GO_IDLE_STATE")
    BY <1>2, <2>2, Answer
  <2>4. TypeDriver' /\ TypeRest'
    BY <2>1, <2>2, TypesAre DEF TypeDriver, TypeRest, data
  <2>5. Requests' /\ Device'
    BY <1>2, <2>1, <2>3, StaysInit
  <2>6. Capacity'
    BY <1>2, <2>1, <2>2, <2>3 DEF Capacity, SameCard, SameKind
  <2>7. Quiet'
    <3>1. quiet > 0 => card.in /\ wide = FALSE
      BY <2>1 DEF EmmcInv, Quiet
    <3>2. card.in => card'.st = "idle"
      <4>1. card.in => <<"GO_IDLE_STATE", card.st, card'.st>> \in CardSteps
        BY <2>3, AfterIs
      <4> QED
        BY <4>1, StepLeads
    <3>3. card'.wide = FALSE
      BY <2>3 DEF Width
    <3> QED
      BY <1>2, <2>1, <2>3, <3>1, <3>2, <3>3 DEF Quiet, SameCard, SameKind, Expected
  <2> QED
    BY <1>2, <2>1, <2>3, <2>4, <2>5, <2>6, <2>7, TypesMake DEF EmmcInv
<1> QED
  BY <1>1, <1>2 DEF GoIdle, InitStep

LEMMA SendIfCondStep ==
  ASSUME EmmcInv, SendIfCond
  PROVE  EmmcInv' /\ (bd' = bd \/ quiet' = 0) /\ (at' = "requests" => quiet' = 0)
<1> USE DEF InCardInit, InRequest, Early, Middle, Late, Ensuring, Transferring
<1>0. TypeOK /\ at = "SEND_IF_COND" /\ ~rca /\ (card.hc => card.v2)
  BY DEF EmmcInv, Capacity, SendIfCond
<1>q. quiet > 0 => card.in /\ ~irq /\ ~removal /\ card.st = "idle" /\ wide = card.wide
  BY <1>0 DEF EmmcInv, Quiet, Expected
<1>1. PICK ok \in BOOLEAN :
        /\ Issue("SEND_IF_COND", ok)
        /\ IF ~ok /\ err' = "other" THEN InitFails(FALSE)
           ELSE /\ at' = "IO_SET_OP_COND" /\ v2' = ok
                /\ UNCHANGED <<bd, device, back, slot, data>>
  BY DEF SendIfCond
<1>2. CASE ~ok /\ err' = "other"
  <2>1. Issue("SEND_IF_COND", FALSE) /\ InitFails(FALSE)
    BY <1>1, <1>2
  <2>2. /\ (removal' <=> removal \/ irq) /\ quiet' \in {0, quiet} /\ quiet' \in Nat
        /\ quiet' > 0 => removal' \/ err' = "cmdTimeout"
    BY <1>0, <2>1, NoAnswer
  <2>3. err' # "cmdTimeout"
    BY <1>2
  <2>4. quiet' = 0
    <3>1. quiet' > 0 => removal \/ irq
      BY <2>2, <2>3
    <3>2. quiet' > 0 => quiet > 0
      BY <2>2
    <3> QED
      BY <1>q, <2>2, <3>1, <3>2
  <2>5. FALSE \in BOOLEAN
    OBVIOUS
  <2> QED
    BY <1>0, <2>1, <2>4, <2>5, Refusal
<1>3. CASE ~(~ok /\ err' = "other")
  <2>1. /\ at' = "IO_SET_OP_COND" /\ v2' = ok
        /\ UNCHANGED <<bd, rca, hc, failed, wide, back, slot, data>>
    BY <1>1, <1>3 DEF device
  <2>2. CASE ok
    <3>1. Issue("SEND_IF_COND", TRUE)
      BY <1>1, <2>2
    <3>2. /\ ~irq /\ ~removal /\ irq' = FALSE /\ ~removal' /\ quiet' = quiet
          /\ SameCard /\ TypeLine' /\ TypeLine /\ TypeDriver /\ TypeRest /\ Requests' /\ Device'
          /\ <<"SEND_IF_COND", card.st, card'.st>> \in CardSteps
          /\ card'.wide = card.wide
      <4>1. /\ at \in InCardInit \ {"reset", "initialised"} /\ at' \in InCardInit
            /\ UNCHANGED <<bd, back, data>>
        BY <1>0, <2>1
      <4>2. "SEND_IF_COND" \notin {"GO_IDLE_STATE", "SD_SEND_OP_COND", "SET_BUS_WIDTH"}
        OBVIOUS
      <4> HIDE DEF InCardInit
      <4> QED
        BY <3>1, <4>1, <4>2, Accepted
    <3>3. card'.st = "idle" /\ card.v2
      <4>1. card.v2
        <5>1. card'.st \in After("SEND_IF_COND")
          BY <1>0, <3>1, Answer
        <5> QED
          BY <5>1 DEF After
      <4> QED
        BY <3>2, <4>1, StepLeads
    <3>4. TypeDriver' /\ TypeRest'
      BY <1>1, <2>1, <3>2 DEF TypeDriver, TypeRest, data
    <3>5. Capacity'
      BY <1>0, <2>1, <3>2 DEF Capacity, SameCard, SameKind
    <3>6. Quiet'
      <4>1. v2' = card'.v2
        BY <2>1, <2>2, <3>2, <3>3, CardFields DEF SameCard, SameKind, TypeLine
      <4> QED
        BY <1>q, <2>1, <3>2, <3>3, <4>1 DEF Quiet, SameCard, SameKind, Expected
    <3> QED
      BY <2>1, <3>2, <3>4, <3>5, <3>6, TypesMake DEF EmmcInv
  <2>3. CASE ~ok
    <3>1. Issue("SEND_IF_COND", FALSE)
      BY <1>1, <2>3
    <3>2. /\ irq' = FALSE /\ (removal' <=> removal \/ irq)
          /\ quiet' \in {0, quiet} /\ quiet' \in Nat
          /\ SameCard /\ TypeLine' /\ (card' = card \/ card'.st \in After("SEND_IF_COND"))
          /\ quiet' > 0 => /\ quiet' = quiet /\ card' = card
                           /\ removal' \/ (After("SEND_IF_COND") = {} /\ err' = "cmdTimeout")
      BY <1>0, <3>1, NoAnswer
    <3>3. TypeDriver' /\ TypeRest'
      BY <1>0, <1>1, <2>1, TypesAre DEF TypeDriver, TypeRest, data
    <3>4. Requests' /\ Device'
      BY <1>0, <2>1, <3>2, StaysInit
    <3>5. Capacity'
      BY <1>0, <2>1, <3>2 DEF Capacity, SameCard, SameKind
    <3>6. Quiet'
      <4>1. quiet' > 0 => ~card.v2
        <5>1. <<"SEND_IF_COND", "idle", "idle">> \in CardSteps
          BY DEF CardSteps
        <5> QED
          BY <1>q, <3>2, <5>1, AfterIs
      <4>2. quiet' > 0 => v2' = card'.v2
        BY <2>1, <2>3, <3>2, <4>1, CardFields DEF SameCard, SameKind, TypeLine
      <4> QED
        BY <1>q, <2>1, <3>2, <4>2 DEF Quiet, SameCard, SameKind, Expected
    <3> QED
      BY <2>1, <3>2, <3>3, <3>4, <3>5, <3>6, TypesMake DEF EmmcInv
  <2> QED
    BY <2>2, <2>3
<1> QED
  BY <1>2, <1>3

\* CMD5 is not answered, which is as it should be.
LEMMA IoSetOpCondStep ==
  ASSUME EmmcInv, IoSetOpCond
  PROVE  EmmcInv' /\ (bd' = bd \/ quiet' = 0) /\ (at' = "requests" => quiet' = 0)
<1> USE DEF InCardInit, InRequest, Early, Middle, Late, Ensuring, Transferring
<1>0. TypeOK /\ at = "IO_SET_OP_COND" /\ ~rca /\ (card.hc => card.v2)
  BY DEF EmmcInv, Capacity, IoSetOpCond
<1>q. quiet > 0 => /\ card.in /\ ~irq /\ ~removal /\ card.st = "idle" /\ wide = card.wide
                   /\ v2 = card.v2
  BY <1>0 DEF EmmcInv, Quiet, Expected
<1>1. Issue("IO_SET_OP_COND", FALSE)
  BY DEF IoSetOpCond
<1>2. /\ irq' = FALSE /\ (removal' <=> removal \/ irq)
      /\ quiet' \in {0, quiet} /\ quiet' \in Nat
      /\ SameCard /\ TypeLine' /\ (card' = card \/ card'.st \in After("IO_SET_OP_COND"))
      /\ quiet' > 0 => /\ quiet' = quiet /\ card' = card
                       /\ removal' \/ (After("IO_SET_OP_COND") = {} /\ err' = "cmdTimeout")
  BY <1>0, <1>1, NoAnswer
<1>3. CASE err' = "other"
  <2>1. InitFails(FALSE)
    BY <1>3 DEF IoSetOpCond
  <2>2. err' # "cmdTimeout"
    BY <1>3
  <2>3. quiet' = 0
    <3>1. quiet' > 0 => removal \/ irq
      BY <1>2, <2>2
    <3>2. quiet' > 0 => quiet > 0
      BY <1>2
    <3> QED
      BY <1>q, <1>2, <3>1, <3>2
  <2>4. FALSE \in BOOLEAN
    OBVIOUS
  <2> QED
    BY <1>0, <1>1, <2>1, <2>3, <2>4, Refusal
<1>4. CASE err' # "other"
  <2>1. at' = "OCR_INQUIRY" /\ UNCHANGED <<bd, rca, hc, failed, wide, v2, back, slot, data>>
    BY <1>4 DEF IoSetOpCond, device, init
  <2>2. TypeDriver' /\ TypeRest'
    BY <1>0, <2>1, TypesAre DEF TypeDriver, TypeRest, data
  <2>3. Requests' /\ Device'
    BY <1>0, <1>2, <2>1, StaysInit
  <2>4. Capacity'
    BY <1>0, <1>2, <2>1 DEF Capacity, SameCard, SameKind
  <2>5. Quiet'
    BY <1>q, <1>2, <2>1 DEF Quiet, SameCard, SameKind, Expected
  <2> QED
    BY <1>2, <2>1, <2>2, <2>3, <2>4, <2>5, TypesMake DEF EmmcInv
<1> QED
  BY <1>3, <1>4

\* A command that leaves the driver's device alone.
LEMMA Continued ==
  ASSUME EmmcInv, NEW c, Issue(c, TRUE), UNCHANGED <<bd, device, init, data>>,
         \/ at = "OCR_INQUIRY" /\ c = at /\ at' = "SD_SEND_OP_COND"
         \/ at = "VOLTAGE_SWITCH" /\ c = at /\ at' = "ALL_SEND_CID"
         \/ at = "ALL_SEND_CID" /\ c = at /\ at' = "SEND_RELATIVE_ADDR"
         \/ at = "SELECT_CARD_INIT" /\ c = "SELECT_CARD" /\ at' \in {"SEND_SCR", "SET_BLOCKLEN"}
         \/ at = "SET_BLOCKLEN" /\ c = at /\ at' = "SEND_SCR"
         \/ at = "SEND_SCR" /\ c = at /\ at' \in {"SET_BUS_WIDTH", "initialised"}
  PROVE  EmmcInv' /\ bd' = bd /\ at' # "requests"
<1>1. UNCHANGED <<bd, rca, hc, failed, wide, v2, back, slot, data>>
  BY DEF device, init
<1>2. /\ at \in InCardInit \ {"reset", "initialised"} /\ at' \in InCardInit
      /\ c \notin {"GO_IDLE_STATE", "SD_SEND_OP_COND", "SET_BUS_WIDTH"}
  BY DEF InCardInit, Early, Middle, Late
<1>3. UNCHANGED <<bd, back, data>>
  BY <1>1
<1>4. /\ ~irq /\ ~removal /\ irq' = FALSE /\ ~removal' /\ quiet' = quiet
      /\ SameCard /\ TypeLine' /\ TypeLine /\ TypeDriver /\ TypeRest /\ Requests' /\ Device'
      /\ <<c, card.st, card'.st>> \in CardSteps
      /\ card'.wide = card.wide
      /\ card.hc => card.v2
  BY <1>2, <1>3, Accepted
<1>5. TypeDriver' /\ TypeRest'
  BY <1>1, <1>4 DEF TypeDriver, TypeRest, data
<1> USE DEF InCardInit, InRequest, Early, Middle, Late, Ensuring, Transferring
<1>6. /\ c = "OCR_INQUIRY" => card.st = "idle" /\ card'.st = "idle"
      /\ c = "VOLTAGE_SWITCH" => card.st = "ready" /\ card'.st = "ready"
      /\ c = "ALL_SEND_CID" => card.st = "ready" /\ card'.st = "ident"
      /\ c = "SELECT_CARD" => card.st = "stby" /\ card'.st = "tran"
      /\ c = "SET_BLOCKLEN" => card.st = "tran" /\ card'.st = "tran"
      /\ c = "SEND_SCR" => card.st = "tran" /\ card'.st = "tran"
  BY <1>4, StepLeads
<1>7. Capacity
  BY DEF EmmcInv
<1>8. Capacity'
  <2>1. CASE at = "OCR_INQUIRY"
    BY <1>1, <1>4, <1>7, <2>1 DEF Capacity, SameCard, SameKind
  <2>2. CASE at \in {"VOLTAGE_SWITCH", "ALL_SEND_CID"}
    <3>1. ~rca /\ hc = card.hc
      BY <1>4, <1>6, <1>7, <2>2 DEF Capacity
    <3> QED
      BY <1>1, <1>4, <2>2, <3>1 DEF Capacity, SameCard, SameKind
  <2>3. CASE at \in {"SELECT_CARD_INIT", "SET_BLOCKLEN", "SEND_SCR"}
    <3>1. rca /\ hc = card.hc
      BY <1>6, <1>7, <2>3 DEF Capacity, Addressed
    <3> QED
      BY <1>1, <1>4, <2>3, <3>1 DEF Capacity, SameCard, SameKind
  <2> QED
    BY <2>1, <2>2, <2>3
<1>9. Quiet'
  <2>1. quiet > 0 => /\ card.in /\ wide = card.wide
                     /\ at = "OCR_INQUIRY" => v2 = card.v2
                     /\ at \in Middle \cup Late => hc = card.hc
    <3>1. at \in InCardInit \ {"reset", "GO_IDLE_STATE"}
      BY <1>2
    <3> QED
      BY <3>1 DEF EmmcInv, Quiet
  <2>2. CASE at = "OCR_INQUIRY"
    BY <1>1, <1>4, <1>6, <2>1, <2>2 DEF Quiet, SameCard, SameKind, Expected
  <2>3. CASE at \in {"VOLTAGE_SWITCH", "ALL_SEND_CID"}
    BY <1>1, <1>4, <1>6, <2>1, <2>3 DEF Quiet, SameCard, SameKind, Expected
  <2>4. CASE at \in {"SELECT_CARD_INIT", "SET_BLOCKLEN", "SEND_SCR"}
    BY <1>1, <1>4, <1>6, <2>1, <2>4 DEF Quiet, SameCard, SameKind, Expected
  <2> QED
    BY <2>2, <2>3, <2>4
<1> QED
  BY <1>1, <1>4, <1>5, <1>8, <1>9, TypesMake DEF EmmcInv

\* The steps of card_init that go on or give up.
LEMMA InitStepStep ==
  ASSUME EmmcInv,
         \/ OcrInquiry \/ AllSendCid \/ SelectInit \/ SetBlocklen \/ SendScr
  PROVE  EmmcInv' /\ (bd' = bd \/ quiet' = 0) /\ (at' = "requests" => quiet' = 0)
<1>1. PICK c \in {"OCR_INQUIRY", "ALL_SEND_CID", "SELECT_CARD", "SET_BLOCKLEN", "SEND_SCR"},
           frees \in BOOLEAN :
        /\ at = c \/ (at = "SELECT_CARD_INIT" /\ c = "SELECT_CARD")
        /\ \/ /\ Issue(c, TRUE) /\ UNCHANGED <<bd, device, init, data>>
              /\ \/ at = "OCR_INQUIRY" /\ c = at /\ at' = "SD_SEND_OP_COND"
                 \/ at = "ALL_SEND_CID" /\ c = at /\ at' = "SEND_RELATIVE_ADDR"
                 \/ /\ at = "SELECT_CARD_INIT" /\ c = "SELECT_CARD"
                    /\ at' \in {"SEND_SCR", "SET_BLOCKLEN"}
                 \/ at = "SET_BLOCKLEN" /\ c = at /\ at' = "SEND_SCR"
                 \/ at = "SEND_SCR" /\ c = at /\ at' \in {"SET_BUS_WIDTH", "initialised"}
           \/ Issue(c, FALSE) /\ InitFails(frees) /\ (c # "SELECT_CARD" => at = c)
                /\ (c = "SELECT_CARD" => at = "SELECT_CARD_INIT")
  <2>1. CASE OcrInquiry
    <3>1. at = "OCR_INQUIRY"
      BY <2>1 DEF OcrInquiry, InitStep
    <3> QED
      BY <2>1, <3>1 DEF OcrInquiry, InitStep
  <2>2. CASE AllSendCid
    <3>1. at = "ALL_SEND_CID"
      BY <2>2 DEF AllSendCid, InitStep
    <3> QED
      BY <2>2, <3>1 DEF AllSendCid, InitStep
  <2>3. CASE SelectInit
    BY <2>3 DEF SelectInit
  <2>4. CASE SetBlocklen
    <3>1. at = "SET_BLOCKLEN"
      BY <2>4 DEF SetBlocklen, InitStep
    <3> QED
      BY <2>4, <3>1 DEF SetBlocklen, InitStep
  <2>5. CASE SendScr
    <3>1. at = "SEND_SCR"
      BY <2>5 DEF SendScr, InitStep
    <3> QED
      BY <2>5, <3>1 DEF SendScr, InitStep
  <2> QED
    BY <2>1, <2>2, <2>3, <2>4, <2>5
<1>2. CASE Issue(c, FALSE) /\ InitFails(frees)
            /\ (c # "SELECT_CARD" => at = c) /\ (c = "SELECT_CARD" => at = "SELECT_CARD_INIT")
  <2>1. /\ at \in InCardInit \ {"reset", "initialised"} /\ c # "SELECT_CARD_INIT"
        /\ c = at \/ (at = "SELECT_CARD_INIT" /\ c = "SELECT_CARD")
        /\ c \notin {"SEND_IF_COND", "IO_SET_OP_COND"}
    BY <1>2 DEF InCardInit, Early, Middle, Late
  <2> QED
    BY <1>2, <2>1, Refusal
<1>3. CASE ~(Issue(c, FALSE) /\ InitFails(frees)
            /\ (c # "SELECT_CARD" => at = c) /\ (c = "SELECT_CARD" => at = "SELECT_CARD_INIT"))
  BY <1>1, <1>3, Continued
<1> QED
  BY <1>2, <1>3

\* ACMD41: the driver learns the capacity from a card that is ready, and a
\* card of high capacity is ready only for a driver that announced support.
LEMMA SendOpCondStep ==
  ASSUME EmmcInv, SendOpCond
  PROVE  EmmcInv' /\ (bd' = bd \/ quiet' = 0) /\ (at' = "requests" => quiet' = 0)
<1> USE DEF InCardInit, InRequest, Early, Middle, Late, Ensuring, Transferring
<1>0. TypeOK /\ at = "SD_SEND_OP_COND" /\ ~rca /\ (card.hc => card.v2)
  BY DEF EmmcInv, Capacity, SendOpCond
<1>1. CASE Issue(at, FALSE) /\ InitFails(FALSE)
  <2>1. Issue("SD_SEND_OP_COND", FALSE) /\ InitFails(FALSE) /\ FALSE \in BOOLEAN
    BY <1>0, <1>1
  <2> QED
    BY <1>0, <2>1, Refusal
<1>2. CASE /\ Issue(at, TRUE)
           /\ IF card'.st = "ready"
                THEN /\ hc' = (card.hc /\ v2)
                     /\ at' = IF card.s18 /\ v2 /\ ~failed THEN "VOLTAGE_SWITCH" ELSE "ALL_SEND_CID"
                ELSE UNCHANGED <<hc, at>>
           /\ UNCHANGED <<bd, rca, failed, wide, init, data>>
  <2>1. Issue("SD_SEND_OP_COND", TRUE) /\ UNCHANGED <<bd, rca, failed, wide, v2, back, slot, data>>
    BY <1>0, <1>2 DEF init
  <2>2. /\ ~irq /\ ~removal /\ irq' = FALSE /\ ~removal' /\ quiet' = quiet
        /\ SameCard /\ TypeLine' /\ card'.wide = Width("SD_SEND_OP_COND")
        /\ card'.st \in After("SD_SEND_OP_COND")
    BY <1>0, <2>1, Answer
  <2>3. card'.wide = card.wide
    BY <2>2 DEF Width
  <2>4. \/ <<"SD_SEND_OP_COND", card.st, card'.st>> \in CardSteps
        \/ /\ card'.st = card.st /\ card.hc /\ ~v2
           /\ \E t : <<"SD_SEND_OP_COND", card.st, t>> \in CardSteps
    BY <2>2, AfterIs
  <2>5. card.st \in {"idle", "waking"}
    BY <2>4, StepLeads, ZenonT(30)
  <2>6. card'.st \in {"waking", "ready"} \/ card'.st = card.st
    BY <2>4, StepLeads
  <2>7. quiet > 0 => card.in /\ v2 = card.v2 /\ wide = card.wide
    BY <1>0 DEF EmmcInv, Quiet
  <2>8. TypeLine /\ TypeDriver /\ TypeRest /\ card.hc \in BOOLEAN
    BY <1>0, TypesAre, CardFields DEF TypeLine
  <2>9. at' \in InCardInit /\ at \in InCardInit
    BY <1>0, <1>2
  <2>10. Requests' /\ Device'
    BY <2>1, <2>2, <2>9, StaysInit
  <2>11. TypeRest'
    BY <2>1, <2>8 DEF TypeRest, data
  <2>12. CASE card'.st = "ready"
    <3>1. hc' = (card.hc /\ v2) /\ at' \in {"VOLTAGE_SWITCH", "ALL_SEND_CID"}
      BY <1>2, <2>12
    <3>2. card.hc => v2
      <4>1. ASSUME card.hc, ~v2 PROVE FALSE
        <5>1. \A s \in After("SD_SEND_OP_COND") : s = card.st
          <6>1. card.in
            BY <2>2, AfterIs
          <6>2. PICK t : <<"SD_SEND_OP_COND", card.st, t>> \in CardSteps
            BY <2>4
          <6> DEFINE next == {u[3] : u \in {u \in CardSteps : u[1] = "SD_SEND_OP_COND" /\ u[2] = card.st}}
          <6>3. t \in next
            BY <6>2
          <6>4. After("SD_SEND_OP_COND") =
                  CASE ~card.in /\ "SD_SEND_OP_COND" = "GO_IDLE_STATE" -> {card.st}
                    [] ~card.in /\ "SD_SEND_OP_COND" # "GO_IDLE_STATE" -> {}
                    [] card.in /\ "SD_SEND_OP_COND" = "SEND_IF_COND" /\ ~card.v2 -> {}
                    [] card.in /\ "SD_SEND_OP_COND" = "SD_SEND_OP_COND" /\ card.hc /\ ~v2 /\ next # {}
                         -> {card.st}
                    [] OTHER -> next
            BY DEF After
          <6> HIDE DEF next
          <6>5. After("SD_SEND_OP_COND") = {card.st}
            BY <4>1, <6>1, <6>3, <6>4
          <6> QED
            BY <6>5
        <5> QED
          BY <2>2, <2>5, <2>12, <5>1
      <4> QED
        BY <4>1
    <3>3. hc' = card.hc /\ hc' \in BOOLEAN
      BY <2>8, <3>1, <3>2 DEF TypeDriver
    <3>4. TypeDriver'
      BY <2>1, <2>8, <3>3 DEF TypeDriver
    <3>5. Capacity'
      BY <1>0, <2>1, <2>2, <3>1, <3>3 DEF Capacity, SameCard, SameKind
    <3>6. Quiet'
      BY <2>1, <2>2, <2>3, <2>7, <2>12, <3>1, <3>3 DEF Quiet, SameCard, SameKind, Expected
    <3> QED
      BY <3>1, <2>1, <2>2, <2>10, <2>11, <3>4, <3>5, <3>6, TypesMake DEF EmmcInv
  <2>13. CASE card'.st # "ready"
    <3>1. hc' = hc /\ at' = "SD_SEND_OP_COND"
      BY <1>0, <1>2, <2>13
    <3>2. TypeDriver'
      BY <2>1, <2>8, <3>1 DEF TypeDriver
    <3>3. Capacity'
      BY <1>0, <2>1, <2>2, <3>1 DEF Capacity, SameCard, SameKind
    <3>4. card'.st \in {"idle", "waking"}
      BY <2>5, <2>6, <2>13
    <3>5. Quiet'
      BY <2>1, <2>2, <2>3, <2>7, <3>1, <3>4 DEF Quiet, SameCard, SameKind, Expected
    <3> QED
      BY <3>1, <2>1, <2>2, <2>10, <2>11, <3>2, <3>3, <3>5, TypesMake DEF EmmcInv
  <2> QED
    BY <2>12, <2>13
<1>3. CASE ClockStuck
  BY <1>0, <1>3, ClockStuckStep
<1> QED
  BY <1>1, <1>2, <1>3 DEF SendOpCond

\* A voltage switch that fails starts card_init again.
LEMMA VoltageSwitchStep ==
  ASSUME EmmcInv, VoltageSwitch
  PROVE  EmmcInv' /\ (bd' = bd \/ quiet' = 0) /\ (at' = "requests" => quiet' = 0)
<1>0. /\ TypeOK /\ at = "VOLTAGE_SWITCH" /\ (card.hc => card.v2)
      /\ UNCHANGED <<bd, rca, hc, wide, v2, back, data>>
  BY DEF EmmcInv, Capacity, VoltageSwitch
<1>1. CASE Issue(at, TRUE) /\ at' = "ALL_SEND_CID" /\ UNCHANGED <<failed, slot>>
  <2>1. UNCHANGED <<bd, device, init, data>>
    BY <1>0, <1>1 DEF device, init
  <2> QED
    BY <1>0, <1>1, <2>1, Continued
<1>2. CASE /\ \/ Issue(at, FALSE)
              \/ Fault /\ UNCHANGED <<removal, err, card, irq>>
           /\ failed' = TRUE /\ slot' = "local"
           /\ at' = "reset"
  <2>1. TypeLine /\ TypeDriver /\ TypeRest
    BY <1>0, TypesAre
  <2>2. TypeLine' /\ SameCard /\ quiet' \in {0, quiet}
    <3>1. CASE Issue(at, FALSE)
      BY <1>0, <3>1, NoAnswer
    <3>2. CASE Fault /\ UNCHANGED <<removal, err, card, irq>>
      <4>1. quiet' = 0 /\ faults' \in 0 .. MaxFaults
        BY <2>1, <3>2, EmmcAssumption DEF Fault, TypeLine
      <4>2. quiet' \in 0 .. 2
        BY <4>1
      <4> QED
        BY <2>1, <3>2, <4>1, <4>2 DEF TypeLine, SameCard, SameKind
    <3> QED
      BY <1>2, <3>1, <3>2
  <2>3. TypeDriver' /\ TypeRest'
    BY <1>0, <1>2, <2>1 DEF TypeDriver, TypeRest, data
  <2> USE DEF InCardInit, InRequest, Early, Middle, Late, Ensuring, Transferring
  <2>4. ~rca
    BY <1>0 DEF EmmcInv, Capacity
  <2>5. Requests' /\ Device'
    BY <1>0, <1>2, <2>2, StaysInit
  <2>6. Capacity'
    BY <1>0, <1>2, <2>2, <2>4 DEF Capacity, SameCard, SameKind
  <2>7. Quiet'
    BY <1>0, <1>2, <2>4 DEF Quiet, Expected
  <2> QED
    BY <1>2, <1>0, <2>2, <2>3, <2>5, <2>6, <2>7, TypesMake DEF EmmcInv
<1> QED
  BY <1>1, <1>2 DEF VoltageSwitch

\* The card gets its address, and with it the driver's idea of its capacity
\* becomes one that matters.
LEMMA SendRelativeAddrStep ==
  ASSUME EmmcInv, SendRelativeAddr
  PROVE  EmmcInv' /\ (bd' = bd \/ quiet' = 0) /\ (at' = "requests" => quiet' = 0)
<1> USE DEF InCardInit, InRequest, Early, Middle, Late, Ensuring, Transferring
<1>0. TypeOK /\ at = "SEND_RELATIVE_ADDR" /\ Capacity
  BY DEF EmmcInv, SendRelativeAddr
<1>1. CASE Issue(at, FALSE) /\ InitFails(TRUE)
  <2>1. Issue("SEND_RELATIVE_ADDR", FALSE) /\ InitFails(TRUE) /\ TRUE \in BOOLEAN
    BY <1>0, <1>1
  <2> QED
    BY <1>0, <2>1, Refusal
<1>2. CASE /\ Issue(at, TRUE) /\ rca' = TRUE /\ at' = "SELECT_CARD_INIT"
           /\ UNCHANGED <<bd, hc, failed, wide, init, data>>
  <2>1. Issue("SEND_RELATIVE_ADDR", TRUE) /\ UNCHANGED <<bd, hc, failed, wide, v2, back, slot, data>>
    BY <1>0, <1>2 DEF init
  <2>2. /\ at \in InCardInit \ {"reset", "initialised"} /\ at' \in InCardInit
        /\ UNCHANGED <<bd, back, data>>
    BY <1>0, <1>2, <2>1
  <2>3. "SEND_RELATIVE_ADDR" \notin {"GO_IDLE_STATE", "SD_SEND_OP_COND", "SET_BUS_WIDTH"}
    OBVIOUS
  <2>4. /\ ~irq /\ ~removal /\ irq' = FALSE /\ ~removal' /\ quiet' = quiet
        /\ SameCard /\ TypeLine' /\ TypeLine /\ TypeDriver /\ TypeRest /\ Requests' /\ Device'
        /\ <<"SEND_RELATIVE_ADDR", card.st, card'.st>> \in CardSteps
        /\ card'.wide = card.wide
        /\ card.hc => card.v2
    <3> HIDE DEF InCardInit
    <3> QED
      BY <2>1, <2>2, <2>3, Accepted
  <2>5. card.st = "ident" /\ card'.st = "stby"
    BY <2>4, StepLeads
  <2>6. hc = card.hc
    BY <1>0, <2>4, <2>5 DEF Capacity
  <2>7. TypeDriver' /\ TypeRest'
    BY <1>2, <2>1, <2>4 DEF TypeDriver, TypeRest, data
  <2>8. Capacity'
    BY <1>2, <2>1, <2>4, <2>6 DEF Capacity, SameCard, SameKind
  <2>9. Quiet'
    <3>1. quiet > 0 => card.in /\ wide = card.wide
      BY <1>0 DEF EmmcInv, Quiet
    <3> QED
      BY <1>2, <2>1, <2>4, <2>5, <2>6, <3>1 DEF Quiet, SameCard, SameKind, Expected
  <2> QED
    BY <1>2, <2>1, <2>4, <2>7, <2>8, <2>9, TypesMake DEF EmmcInv
<1> QED
  BY <1>1, <1>2 DEF SendRelativeAddr

\* The host's side of the bus follows the card's.
LEMMA SetBusWidthStep ==
  ASSUME EmmcInv, SetBusWidth
  PROVE  EmmcInv' /\ (bd' = bd \/ quiet' = 0) /\ (at' = "requests" => quiet' = 0)
<1> USE DEF InCardInit, InRequest, Early, Middle, Late, Ensuring, Transferring
<1>0. TypeOK /\ at = "SET_BUS_WIDTH" /\ at' = "initialised" /\ Capacity /\ rca
  BY DEF EmmcInv, SetBusWidth, Capacity
<1>1. UNCHANGED <<bd, rca, hc, failed, v2, back, slot, data>>
  BY DEF SetBusWidth, init
<1>2. PICK ok \in BOOLEAN : Issue("SET_BUS_WIDTH", ok) /\ wide' = ok
  BY <1>0 DEF SetBusWidth
<1>3. TypeLine /\ TypeDriver /\ TypeRest
  BY <1>0, TypesAre
<1>4. TypeDriver' /\ TypeRest'
  BY <1>1, <1>2, <1>3 DEF TypeDriver, TypeRest, data
<1>5. CASE ok
  <2>1. Issue("SET_BUS_WIDTH", TRUE)
    BY <1>2, <1>5
  <2>2. /\ ~irq /\ ~removal /\ irq' = FALSE /\ ~removal' /\ quiet' = quiet
        /\ SameCard /\ TypeLine' /\ card'.wide = Width("SET_BUS_WIDTH")
        /\ card'.st \in After("SET_BUS_WIDTH")
    BY <1>0, <2>1, Answer
  <2>3. card'.wide = TRUE /\ wide' = TRUE
    BY <1>2, <1>5, <2>2 DEF Width
  <2>4. <<"SET_BUS_WIDTH", card.st, card'.st>> \in CardSteps
    BY <2>2, AfterIs
  <2>5. card.st = "tran" /\ card'.st = "tran"
    BY <2>4, StepLeads
  <2>6. hc = card.hc
    BY <1>0, <2>5 DEF Capacity, Addressed
  <2>7. Requests' /\ Device'
    BY <1>0, <1>1, <2>2, StaysInit
  <2>8. Capacity'
    BY <1>0, <1>1, <2>2, <2>6 DEF Capacity, SameCard, SameKind
  <2>9. Quiet'
    <3>1. quiet > 0 => card.in
      BY <1>0 DEF EmmcInv, Quiet
    <3> QED
      BY <1>0, <1>1, <2>2, <2>3, <2>5, <2>6, <3>1 DEF Quiet, SameCard, SameKind, Expected
  <2> QED
    BY <1>0, <1>1, <1>4, <2>2, <2>7, <2>8, <2>9, TypesMake DEF EmmcInv
<1>6. CASE ~ok
  <2>1. Issue("SET_BUS_WIDTH", FALSE)
    BY <1>2, <1>6
  <2>2. quiet' = 0
    BY <1>0, <2>1, InitAnswered
  <2>3. TypeLine' /\ SameCard /\ (card' = card \/ card'.st \in After("SET_BUS_WIDTH"))
    BY <1>0, <2>1, NoAnswer
  <2>4. card'.st \in Addressed => card.st \in Addressed
    <3>1. ASSUME card'.st \in After("SET_BUS_WIDTH") PROVE card.st \in Addressed
      <4>1. <<"SET_BUS_WIDTH", card.st, card'.st>> \in CardSteps
        BY <3>1, AfterIs
      <4>2. card.st = "tran"
        BY <4>1, StepLeads
      <4> QED
        BY <4>2 DEF Addressed
    <3> QED
      BY <2>3, <3>1
  <2>5. Requests' /\ Device'
    BY <1>0, <1>1, <2>2, StaysInit
  <2>6. Capacity'
    BY <1>0, <1>1, <2>3, <2>4 DEF Capacity, SameCard, SameKind
  <2>7. Quiet'
    BY <2>2 DEF Quiet
  <2> QED
    BY <1>0, <1>1, <1>4, <2>3, <2>5, <2>6, <2>7, TypesMake DEF EmmcInv
<1> QED
  BY <1>5, <1>6

\* The controller and the card are reset, or the card is not there.
LEMMA ResetStep ==
  ASSUME EmmcInv, Reset
  PROVE  EmmcInv' /\ bd' = bd /\ (quiet' = 0 \/ ~card'.in \/ at' = "GO_IDLE_STATE")
<1> USE DEF InCardInit, InRequest, Early, Middle, Late, Ensuring, Transferring
<1>0. TypeOK /\ at = "reset" /\ (card.hc => card.v2)
  BY DEF EmmcInv, Capacity, Reset
<1>t. TypeLine /\ TypeDriver /\ TypeRest
  BY <1>0, TypesAre
<1>1. CASE /\ card.in /\ at' = "GO_IDLE_STATE"
           /\ rca' = FALSE /\ hc' = FALSE /\ failed' = FALSE /\ removal' = FALSE
           /\ err' = "none" /\ irq' = FALSE /\ wide' = FALSE
           /\ NoFault
           /\ UNCHANGED <<bd, init, data, card>>
  <2>1. UNCHANGED <<bd, v2, back, slot, data, card, faults, quiet>>
    BY <1>1 DEF init, NoFault
  <2>2. TypeLine' /\ SameCard
    BY <1>1, <1>t, <2>1 DEF TypeLine, SameCard, SameKind
  <2>3. TypeDriver' /\ TypeRest'
    BY <1>1, <1>t, <2>1 DEF TypeDriver, TypeRest, data
  <2>4. Requests' /\ Device'
    BY <1>0, <1>1, <2>1, StaysInit
  <2>5. Capacity'
    BY <1>0, <1>1, <2>1 DEF Capacity
  <2>6. Quiet'
    BY <1>1, <2>1 DEF Quiet, Expected
  <2> QED
    BY <1>1, <2>1, <2>2, <2>3, <2>4, <2>5, <2>6, TypesMake DEF EmmcInv
<1>2. CASE /\ (~card.in /\ NoFault) \/ Fault
           /\ InitFails(FALSE)
           /\ UNCHANGED <<removal, err, card, irq>>
  <2>1. (~card.in /\ UNCHANGED <<faults, quiet>>) \/ (quiet' = 0 /\ faults' \in 0 .. MaxFaults)
    BY <1>2, <1>t, EmmcAssumption DEF TypeLine, Fault, NoFault
  <2>2. TypeLine' /\ SameCard /\ quiet' \in {0, quiet} /\ quiet' \in Nat
    <3>1. quiet' \in 0 .. 2 /\ faults' \in 0 .. MaxFaults
      BY <1>t, <2>1 DEF TypeLine
    <3> QED
      BY <1>2, <1>t, <2>1, <3>1 DEF TypeLine, SameCard, SameKind
  <2>3. quiet' > 0 => ~rca
    <3>1. quiet > 0 /\ rca => card.in
      BY <1>0 DEF EmmcInv, Quiet
    <3>2. quiet' > 0 => ~card.in /\ quiet' = quiet
      BY <2>1
    <3> QED
      BY <3>1, <3>2
  <2>4. at \in InCardInit /\ FALSE \in BOOLEAN /\ (rca /\ card'.st \in Addressed => card.st \in Addressed)
    BY <1>0, <1>2
  <2>5. EmmcInv'
    BY <1>2, <2>2, <2>3, <2>4, InitFailsKeeps
  <2>6. bd' = bd
    BY <1>2 DEF InitFails
  <2> QED
    BY <1>2, <2>1, <2>5, <2>6
<1> QED
  BY <1>1, <1>2 DEF Reset

\* The end of card_init.
LEMMA InitialisedStep ==
  ASSUME EmmcInv, Initialised
  PROVE  EmmcInv' /\ (bd = "dev" => bd' = "dev") /\ (at' = "requests" => quiet' = 0)
           /\ (at' = "requests" /\ bd' = "null" => slot' = "local")
<1> USE DEF InCardInit, InRequest, Early, Middle, Late, Ensuring, Transferring
<1>0. /\ TypeOK /\ at = "initialised" /\ Capacity /\ rca /\ Requests /\ Device
      /\ irq' = FALSE /\ UNCHANGED <<rca, hc, failed, wide, v2, back, slot, data, removal, err,
                                     card, faults, quiet>>
  BY DEF EmmcInv, Initialised, Capacity, device, init
<1>t. TypeLine /\ TypeDriver /\ TypeRest
  BY <1>0, TypesAre
<1>q. quiet > 0 => card.in /\ ~removal /\ wide = card.wide /\ hc = card.hc /\ card.st = "tran"
  BY <1>0 DEF EmmcInv, Quiet, Expected
<1>1. TypeLine' /\ TypeDriver'
  BY <1>0, <1>t DEF TypeLine, TypeDriver
<1>2. TypeRest' /\ (bd = "dev" => bd' = "dev")
  <2>1. bd' \in {"null", "dev", "freed"} /\ (bd = "dev" => bd' = "dev")
    BY <1>t DEF Initialised, TypeRest
  <2> QED
    BY <1>0, <1>t, <2>1 DEF TypeRest, data
<1>3. Capacity'
  BY <1>0, <1>t DEF Capacity, Initialised, TypeRest
<1>4. CASE back = "boot"
  <2>1. /\ at' = "requests" /\ bd' = (IF slot = "caller" THEN "dev" ELSE bd) /\ quiet = 0
        /\ bd = "null"
    BY <1>0, <1>4 DEF Initialised, Device, Booting
  <2>2. Requests'
    BY <1>0, <1>4, <2>1 DEF Requests, Booting, data
  <2>3. Device'
    BY <1>0, <1>t, <2>1 DEF Device, Booting, TypeRest
  <2>4. Quiet'
    BY <1>0, <2>1 DEF Quiet
  <2> QED
    BY <1>0, <1>1, <1>2, <1>3, <1>t, <2>1, <2>2, <2>3, <2>4, TypesMake DEF EmmcInv, TypeRest
<1>5. CASE back # "boot"
  <2>1. at' = back /\ back \in {"SEND_STATUS", "recheck"} /\ bd' = bd
    BY <1>5, <1>t DEF Initialised, TypeRest
  <2>2. Requests'
    BY <1>0, <1>5, <2>1 DEF Requests, Booting, data
  <2>3. Device'
    BY <1>0, <1>5, <2>1 DEF Device, Booting
  <2>4. Quiet'
    BY <1>0, <1>q, <2>1 DEF Quiet, Sane, Good
  <2> QED
    BY <1>1, <1>2, <1>3, <2>1, <2>2, <2>3, <2>4, TypesMake DEF EmmcInv
<1> QED
  BY <1>4, <1>5

-----------------------------------------------------------------------------
(***************************************************************************)
(* The requests.                                                           *)
(***************************************************************************)
\* A request begins with a device that is as the last one left it.
LEMMA CallStep ==
  ASSUME EmmcInv, NEW op \in {"read", "write"}, NEW blk \in Block, NEW n \in 0 .. (Blocks - blk),
         NEW d \in Data, Call(op, blk, n, d)
  PROVE  EmmcInv' /\ bd' = bd /\ at' # "requests"
<1> USE DEF InCardInit, InRequest, Early, Middle, Late, Ensuring, Transferring
<1>0. /\ TypeOK /\ at = "requests" /\ Capacity /\ Requests /\ Device
      /\ req' = [op |-> op, blk |-> blk, n |-> n] /\ buf' = d /\ out' = "none"
      /\ UNCHANGED <<bd, rca, hc, failed, wide, pos, try, removal, err, card, irq, faults>>
  BY DEF EmmcInv, Call, device
<1>t. TypeLine /\ TypeDriver /\ TypeRest
  BY <1>0, TypesAre
<1>1. quiet \in 0 .. 2 /\ quiet' = IF n > 0 /\ quiet < 2 THEN quiet + 1 ELSE quiet
  BY <1>t DEF Call, TypeLine
<1>2. /\ quiet' \in 0 .. 2
      /\ quiet' > 0 => quiet > 0 \/ (n > 0 /\ quiet' # 2)
  BY <1>1
<1>3. req'.op = op /\ req'.blk = blk /\ req'.n = n /\ pos' = 0 /\ try' = 0
  BY <1>0 DEF Requests
<1>4. \/ at' = "wild" /\ bd # "dev" /\ UNCHANGED init
      \/ at' = "SEND_STATUS" /\ bd = "dev" /\ rca /\ UNCHANGED init
      \/ /\ at' = "reset" /\ bd = "dev" /\ ~rca
         /\ back' = "SEND_STATUS" /\ slot' = "caller" /\ UNCHANGED v2
  BY DEF Call
<1>5. /\ v2' = v2 /\ back' \in {back, "SEND_STATUS"} /\ slot' \in {slot, "caller"}
      /\ at' = "wild" => slot' = slot
  BY <1>4 DEF init
<1>6. TypeLine' /\ TypeDriver'
  BY <1>0, <1>2, <1>5, <1>t DEF TypeLine, TypeDriver
<1>7. Blocks \in Nat /\ blk \in Nat /\ blk < Blocks /\ n \in 0 .. Blocks /\ blk + n <= Blocks
      /\ 0 \in 0 .. n
  BY EmmcAssumption DEF Block
<1>8. TypeRest'
  <2>1. req' \in [op : {"none", "read", "write"}, blk : Block, n : 0 .. Blocks]
    BY <1>0, <1>7
  <2> QED
    BY <1>0, <1>3, <1>5, <1>7, <1>t, <2>1 DEF TypeRest
<1>9. Requests'
  <2>1. req'.blk + req'.n <= Blocks
    BY <1>3, <1>7
  <2>2. req'.op # "none"
    BY <1>3
  <2> QED
    BY <1>0, <1>3, <1>4, <2>1, <2>2 DEF Requests, Booting
<1>10. Device'
  BY <1>0, <1>4, <1>5 DEF Device, Booting
<1>11. Capacity'
  BY <1>0, <1>4 DEF Capacity
<1>12. Quiet'
  <2>1. CASE at' = "wild"
    BY <2>1 DEF Quiet
  <2>2. CASE at' = "SEND_STATUS"
    <3>1. rca
      BY <1>4, <2>2
    <3>2. quiet > 0 => Good
      BY <1>0, <3>1 DEF EmmcInv, Quiet
    <3>3. Good => Good'
      BY <1>0 DEF Good, Sane
    <3>4. quiet' > 0 /\ Second' => quiet > 0
      <4>1. Second' => quiet' = 2 \/ n = 0
        BY <1>3 DEF Second
      <4> QED
        BY <1>1, <1>7, <4>1
    <3> QED
      BY <2>2, <3>2, <3>3, <3>4 DEF Quiet
  <2>3. CASE at' = "reset" /\ ~rca
    BY <1>0, <2>3 DEF Quiet
  <2> QED
    BY <1>4, <2>1, <2>2, <2>3
<1> QED
  BY <1>0, <1>4, <1>6, <1>8, <1>9, <1>10, <1>11, <1>12, TypesMake DEF EmmcInv

\* What is left of a request that is answered, with the device or without the
\* driver's trust in the card.
LEMMA ReturnKeeps ==
  ASSUME EmmcInv, at \in InRequest, NEW result \in {"ok", "fail"}, Return(result),
         TypeLine', SameKind, rca' \in {rca, FALSE},
         UNCHANGED <<bd, hc, failed, wide, init>>,
         rca' /\ card'.st \in Addressed => card.st \in Addressed,
         quiet' > 0 /\ rca' => Good'
  PROVE  EmmcInv' /\ bd' = bd
<1> USE DEF InCardInit, InRequest, Early, Middle, Late, Ensuring, Transferring
<1>0. TypeOK /\ Requests /\ Device /\ Capacity /\ UNCHANGED <<v2, back, slot>> /\ FALSE \in BOOLEAN
  BY DEF EmmcInv, init
<1>t. TypeDriver /\ TypeRest
  BY <1>0, TypesAre
<1>1. TypeDriver'
  BY <1>0, <1>t DEF TypeDriver
<1>2. TypeRest'
  BY <1>0, <1>t, ReturnIs DEF TypeRest
<1>3. Requests'
  <2>1. req'.blk + req'.n <= Blocks
    BY ReturnIs, EmmcAssumption
  <2> QED
    BY <1>0, <2>1, ReturnIs DEF Requests, Booting
<1>4. Device'
  BY <1>0, ReturnIs DEF Device, Booting
<1>5. Capacity'
  BY <1>0, ReturnIs DEF Capacity, SameKind
<1>6. Quiet'
  BY ReturnIs DEF Quiet
<1> QED
  BY <1>1, <1>2, <1>3, <1>4, <1>5, <1>6, TypesMake DEF EmmcInv

LEMMA ForgetKeeps ==
  ASSUME EmmcInv, at \in InRequest, Forget, TypeLine', SameKind
  PROVE  EmmcInv' /\ bd' = bd /\ at' = "requests" /\ out' = "fail"
<1>1. Return("fail") /\ rca' = FALSE /\ UNCHANGED <<bd, hc, failed, wide, init>>
  BY DEF Forget
<1>2. "fail" \in {"ok", "fail"}
  OBVIOUS
<1> QED
  BY <1>1, <1>2, ReturnIs, ReturnKeeps

\* A card that answers a command of a request is the one that the driver has
\* initialised.
LEMMA Asked ==
  ASSUME EmmcInv, at \in InRequest, NEW c,
         c \in {"SEND_STATUS", "SELECT_CARD", "STOP_TRANSMISSION", "READ_BLOCKS", "WRITE_BLOCKS"},
         Issue(c, TRUE)
  PROVE  /\ Sane /\ irq' = FALSE /\ ~removal' /\ quiet' = quiet /\ SameCard /\ TypeLine'
         /\ card'.wide = card.wide
         /\ <<c, card.st, card'.st>> \in CardSteps
         /\ card.st \in Addressed /\ card'.st \in Addressed
         /\ UNCHANGED <<rca, hc>> => Sane'
<1>1. TypeOK /\ Capacity /\ rca
  BY DEF EmmcInv, Capacity
<1>2. /\ ~irq /\ ~removal /\ irq' = FALSE /\ ~removal' /\ quiet' = quiet
      /\ SameCard /\ TypeLine' /\ card'.wide = Width(c) /\ card'.st \in After(c)
  BY <1>1, Answer
<1>3. Width(c) = card.wide
  BY DEF Width
<1>4. card.in /\ <<c, card.st, card'.st>> \in CardSteps
  BY <1>2, AfterIs
<1>5. card.st \in Addressed /\ card'.st \in Addressed
  BY <1>4, StepLeads DEF Addressed
<1>6. hc = card.hc
  BY <1>1, <1>5 DEF Capacity
<1> QED
  BY <1>1, <1>2, <1>3, <1>4, <1>5, <1>6 DEF Sane, SameCard, SameKind

\* A card that does not is not the one, or something has gone wrong.
LEMMA NotAsked ==
  ASSUME EmmcInv, at \in InRequest, NEW c,
         c \in {"SEND_STATUS", "SELECT_CARD", "STOP_TRANSMISSION", "READ_BLOCKS", "WRITE_BLOCKS"},
         Issue(c, FALSE)
  PROVE  /\ TypeLine' /\ SameCard /\ quiet' \in {0, quiet} /\ quiet' \in Nat
         /\ card' = card \/ card.st \in Addressed
         /\ quiet' > 0 => /\ quiet' = quiet /\ card' = card
                          /\ Sane => /\ ~removal' /\ irq' = FALSE
                                     /\ \A s : <<c, card.st, s>> \notin CardSteps
<1>1. TypeOK
  BY DEF EmmcInv
<1>2. /\ irq' = FALSE /\ (removal' <=> removal \/ irq)
      /\ quiet' \in {0, quiet} /\ quiet' \in Nat
      /\ SameCard /\ TypeLine' /\ (card' = card \/ card'.st \in After(c))
      /\ quiet' > 0 => /\ quiet' = quiet /\ card' = card
                       /\ removal' \/ (After(c) = {} /\ err' = "cmdTimeout")
  BY <1>1, NoAnswer
<1>3. ASSUME card'.st \in After(c) PROVE card.st \in Addressed
  <2>1. <<c, card.st, card'.st>> \in CardSteps
    BY <1>3, AfterIs
  <2> QED
    BY <2>1, StepLeads DEF Addressed
<1>4. ASSUME Sane, After(c) = {} PROVE \A s : <<c, card.st, s>> \notin CardSteps
  BY <1>4, AfterIs DEF Sane
<1>5. Sane => ~removal /\ ~irq
  BY DEF Sane
<1> QED
  BY <1>2, <1>3, <1>4, <1>5

\* The commands that a card in a given state answers.
LEMMA Answered ==
  /\ \A s \in Addressed : <<"SEND_STATUS", s, s>> \in CardSteps
  /\ <<"SELECT_CARD", "stby", "tran">> \in CardSteps
  /\ <<"STOP_TRANSMISSION", "data", "tran">> \in CardSteps
  /\ <<"READ_BLOCKS", "tran", "data">> \in CardSteps
  /\ <<"WRITE_BLOCKS", "tran", "rcv">> \in CardSteps
BY DEF CardSteps, Addressed, CardStates

LEMMA SecondIs == quiet = 2 \/ req.n = 0 <=> Second
BY DEF Second

\* The driver stays in the request, with the card it knows.
LEMMA StaysInRequest ==
  ASSUME EmmcInv, at \in Ensuring, TypeLine', SameCard,
         UNCHANGED <<bd, device, init, data>>,
         \/ at' \in Ensuring
         \/ at' = "transfer" /\ req.n # 0,
         card'.st \in Addressed => card.st \in Addressed,
         Quiet'
  PROVE  EmmcInv'
<1> USE DEF InCardInit, InRequest, Early, Middle, Late, Ensuring, Transferring
<1>0. /\ TypeOK /\ Requests /\ Device /\ Capacity
      /\ UNCHANGED <<bd, rca, hc, failed, wide, v2, back, slot, data>>
  BY DEF EmmcInv, device, init
<1>t. TypeDriver /\ TypeRest
  BY <1>0, TypesAre
<1>1. TypeDriver' /\ TypeRest'
  BY <1>0, <1>t DEF TypeDriver, TypeRest, data
<1>2. Requests'
  <2>1. req.n \in Nat
    BY <1>t, EmmcAssumption DEF TypeRest
  <2>2. req.n # 0 => req.n > 0
    BY <2>1
  <2> QED
    BY <1>0, <2>2 DEF Requests, Booting, data
<1>3. Device'
  BY <1>0 DEF Device, Booting
<1>4. Capacity'
  BY <1>0 DEF Capacity, SameCard, SameKind
<1> QED
  BY <1>1, <1>2, <1>3, <1>4, TypesMake DEF EmmcInv

\* The card is in the transfer state.
LEMMA InDataModeKeeps ==
  ASSUME EmmcInv, at \in {"SEND_STATUS", "recheck"}, InDataMode, UNCHANGED <<bd, device, init>>,
         TypeLine', SameCard, card.st = "tran", card'.st = "tran", card'.wide = card.wide,
         Sane, Sane', quiet' = quiet, quiet > 0 /\ Second => wide = card.wide
  PROVE  /\ EmmcInv' /\ bd' = bd
         /\ at' = "requests" => req.n = 0
<1> USE DEF InCardInit, InRequest, Early, Middle, Late, Ensuring, Transferring
<1>0. UNCHANGED <<rca, hc, failed, wide>>
  BY DEF device
<1>1. CASE req.n = 0
  <2>1. Return("fail") /\ "fail" \in {"ok", "fail"}
    BY <1>1 DEF InDataMode
  <2>2. quiet' > 0 => Good'
    BY <1>0, <1>1 DEF Good, Second
  <2>3. card.st \in Addressed
    BY DEF Addressed
  <2> QED
    BY <1>0, <1>1, <2>1, <2>2, <2>3, ReturnKeeps DEF SameCard
<1>2. CASE req.n # 0
  <2>1. at' = "transfer" /\ UNCHANGED data
    BY <1>2 DEF InDataMode
  <2>2. req' = req /\ (Second' <=> Second)
    BY <2>1 DEF data, Second
  <2>3. Quiet'
    BY <1>0, <2>1, <2>2 DEF Quiet
  <2>4. card.st \in Addressed
    BY DEF Addressed
  <2> QED
    BY <1>2, <2>1, <2>3, <2>4, StaysInRequest
<1> QED
  BY <1>1, <1>2

LEMMA SendStatusStep ==
  ASSUME EmmcInv, SendStatus
  PROVE  /\ EmmcInv' /\ bd' = bd
         /\ at' = "requests" /\ quiet' = 2 => req.n = 0
<1> USE DEF InCardInit, InRequest, Early, Middle, Late, Ensuring, Transferring
<1>0. TypeOK /\ at = "SEND_STATUS" /\ Requests /\ Device /\ Capacity
  BY DEF EmmcInv, SendStatus
<1>g. quiet > 0 /\ Second => Good
  BY <1>0 DEF EmmcInv, Quiet
<1>1. CASE Issue(at, FALSE) /\ Forget
  <2>1. Issue("SEND_STATUS", FALSE)
    BY <1>0, <1>1
  <2>2. /\ TypeLine' /\ SameCard
        /\ quiet' > 0 => /\ quiet' = quiet
                         /\ Sane => \A s : <<"SEND_STATUS", card.st, s>> \notin CardSteps
    BY <1>0, <2>1, NotAsked
  <2>3. EmmcInv' /\ bd' = bd
    BY <1>0, <1>1, <2>2, ForgetKeeps DEF SameCard
  <2>4. quiet' # 2
    <3>1. Good => Sane /\ <<"SEND_STATUS", card.st, card.st>> \in CardSteps
      BY Answered DEF Good, Addressed
    <3>2. quiet' = 2 => quiet = 2 /\ quiet' > 0
      BY <2>2
    <3>3. quiet = 2 => Good
      BY <1>g DEF Second
    <3> QED
      BY <2>2, <3>1, <3>2, <3>3
  <2> QED
    BY <2>3, <2>4
<1>2. CASE /\ Issue(at, TRUE)
           /\ CASE card.st = "tran" -> InDataMode /\ UNCHANGED init
                [] card.st = "stby" -> at' = "SELECT_CARD" /\ UNCHANGED <<init, data>>
                [] card.st = "data" -> at' = "STOP_TRANSMISSION" /\ UNCHANGED <<init, data>>
                [] OTHER -> /\ at' = "reset" /\ back' = "recheck" /\ slot' = "caller"
                            /\ UNCHANGED <<v2, data>>
           /\ UNCHANGED <<bd, device>>
  <2>1. Issue("SEND_STATUS", TRUE) /\ UNCHANGED <<bd, rca, hc, failed, wide>> /\ UNCHANGED device
    BY <1>0, <1>2 DEF device
  <2>2. /\ Sane /\ irq' = FALSE /\ ~removal' /\ quiet' = quiet /\ SameCard /\ TypeLine'
        /\ card'.wide = card.wide /\ <<"SEND_STATUS", card.st, card'.st>> \in CardSteps
        /\ card.st \in Addressed /\ Sane'
    BY <1>0, <2>1, Asked
  <2>3. card'.st = card.st
    BY <2>2, StepLeads
  <2>4. quiet > 0 /\ Second => wide = card.wide
    BY <1>g DEF Good
  <2>5. CASE card.st = "tran"
    <3>1. InDataMode /\ UNCHANGED <<bd, device, init>>
      BY <1>2, <2>5
    <3> QED
      BY <1>0, <2>2, <2>3, <2>4, <2>5, <3>1, InDataModeKeeps
  <2>6. CASE card.st \in {"stby", "data"}
    <3>1. /\ at' = (IF card.st = "stby" THEN "SELECT_CARD" ELSE "STOP_TRANSMISSION")
          /\ UNCHANGED <<init, data>>
      BY <1>2, <2>6
    <3>2. Second' <=> Second
      BY <2>2, <3>1 DEF Second, data
    <3>3. Quiet'
      <4>1. CASE card.st = "stby"
        BY <2>1, <2>2, <2>3, <2>4, <3>1, <3>2, <4>1 DEF Quiet
      <4>2. CASE card.st = "data"
        BY <2>1, <2>2, <2>3, <2>4, <3>1, <3>2, <4>2 DEF Quiet
      <4> QED
        BY <2>6, <4>1, <4>2
    <3> QED
      BY <1>0, <2>1, <2>2, <2>3, <3>1, <3>3, StaysInRequest
  <2>7. CASE card.st \notin {"tran", "stby", "data"}
    <3>1. at' = "reset" /\ back' = "recheck" /\ slot' = "caller" /\ UNCHANGED <<v2, data>>
      BY <1>2, <2>7
    <3>2. TypeDriver /\ TypeRest
      BY <1>0, TypesAre
    <3>3. TypeDriver' /\ TypeRest'
      BY <2>1, <3>1, <3>2 DEF TypeDriver, TypeRest, data
    <3>4. Requests'
      BY <1>0, <3>1 DEF Requests, Booting, data
    <3>5. Device'
      BY <1>0, <2>1, <3>1 DEF Device, Booting
    <3>6. Capacity'
      BY <1>0, <2>1, <2>2, <2>3, <3>1 DEF Capacity, SameCard, SameKind
    <3>7. Quiet'
      BY <2>2, <3>1 DEF Quiet, Sane
    <3> QED
      BY <2>1, <2>2, <3>1, <3>3, <3>4, <3>5, <3>6, <3>7, TypesMake DEF EmmcInv
  <2> QED
    BY <2>5, <2>6, <2>7
<1> QED
  BY <1>1, <1>2 DEF SendStatus

LEMMA SelectStep ==
  ASSUME EmmcInv, Select
  PROVE  EmmcInv' /\ bd' = bd /\ (at' = "requests" => quiet' = 0)
<1> USE DEF InCardInit, InRequest, Early, Middle, Late, Ensuring, Transferring
<1>0. TypeOK /\ at \in {"SELECT_CARD", "STOP_TRANSMISSION"}
  BY DEF EmmcInv, Select
<1>q. quiet > 0 => /\ Sane /\ (Second => wide = card.wide)
                   /\ card.st = (IF at = "SELECT_CARD" THEN "stby" ELSE "data")
  BY <1>0 DEF EmmcInv, Quiet
<1>1. CASE Issue(at, FALSE) /\ Forget
  <2>2. /\ TypeLine' /\ SameCard /\ quiet' \in Nat
        /\ quiet' > 0 => /\ quiet' = quiet
                         /\ Sane => \A s : <<at, card.st, s>> \notin CardSteps
    BY <1>0, <1>1, NotAsked
  <2>3. EmmcInv' /\ bd' = bd
    BY <1>0, <1>1, <2>2, ForgetKeeps DEF SameCard
  <2>4. quiet' = 0
    <3>1. quiet' > 0 => quiet > 0
      BY <2>2
    <3>2. quiet > 0 => <<at, card.st, "tran">> \in CardSteps
      BY <1>0, <1>q, Answered
    <3> QED
      BY <1>q, <2>2, <3>1, <3>2
  <2> QED
    BY <2>3, <2>4
<1>2. CASE Issue(at, TRUE) /\ at' = "recheck" /\ UNCHANGED <<bd, device, init, data>>
  <2>1. UNCHANGED <<bd, rca, hc, failed, wide>>
    BY <1>2 DEF device
  <2>2. /\ Sane /\ irq' = FALSE /\ ~removal' /\ quiet' = quiet /\ SameCard /\ TypeLine'
        /\ card'.wide = card.wide /\ <<at, card.st, card'.st>> \in CardSteps
        /\ card.st \in Addressed /\ Sane'
    BY <1>0, <1>2, <2>1, Asked
  <2>3. card'.st = "tran"
    BY <1>0, <2>2, StepLeads
  <2>4. Second' <=> Second
    BY <1>2, <2>2 DEF Second, data
  <2>5. Quiet'
    BY <1>q, <1>2, <2>1, <2>2, <2>3, <2>4 DEF Quiet
  <2> QED
    BY <1>0, <1>2, <2>1, <2>2, <2>5, StaysInRequest
<1> QED
  BY <1>1, <1>2 DEF Select

LEMMA RecheckStep ==
  ASSUME EmmcInv, Recheck
  PROVE  /\ EmmcInv' /\ bd' = bd
         /\ at' = "requests" => quiet' = 0 \/ req.n = 0
<1> USE DEF InCardInit, InRequest, Early, Middle, Late, Ensuring, Transferring
<1>0. TypeOK /\ at = "recheck"
  BY DEF EmmcInv, Recheck
<1>q. quiet > 0 => Sane /\ (Second => wide = card.wide) /\ card.st = "tran"
  BY <1>0 DEF EmmcInv, Quiet
<1>1. PICK ok \in BOOLEAN :
        /\ Issue("SEND_STATUS", ok)
        /\ IF ok /\ card.st = "tran" THEN InDataMode /\ UNCHANGED <<bd, device, init>>
           ELSE Forget
  BY DEF Recheck
<1>2. CASE ok
  <2>1. Issue("SEND_STATUS", TRUE)
    BY <1>1, <1>2
  <2>2. /\ Sane /\ quiet' = quiet /\ SameCard /\ TypeLine'
        /\ card'.wide = card.wide /\ <<"SEND_STATUS", card.st, card'.st>> \in CardSteps
        /\ UNCHANGED <<rca, hc>> => Sane'
    BY <1>0, <2>1, Asked
  <2>3. CASE card.st = "tran"
    <3>1. InDataMode /\ UNCHANGED <<bd, device, init>>
      BY <1>1, <1>2, <2>3
    <3>2. Sane'
      BY <2>2, <3>1 DEF device
    <3>3. card'.st = "tran"
      BY <2>2, <2>3, StepLeads
    <3>4. at \in {"SEND_STATUS", "recheck"} /\ (quiet > 0 /\ Second => wide = card.wide)
      BY <1>0, <1>q
    <3> QED
      BY <2>2, <2>3, <3>1, <3>2, <3>3, <3>4, InDataModeKeeps
  <2>4. CASE card.st # "tran"
    <3>1. Forget
      BY <1>1, <2>4
    <3>2. quiet' \in Nat
      BY <2>2 DEF TypeLine
    <3>3. quiet' = 0
      BY <1>q, <2>2, <2>4, <3>2
    <3> QED
      BY <1>0, <2>2, <3>1, <3>3, ForgetKeeps DEF SameCard
  <2> QED
    BY <2>3, <2>4
<1>3. CASE ~ok
  <2>1. Issue("SEND_STATUS", FALSE) /\ Forget
    BY <1>1, <1>3
  <2>2. /\ TypeLine' /\ SameCard /\ quiet' \in Nat
        /\ quiet' > 0 => /\ quiet' = quiet
                         /\ Sane => \A s : <<"SEND_STATUS", card.st, s>> \notin CardSteps
    BY <1>0, <2>1, NotAsked
  <2>3. quiet' = 0
    <3>1. quiet' > 0 => quiet > 0
      BY <2>2
    <3>2. quiet > 0 => <<"SEND_STATUS", card.st, card.st>> \in CardSteps
      BY <1>q, Answered DEF Addressed
    <3> QED
      BY <1>q, <2>2, <3>1, <3>2
  <2> QED
    BY <1>0, <2>1, <2>2, <2>3, ForgetKeeps DEF SameCard
<1> QED
  BY <1>2, <1>3

\* The address of a request names its first block.
LEMMA NamedIs ==
  ASSUME EmmcInv, hc = card.hc
  PROVE  /\ Named(Address) = req.blk /\ Reached = req.blk + pos
         /\ req.blk \in Nat /\ req.n \in Nat /\ pos \in 0 .. req.n /\ Blocks \in Nat
         /\ req.blk + req.n <= Blocks
         /\ pos < req.n => Reached \in Block /\ req.blk + pos \in Block
<1>1. req.blk \in Nat /\ req.n \in Nat /\ pos \in 0 .. req.n /\ Blocks \in Nat
      /\ BLOCKLEN \in Nat \ {0}
  <2>1. TypeRest
    BY TypesAre DEF EmmcInv
  <2> QED
    BY <2>1, EmmcAssumption DEF TypeRest, Block
<1>2. (req.blk * BLOCKLEN) % BLOCKLEN = 0 /\ (req.blk * BLOCKLEN) \div BLOCKLEN = req.blk
  <2>1. \A a \in Nat, b \in Nat \ {0} : (a * b) % b = 0 /\ (a * b) \div b = a
    OBVIOUS
  <2> QED
    BY <1>1, <2>1
<1>3. Named(Address) = req.blk
  <2>1. CASE hc
    BY <2>1 DEF Named, Address
  <2>2. CASE ~hc
    BY <1>2, <2>2 DEF Named, Address
  <2> QED
    BY <2>1, <2>2
<1>4. Reached = req.blk + pos
  BY <1>3 DEF Reached
<1>5. req.blk + req.n <= Blocks
  BY DEF EmmcInv, Requests
<1>6. ASSUME pos < req.n PROVE req.blk + pos \in Block
  BY <1>1, <1>5, <1>6 DEF Block
<1> QED
  BY <1>1, <1>3, <1>4, <1>5, <1>6

\* The end of a transfer of the card.
LEMMA ClosedIs ==
  ASSUME NEW c \in Card
  PROVE  /\ Closed(c) \in Card
         /\ Closed(c).in = c.in /\ Closed(c).v2 = c.v2 /\ Closed(c).hc = c.hc
         /\ Closed(c).s18 = c.s18 /\ Closed(c).wide = c.wide /\ Closed(c).data = c.data
         /\ Closed(c).st = c.st \/ (Closed(c).st = "tran" /\ c.st \in {"data", "rcv"})
<1>1. CASE req.n = 1 /\ c.st \in {"data", "rcv"}
  <2>1. "tran" \in CardStates
    BY DEF CardStates
  <2> DEFINE d == [c EXCEPT !.st = "tran"]
  <2>2. /\ d \in Card /\ d.st = "tran" /\ d.wide = c.wide
        /\ d.in = c.in /\ d.v2 = c.v2 /\ d.hc = c.hc /\ d.s18 = c.s18 /\ d.data = c.data
    BY <2>1, CardClosed
  <2>3. Closed(c) = d
    BY <1>1 DEF Closed
  <2> HIDE DEF d
  <2> QED
    BY <1>1, <2>2, <2>3
<1>2. CASE ~(req.n = 1 /\ c.st \in {"data", "rcv"})
  <2>1. Closed(c) = c
    BY <1>2 DEF Closed
  <2> QED
    BY <2>1
<1> QED
  BY <1>1, <1>2

\* A block that is moved changes what the card holds and nothing else of it.
LEMMA MovedIs ==
  ASSUME EmmcInv, at = "block", pos < req.n, Flows
  PROVE  /\ Moved \in Card
         /\ Moved.in = card.in /\ Moved.v2 = card.v2 /\ Moved.hc = card.hc /\ Moved.s18 = card.s18
         /\ Moved.wide = card.wide /\ Moved.st = card.st
         /\ hc = card.hc /\ Reached = req.blk + pos /\ Reached \in Block
         /\ req.op = "read" => Moved.data = card.data
         /\ req.op # "read" => Moved.data = [card.data EXCEPT ![req.blk + pos] = buf[req.blk + pos]]
<1>1. TypeOK /\ Capacity
  BY DEF EmmcInv
<1>2. hc = card.hc
  BY <1>1 DEF Capacity, Flows, Addressed, InRequest, Transferring
<1>3. Reached = req.blk + pos /\ Reached \in Block
  BY <1>2, NamedIs
<1>4. card \in Card /\ buf \in Data
  BY <1>1, TypesAre DEF TypeLine, TypeRest
<1>5. CASE req.op = "read"
  <2>1. Moved = card
    BY <1>5 DEF Moved
  <2> QED
    BY <1>2, <1>3, <1>4, <1>5, <2>1
<1>6. CASE req.op # "read"
  <2> DEFINE b == req.blk + pos
             v == buf[b]
             d == [card EXCEPT !.data[b] = v]
  <2>1. b \in Block /\ v \in Value
    BY <1>3, <1>4 DEF Data
  <2>2. Moved = d
    BY <1>3, <1>6 DEF Moved
  <2> HIDE DEF b, v, d
  <2>3. /\ d \in Card /\ d.st = card.st /\ d.wide = card.wide
        /\ d.in = card.in /\ d.v2 = card.v2 /\ d.hc = card.hc /\ d.s18 = card.s18
        /\ d.data = [card.data EXCEPT ![b] = v]
    BY <1>4, <2>1, CardWritten DEF d
  <2>4. /\ Moved \in Card
        /\ Moved.in = card.in /\ Moved.v2 = card.v2 /\ Moved.hc = card.hc /\ Moved.s18 = card.s18
        /\ Moved.wide = card.wide /\ Moved.st = card.st
        /\ Moved.data = [card.data EXCEPT ![b] = v]
    BY <2>2, <2>3
  <2> QED
    BY <1>2, <1>3, <1>6, <2>4 DEF b, v
<1> QED
  BY <1>5, <1>6

\* A try that fails is followed by another one, or by the end of the request;
\* and when nothing has gone wrong, no request has been looked at before.
LEMMA NextTryKeeps ==
  ASSUME EmmcInv, at \in Transferring, NextTry, TypeLine', SameKind,
         card'.st \in Addressed => card.st \in Addressed,
         quiet' > 0 => /\ ~Second /\ quiet' = quiet /\ ~irq' /\ ~removal'
                       /\ card'.st \in {"tran", "data", "rcv"}
  PROVE  EmmcInv' /\ bd' = bd /\ (at' = "requests" => quiet' # 2)
<1> USE DEF InCardInit, InRequest, Early, Middle, Late, Ensuring, Transferring
<1>0. TypeOK /\ Requests /\ Device /\ Capacity
  BY DEF EmmcInv
<1>1. CASE try + 1 = MaxRetries
  <2>1. Forget
    BY <1>1 DEF NextTry
  <2>2. EmmcInv' /\ bd' = bd
    BY <2>1, ForgetKeeps
  <2>3. quiet' # 2
    BY DEF Second
  <2> QED
    BY <2>2, <2>3
<1>2. CASE try + 1 # MaxRetries
  <2>1. at' = "transfer" /\ try' = try + 1 /\ pos' = 0
        /\ UNCHANGED <<bd, rca, hc, failed, wide, v2, back, slot, req, buf, out>>
    BY <1>2 DEF NextTry, device, init
  <2>2. TypeDriver /\ TypeRest
    BY <1>0, TypesAre
  <2>3. try' \in 0 .. (MaxRetries - 1) /\ pos' \in 0 .. req'.n
    <3>1. try \in 0 .. (MaxRetries - 1) /\ req.n \in Nat
      BY <2>2, EmmcAssumption DEF TypeRest
    <3> QED
      BY <1>2, <2>1, <3>1, EmmcAssumption
  <2>4. TypeDriver' /\ TypeRest'
    BY <2>1, <2>2, <2>3 DEF TypeDriver, TypeRest
  <2>5. Requests'
    BY <1>0, <2>1 DEF Requests, Booting
  <2>6. Device'
    BY <1>0, <2>1 DEF Device, Booting
  <2>7. Capacity'
    BY <1>0, <2>1 DEF Capacity, SameKind
  <2>8. Quiet'
    <3>1. Second' => quiet' = 2 \/ req.n = 0
      BY <2>1 DEF Second
    <3>2. quiet' > 0 => ~Second'
      BY <3>1 DEF Second
    <3>3. quiet' > 0 => Sane
      <4>1. quiet > 0 => Sane
        BY <1>0 DEF EmmcInv, Quiet
      <4> QED
        BY <4>1
    <3>4. quiet' > 0 => Sane'
      BY <2>1, <3>3 DEF Sane, SameKind
    <3> QED
      BY <2>1, <3>2, <3>4 DEF Quiet
  <2> QED
    BY <2>1, <2>4, <2>5, <2>6, <2>7, <2>8, TypesMake DEF EmmcInv
<1> QED
  BY <1>1, <1>2

LEMMA TransferStep ==
  ASSUME EmmcInv, Transfer
  PROVE  EmmcInv' /\ bd' = bd /\ (at' = "requests" => quiet' # 2)
<1> USE DEF InCardInit, InRequest, Early, Middle, Late, Ensuring, Transferring
<1> DEFINE c == IF req.op = "read" THEN "READ_BLOCKS" ELSE "WRITE_BLOCKS"
<1>0. TypeOK /\ at = "transfer" /\ Requests /\ Device /\ Capacity
  BY DEF EmmcInv, Transfer
<1>q. quiet > 0 => /\ Sane /\ (Second => wide = card.wide /\ card.st = "tran")
                   /\ card.st \in {"tran", "data", "rcv"}
  BY <1>0 DEF EmmcInv, Quiet
<1>c. c \in {"READ_BLOCKS", "WRITE_BLOCKS"}
  OBVIOUS
<1>1. \/ Issue(c, TRUE) /\ at' = "block" /\ pos' = 0 /\ UNCHANGED <<bd, device, init, req, buf, try, out>>
      \/ Issue(c, FALSE) /\ NextTry
  BY DEF Transfer
<1> HIDE DEF c
<1>2. CASE Issue(c, TRUE) /\ at' = "block" /\ pos' = 0 /\ UNCHANGED <<bd, device, init, req, buf, try, out>>
  <2>1. UNCHANGED <<bd, rca, hc, failed, wide, v2, back, slot, req, buf, try, out>>
    BY <1>2 DEF device, init
  <2>2. /\ Sane /\ quiet' = quiet /\ SameCard /\ TypeLine'
        /\ card'.wide = card.wide /\ <<c, card.st, card'.st>> \in CardSteps
        /\ Sane'
    BY <1>0, <1>2, <1>c, <2>1, Asked
  <2>3. card.st = "tran" /\ card'.st \in {"data", "rcv"}
    BY <1>c, <2>2, StepLeads
  <2>4. TypeDriver /\ TypeRest /\ req.n \in Nat /\ req.n > 0
    BY <1>0, TypesAre, EmmcAssumption DEF TypeRest, Requests
  <2>5. TypeDriver' /\ TypeRest'
    <3>1. 0 \in 0 .. req.n
      BY <2>4
    <3> QED
      BY <1>2, <2>1, <2>4, <3>1 DEF TypeDriver, TypeRest
  <2>6. Requests'
    BY <1>0, <1>2, <2>1 DEF Requests, Booting
  <2>7. Device'
    BY <1>0, <1>2, <2>1 DEF Device, Booting
  <2>8. Capacity'
    BY <1>0, <1>2, <2>1, <2>2, <2>3 DEF Capacity, SameCard, SameKind, Addressed
  <2>9. Quiet'
    <3>1. Second' <=> Second
      BY <2>1, <2>2 DEF Second
    <3>2. pos' = 0 /\ req'.n > 0 /\ pos' # req'.n /\ ~(pos' > 0)
      BY <1>2, <2>1, <2>4
    <3> QED
      BY <1>2, <1>q, <2>1, <2>2, <2>3, <3>1, <3>2 DEF Quiet
  <2> QED
    BY <1>2, <2>1, <2>2, <2>5, <2>6, <2>7, <2>8, <2>9, TypesMake DEF EmmcInv
<1>3. CASE Issue(c, FALSE) /\ NextTry
  <2>1. /\ TypeLine' /\ SameCard /\ quiet' \in Nat
        /\ card' = card \/ card.st \in Addressed
        /\ quiet' > 0 => /\ quiet' = quiet /\ card' = card
                         /\ Sane => /\ ~removal' /\ irq' = FALSE
                                    /\ \A s : <<c, card.st, s>> \notin CardSteps
    BY <1>0, <1>3, <1>c, NotAsked
  <2>2. quiet' > 0 => /\ ~Second /\ quiet' = quiet /\ ~irq' /\ ~removal'
                      /\ card'.st \in {"tran", "data", "rcv"}
    <3>1. quiet' > 0 => quiet > 0
      BY <2>1
    <3>2. card.st = "tran" => \E s : <<c, card.st, s>> \in CardSteps
      BY <1>c, Answered
    <3> QED
      BY <1>q, <2>1, <3>1, <3>2
  <2>3. SameKind /\ (card'.st \in Addressed => card.st \in Addressed)
    BY <2>1 DEF SameCard
  <2> QED
    BY <1>0, <1>3, <2>1, <2>2, <2>3, NextTryKeeps
<1> QED
  BY <1>1, <1>2, <1>3

LEMMA BlockMovesStep ==
  ASSUME EmmcInv, BlockMoves
  PROVE  EmmcInv' /\ bd' = bd /\ at' # "requests"
<1> USE DEF InCardInit, InRequest, Early, Middle, Late, Ensuring, Transferring
<1>0. /\ TypeOK /\ at = "block" /\ pos < req.n /\ Flows /\ Requests /\ Device /\ Capacity
      /\ pos' = pos + 1
      /\ UNCHANGED <<at, bd, rca, hc, failed, wide, v2, back, slot, req, try, out, removal, err, irq,
                     faults, quiet>>
  BY DEF EmmcInv, BlockMoves, device, init
<1>t. TypeLine /\ TypeDriver /\ TypeRest
  BY <1>0, TypesAre
<1>1. /\ Moved \in Card
      /\ Moved.in = card.in /\ Moved.v2 = card.v2 /\ Moved.hc = card.hc /\ Moved.s18 = card.s18
      /\ Moved.wide = card.wide /\ Moved.st = card.st
      /\ hc = card.hc /\ Reached = req.blk + pos /\ Reached \in Block
  BY <1>0, MovedIs
<1>2. card.st \in {"data", "rcv"} /\ card.wide = wide
  BY <1>0 DEF Flows
<1>3. \/ card' = Moved
      \/ card' = Closed(Moved) /\ pos' = req.n
  BY DEF BlockMoves
<1>4. /\ SameKind /\ card'.wide = card.wide
      /\ card'.st \in {"tran", "data", "rcv"}
      /\ pos' # req.n => card'.st \in {"data", "rcv"}
  BY <1>1, <1>2, <1>3, ClosedIs DEF SameKind
<1>5. pos' \in 0 .. req.n /\ req.n \in Nat
  BY <1>0, <1>1, NamedIs
<1>6. buf' \in Data
  <2>1. card.data \in Data /\ buf \in Data
    BY <1>t, CardFields DEF TypeLine, TypeRest
  <2>2. card.data[Reached] \in Value
    BY <1>1, <2>1 DEF Data
  <2>3. buf' = buf \/ buf' = [buf EXCEPT ![req.blk + pos] = card.data[Reached]]
    BY DEF BlockMoves
  <2> QED
    BY <2>1, <2>2, <2>3 DEF Data
<1>7. TypeLine' /\ TypeDriver' /\ TypeRest'
  BY <1>0, <1>4, <1>5, <1>6, <1>t DEF TypeLine, TypeDriver, TypeRest, SameKind
<1>8. Requests'
  BY <1>0 DEF Requests, Booting
<1>9. Device'
  BY <1>0 DEF Device, Booting
<1>10. Capacity'
  BY <1>0, <1>1, <1>4 DEF Capacity, SameKind
<1>11. Quiet'
  <2>1. quiet > 0 => Sane
    BY <1>0 DEF EmmcInv, Quiet
  <2>2. quiet' > 0 => Sane'
    BY <1>0, <1>4, <2>1 DEF Sane, SameKind
  <2>3. pos' < req'.n => pos' # req.n
    BY <1>0, <1>5
  <2> QED
    BY <1>0, <1>2, <1>4, <2>2, <2>3 DEF Quiet
<1> QED
  BY <1>0, <1>7, <1>8, <1>9, <1>10, <1>11, TypesMake DEF EmmcInv

LEMMA BlockFailsStep ==
  ASSUME EmmcInv, BlockFails
  PROVE  EmmcInv' /\ bd' = bd /\ (at' = "requests" => quiet' # 2)
<1>0. /\ TypeOK /\ at = "block" /\ pos < req.n /\ NextTry /\ err' = "other"
      /\ UNCHANGED <<removal, irq>>
  BY DEF EmmcInv, BlockFails
<1>t. TypeLine /\ card \in Card /\ req.n \in Nat
  BY <1>0, TypesAre, EmmcAssumption DEF TypeLine, TypeRest
<1>q. quiet > 0 => Sane /\ (Second => wide = card.wide) /\ card.st \in {"data", "rcv"}
  BY <1>0 DEF EmmcInv, Quiet, InRequest, Ensuring, Transferring
<1>1. CASE ~Flows /\ NoFault /\ card' = Closed(card)
  <2>1. /\ SameKind /\ (card'.st = card.st \/ (card'.st = "tran" /\ card.st \in {"data", "rcv"}))
    <3> DEFINE d == Closed(card)
    <3>1. /\ d \in Card /\ d.in = card.in /\ d.v2 = card.v2 /\ d.hc = card.hc /\ d.s18 = card.s18
          /\ d.st = card.st \/ (d.st = "tran" /\ card.st \in {"data", "rcv"})
      BY <1>t, ClosedIs
    <3>2. card' = d
      BY <1>1
    <3> HIDE DEF d
    <3>3. SameKind
      BY <3>1, <3>2 DEF SameKind
    <3>4. card'.st = card.st \/ (card'.st = "tran" /\ card.st \in {"data", "rcv"})
      BY <3>1, <3>2
    <3> QED
      BY <3>3, <3>4
  <2>2. UNCHANGED <<faults, quiet>>
    BY <1>1 DEF NoFault
  <2>3. TypeLine'
    BY <1>0, <1>t, <2>1, <2>2 DEF TypeLine, SameKind
  <2>4. quiet > 0 => ~Second
    <3>1. Sane => Reached \in Block
      BY <1>0, NamedIs DEF Sane
    <3>2. Sane /\ wide = card.wide /\ card.st \in {"data", "rcv"} => Flows
      BY <3>1 DEF Sane, Flows
    <3> QED
      BY <1>1, <1>q, <3>2
  <2>5. quiet > 0 => ~irq' /\ ~removal'
    BY <1>0, <1>q DEF Sane
  <2>6. quiet' > 0 => /\ ~Second /\ quiet' = quiet /\ ~irq' /\ ~removal'
                      /\ card'.st \in {"tran", "data", "rcv"}
    BY <1>q, <2>1, <2>2, <2>4, <2>5
  <2>7. at \in Transferring /\ (card'.st \in Addressed => card.st \in Addressed)
    BY <1>0, <2>1 DEF Transferring, Addressed
  <2> QED
    BY <1>0, <2>1, <2>3, <2>6, <2>7, NextTryKeeps
<1>2. CASE Flows /\ Fault /\ card' \in {Closed(card), Closed(Moved)}
  <2>1. quiet' = 0 /\ faults' \in 0 .. MaxFaults
    BY <1>2, <1>t, EmmcAssumption DEF TypeLine, Fault
  <2>2. /\ Moved \in Card
        /\ Moved.in = card.in /\ Moved.v2 = card.v2 /\ Moved.hc = card.hc /\ Moved.s18 = card.s18
    BY <1>0, <1>2, MovedIs
  <2>3. SameKind
    BY <1>2, <1>t, <2>2, ClosedIs DEF SameKind
  <2>4. TypeLine'
    <3>1. quiet' \in 0 .. 2
      BY <2>1
    <3> QED
      BY <1>0, <1>t, <2>1, <2>3, <3>1 DEF TypeLine, SameKind
  <2>5. at \in Transferring /\ card.st \in Addressed /\ ~(quiet' > 0)
    BY <1>0, <1>2, <2>1 DEF Transferring, Addressed, Flows
  <2> QED
    BY <1>0, <2>1, <2>3, <2>4, <2>5, NextTryKeeps
<1> QED
  BY <1>1, <1>2 DEF BlockFails

LEMMA CompleteStep ==
  ASSUME EmmcInv, Complete
  PROVE  EmmcInv' /\ bd' = bd /\ (at' = "requests" => quiet' # 2 \/ out' # "fail")
<1>0. /\ TypeOK /\ at = "block" /\ pos = req.n /\ Requests
      /\ UNCHANGED <<removal, card, irq>>
  BY DEF EmmcInv, Complete
<1>t. TypeLine /\ req.n \in Nat /\ req.n > 0
  BY <1>0, TypesAre, EmmcAssumption DEF TypeRest, Requests, Transferring
<1>1. SameKind
  BY <1>0, <1>t DEF TypeLine, SameKind
<1>2. CASE Return("ok") /\ NoFault /\ UNCHANGED <<bd, device, init, err>>
  <2>1. UNCHANGED <<bd, rca, hc, failed, wide, init, faults, quiet, err>>
    BY <1>2 DEF device, NoFault
  <2>2. TypeLine'
    BY <1>0, <1>t, <2>1 DEF TypeLine
  <2>3. quiet > 0 => Good
    <3>1. quiet > 0 => Sane /\ card.st \in {"tran", "data", "rcv"} /\ (pos > 0 => wide = card.wide)
      BY <1>0 DEF EmmcInv, Quiet, InRequest, Ensuring, Transferring
    <3>2. pos > 0
      BY <1>0, <1>t
    <3> QED
      BY <3>1, <3>2 DEF Good
  <2>4. quiet' > 0 => Good'
    BY <1>0, <2>1, <2>3 DEF Good, Sane
  <2>5. at \in InRequest /\ "ok" \in {"ok", "fail"} /\ "ok" # "fail"
    BY <1>0 DEF InRequest, Transferring
  <2>6. out' = "ok"
    BY <1>2, <2>5, ReturnIs
  <2>7. EmmcInv' /\ bd' = bd
    BY <1>0, <1>1, <1>2, <2>1, <2>2, <2>4, <2>5, ReturnKeeps
  <2> QED
    BY <2>5, <2>6, <2>7
<1>3. CASE Fault /\ err' = "other" /\ NextTry
  <2>1. quiet' = 0 /\ faults' \in 0 .. MaxFaults
    BY <1>3, <1>t, EmmcAssumption DEF TypeLine, Fault
  <2>2. TypeLine' /\ ~(quiet' > 0)
    <3>1. quiet' \in 0 .. 2
      BY <2>1
    <3> QED
      BY <1>0, <1>3, <1>t, <2>1, <3>1 DEF TypeLine
  <2>3. at \in Transferring /\ (card'.st \in Addressed => card.st \in Addressed)
    BY <1>0 DEF Transferring
  <2> QED
    BY <1>1, <1>3, <2>1, <2>2, <2>3, NextTryKeeps
<1> QED
  BY <1>2, <1>3 DEF Complete

-----------------------------------------------------------------------------
(***************************************************************************)
(* What happens between the driver's steps.                                *)
(***************************************************************************)
LEMMA IoctlStep ==
  ASSUME EmmcInv, NEW c \in {"GO_IDLE_STATE", "DESELECT_CARD", "RESERVED"}, Ioctl(c), at' = at
  PROVE  EmmcInv' /\ bd' = bd
<1> USE DEF InCardInit, InRequest, Early, Middle, Late, Ensuring, Transferring
<1>0. /\ TypeOK /\ at = "requests" /\ Requests /\ Device /\ Capacity
      /\ UNCHANGED <<at, bd, rca, hc, failed, wide, v2, back, slot, data>>
      /\ Fault /\ irq' = FALSE /\ removal' = (removal \/ irq)
      /\ \/ Taken(c) /\ UNCHANGED err
         \/ err' \in {err, "cmdTimeout"} /\ UNCHANGED card
  BY DEF EmmcInv, Ioctl, HandleInterrupts, device, init
<1>t. TypeLine /\ TypeDriver /\ TypeRest
  BY <1>0, TypesAre
<1>1. quiet' = 0 /\ faults' \in 0 .. MaxFaults
  BY <1>0, <1>t, EmmcAssumption DEF TypeLine, Fault
<1>2. Taken(c) => SameCard /\ card'.st \in After(c)
  BY <1>t, TakenIs DEF TypeLine
<1>3. SameKind
  BY <1>0, <1>2, <1>t DEF SameCard, SameKind, TypeLine
<1>4. rca /\ card'.st \in Addressed => hc = card'.hc
  <2>1. CASE Taken(c)
    <3>1. \/ <<c, card.st, card'.st>> \in CardSteps
          \/ c = "GO_IDLE_STATE" /\ card'.st = card.st
      BY <1>2, <2>1, AfterIs
    <3>2. card'.st = "idle" \/ card'.st = card.st \/ card.st \in {"stby", "tran", "data"}
      <4>1. c = "RESERVED" => FALSE
        <5>1. ASSUME <<"RESERVED", card.st, card'.st>> \in CardSteps PROVE FALSE
          BY <5>1 DEF CardSteps
        <5> QED
          BY <3>1, <5>1
      <4> QED
        BY <3>1, <4>1, StepLeads
    <3>3. card'.st \in Addressed => card.st \in Addressed
      BY <3>2 DEF Addressed
    <3> QED
      BY <1>0, <1>3, <3>3 DEF Capacity, SameKind
  <2>2. CASE UNCHANGED card
    BY <1>0, <2>2 DEF Capacity
  <2> QED
    BY <1>0, <2>1, <2>2
<1>5. TypeLine' /\ TypeDriver' /\ TypeRest'
  <2>1. removal' \in BOOLEAN
    BY <1>0, <1>t DEF TypeLine
  <2>2. quiet' \in 0 .. 2
    BY <1>1
  <2>3. err' \in {"none", "cmdTimeout", "other"}
    BY <1>0, <1>t DEF TypeLine
  <2>4. TypeLine'
    BY <1>0, <1>1, <1>3, <2>1, <2>2, <2>3 DEF TypeLine, SameKind
  <2>5. TypeDriver' /\ TypeRest'
    BY <1>0, <1>t DEF TypeDriver, TypeRest, data
  <2> QED
    BY <2>4, <2>5
<1>6. Requests'
  BY <1>0 DEF Requests, Booting, data
<1>7. Device'
  BY <1>0 DEF Device, Booting
<1>8. Capacity'
  BY <1>0, <1>3, <1>4 DEF Capacity, SameKind
<1>9. Quiet'
  BY <1>1 DEF Quiet
<1> QED
  BY <1>0, <1>5, <1>6, <1>7, <1>8, <1>9, TypesMake DEF EmmcInv

LEMMA IoctlStuckStep ==
  ASSUME EmmcInv, NEW c \in {"GO_IDLE_STATE", "DESELECT_CARD", "RESERVED"}, Ioctl(c), at' # at
  PROVE  EmmcInv' /\ bd' = bd /\ at' = "stuck" /\ UNCHANGED <<data, card>>
<1>1. /\ TypeOK /\ HandleInterrupts /\ Fault /\ at' = "stuck"
      /\ UNCHANGED <<bd, rca, hc, failed, wide, init, data, err, card>>
  BY DEF EmmcInv, Ioctl, device
<1>2. card \in Card /\ hc \in BOOLEAN
  BY <1>1, TypesAre DEF TypeLine, TypeDriver
<1>3. SameKind /\ TypeLine' /\ quiet' = 0
  BY <1>1, <1>2, FaultLine DEF SameKind
<1> QED
  BY <1>1, <1>2, <1>3, StuckKeeps

LEMMA RemoveStep ==
  ASSUME EmmcInv, Remove
  PROVE  EmmcInv' /\ bd' = bd /\ at' = at
<1> USE DEF InCardInit, InRequest, Early, Middle, Late, Ensuring, Transferring
<1>0. /\ TypeOK /\ Requests /\ Device /\ Capacity
      /\ UNCHANGED <<at, bd, rca, hc, failed, wide, v2, back, slot, data, removal, err>>
      /\ Fault /\ irq' = TRUE /\ card' = [card EXCEPT !.in = FALSE]
  BY DEF EmmcInv, Remove, device, init
<1>t. TypeLine /\ TypeDriver /\ TypeRest
  BY <1>0, TypesAre
<1>1. quiet' = 0 /\ faults' \in 0 .. MaxFaults
  BY <1>0, <1>t, EmmcAssumption DEF TypeLine, Fault
<1>2. /\ card' \in Card /\ card'.st = card.st /\ card'.v2 = card.v2 /\ card'.hc = card.hc
  <2> DEFINE d == [card EXCEPT !.in = FALSE]
  <2>1. d \in Card /\ d.st = card.st /\ d.v2 = card.v2 /\ d.hc = card.hc
    BY <1>t, CardRemoved DEF TypeLine
  <2>2. card' = d
    BY <1>0
  <2> HIDE DEF d
  <2> QED
    BY <2>1, <2>2
<1>3. TypeLine' /\ TypeDriver' /\ TypeRest'
  <2>1. quiet' \in 0 .. 2
    BY <1>1
  <2> QED
    BY <1>0, <1>1, <1>2, <1>t, <2>1 DEF TypeLine, TypeDriver, TypeRest, data
<1>4. Requests'
  BY <1>0 DEF Requests, Booting, data
<1>5. Device'
  BY <1>0, <1>1 DEF Device, Booting
<1>6. Capacity'
  BY <1>0, <1>2 DEF Capacity
<1>7. Quiet'
  BY <1>1 DEF Quiet
<1> QED
  BY <1>0, <1>3, <1>4, <1>5, <1>6, <1>7, TypesMake DEF EmmcInv

\* A card that has just been put in.
LEMMA FreshIs ==
  ASSUME NEW k \in Kinds, NEW v \in Value
  PROVE  /\ Fresh(k, v) \in Card /\ Fresh(k, v).st = "idle"
         /\ Fresh(k, v).hc => Fresh(k, v).v2
         /\ Fresh(k, v).in = TRUE /\ Fresh(k, v).wide = FALSE
<1>1. k.v2 \in BOOLEAN /\ k.hc \in BOOLEAN /\ k.s18 \in BOOLEAN /\ (k.hc => k.v2)
  <2>1. CASE k = [v2 |-> TRUE, hc |-> TRUE, s18 |-> TRUE]
    BY <2>1
  <2>2. CASE k = [v2 |-> TRUE, hc |-> FALSE, s18 |-> FALSE]
    BY <2>2
  <2>3. CASE k = [v2 |-> FALSE, hc |-> FALSE, s18 |-> FALSE]
    BY <2>3
  <2> QED
    BY <2>1, <2>2, <2>3 DEF Kinds
<1>2. [b \in Block |-> v] \in Data
  BY DEF Data
<1>3. "idle" \in CardStates
  BY DEF CardStates
<1> DEFINE D == [b \in Block |-> v]
           a == k.v2
           h == k.hc
           e == k.s18
           d == [in |-> TRUE, st |-> "idle", wide |-> FALSE, v2 |-> a, hc |-> h,
                 s18 |-> e, data |-> D]
<1>4. Fresh(k, v) = d
  BY DEF Fresh
<1>5. D \in Data /\ a \in BOOLEAN /\ h \in BOOLEAN /\ e \in BOOLEAN /\ (h => a)
  BY <1>1, <1>2
<1> HIDE DEF D, a, h, e
<1>6. d \in Card /\ d.st = "idle" /\ d.in = TRUE /\ d.wide = FALSE /\ d.hc = h /\ d.v2 = a
  BY <1>3, <1>5 DEF Card
<1> HIDE DEF d
<1> QED
  BY <1>4, <1>5, <1>6

LEMMA InsertStep ==
  ASSUME EmmcInv, NEW k \in Kinds, NEW v \in Value, Insert(k, v)
  PROVE  EmmcInv' /\ bd' = bd /\ at' = at
<1> USE DEF InCardInit, InRequest, Early, Middle, Late, Ensuring, Transferring
<1>0. /\ TypeOK /\ Requests /\ Device /\ Capacity
      /\ UNCHANGED <<at, bd, rca, hc, failed, wide, v2, back, slot, data, removal, err, irq, faults>>
      /\ quiet' = 0 /\ card' = Fresh(k, v)
  BY DEF EmmcInv, Insert, device, init
<1>t. TypeLine /\ TypeDriver /\ TypeRest
  BY <1>0, TypesAre
<1>1. card' \in Card /\ card'.st = "idle" /\ (card'.hc => card'.v2)
  BY <1>0, FreshIs
<1>2. TypeLine' /\ TypeDriver' /\ TypeRest'
  <2>1. quiet' \in 0 .. 2
    BY <1>0
  <2> QED
    BY <1>0, <1>1, <1>t, <2>1 DEF TypeLine, TypeDriver, TypeRest, data
<1>3. Requests'
  BY <1>0 DEF Requests, Booting, data
<1>4. Device'
  BY <1>0 DEF Device, Booting
<1>5. Capacity'
  BY <1>0, <1>1 DEF Capacity, Addressed
<1>6. Quiet'
  BY <1>0 DEF Quiet
<1> QED
  BY <1>0, <1>2, <1>3, <1>4, <1>5, <1>6, TypesMake DEF EmmcInv

LEMMA InitHolds == Init => EmmcInv
<1> SUFFICES ASSUME Init PROVE EmmcInv
  OBVIOUS
<1> USE DEF InCardInit, InRequest, Early, Middle, Late, Ensuring, Transferring
<1>0. /\ at = "reset" /\ bd = "null" /\ back = "boot" /\ slot = "caller"
      /\ rca = FALSE /\ hc = FALSE /\ failed = FALSE /\ removal = FALSE /\ err = "none"
      /\ v2 = FALSE /\ wide = FALSE /\ irq = FALSE
      /\ req = NoReq /\ buf = Blank /\ pos = 0 /\ try = 0 /\ out = "none"
      /\ faults = 0 /\ quiet = 0
  BY DEF Init
<1>1. card \in Card /\ (card.hc => card.v2)
  <2>1. PICK k \in Kinds, v \in Value : card = Fresh(k, v)
    BY DEF Init
  <2> QED
    BY <2>1, FreshIs
<1>2. Blank \in Data
  <2>1. (CHOOSE v \in Value : TRUE) \in Value
    BY EmmcAssumption
  <2> QED
    BY <2>1 DEF Blank, Data
<1>3. /\ 0 \in Block /\ 0 \in 0 .. Blocks /\ 0 \in 0 .. (MaxRetries - 1) /\ 0 \in 0 .. 0
      /\ 0 \in 0 .. MaxFaults /\ 0 \in 0 .. 2 /\ 0 + 0 <= Blocks
  BY EmmcAssumption DEF Block
<1>4. req.blk = 0 /\ req.n = 0
      /\ req \in [op : {"none", "read", "write"}, blk : Block, n : 0 .. Blocks]
  BY <1>0, <1>3 DEF NoReq
<1>5. TypeOK
  <2>1. {rca, hc, failed, removal, v2, wide, irq} \subseteq BOOLEAN
    BY <1>0
  <2>2. pos \in 0 .. req.n /\ try \in 0 .. (MaxRetries - 1) /\ faults \in 0 .. MaxFaults
        /\ quiet \in 0 .. 2
    BY <1>0, <1>3, <1>4
  <2>3. card \in [in : BOOLEAN, st : CardStates, wide : BOOLEAN, v2 : BOOLEAN, hc : BOOLEAN,
                  s18 : BOOLEAN, data : Data]
    BY <1>1 DEF Card
  <2> QED
    BY <1>0, <1>2, <1>4, <2>1, <2>2, <2>3 DEF TypeOK
<1>6. Requests
  BY <1>0, <1>3, <1>4 DEF Requests, Booting
<1>7. Device
  BY <1>0 DEF Device, Booting
<1>8. Capacity
  BY <1>0, <1>1 DEF Capacity
<1>9. Quiet
  BY <1>0 DEF Quiet
<1> QED
  BY <1>5, <1>6, <1>7, <1>8, <1>9 DEF EmmcInv

-----------------------------------------------------------------------------
(***************************************************************************)
(* The invariant.                                                          *)
(***************************************************************************)
\* What a request may write.
LEMMA Written ==
  ASSUME NEW blk \in Block, NEW n \in 0 .. (Blocks - blk), NEW d \in [blk .. (blk + n - 1) -> Value]
  PROVE  [b \in Block |-> IF b \in DOMAIN d THEN d[b] ELSE Blank[b]] \in Data
<1>1. \A b \in Block : Blank[b] \in Value
  <2>1. (CHOOSE v \in Value : TRUE) \in Value
    BY EmmcAssumption
  <2> QED
    BY <2>1 DEF Blank
<1>2. \A b \in DOMAIN d : d[b] \in Value
  OBVIOUS
<1> QED
  BY <1>1, <1>2 DEF Data

\* The actions of Next: the invariant is kept, only something that goes wrong
\* takes the device away, and a request that fails without that is the first
\* one since it last did, or has a wrong size, or there is no card.
Kept == /\ EmmcInv'
        /\ bd = "dev" /\ bd' # "dev" => quiet' = 0
        /\ at # "requests" /\ at' = "requests" /\ out' = "fail" /\ quiet' = 2 /\ req.n # 0
             => ~card'.in

LEMMA NextKeeps ==
  ASSUME EmmcInv, [Next]_vars
  PROVE  Kept
<1> USE DEF Kept
<1>1. CASE OcrInquiry \/ AllSendCid \/ SelectInit \/ SetBlocklen \/ SendScr
  BY <1>1, InitStepStep
<1>2. CASE Reset
  BY <1>2, ResetStep
<1>3. CASE GoIdle
  BY <1>3, GoIdleStep
<1>4. CASE SendIfCond
  BY <1>4, SendIfCondStep
<1>5. CASE IoSetOpCond
  BY <1>5, IoSetOpCondStep
<1>6. CASE SendOpCond
  BY <1>6, SendOpCondStep
<1>7. CASE VoltageSwitch
  BY <1>7, VoltageSwitchStep
<1>8. CASE SendRelativeAddr
  BY <1>8, SendRelativeAddrStep
<1>9. CASE SetBusWidth
  BY <1>9, SetBusWidthStep
<1>10. CASE Initialised
  BY <1>10, InitialisedStep
<1>11. CASE SendStatus
  BY <1>11, SendStatusStep
<1>12. CASE Select
  BY <1>12, SelectStep
<1>13. CASE Recheck
  BY <1>13, RecheckStep
<1>14. CASE Transfer
  BY <1>14, TransferStep
<1>15. CASE BlockMoves
  BY <1>15, BlockMovesStep
<1>16. CASE BlockFails
  BY <1>16, BlockFailsStep
<1>17. CASE Complete
  BY <1>17, CompleteStep
<1>18. ASSUME NEW blk \in Block, NEW n \in 0 .. (Blocks - blk),
              \/ Call("read", blk, n, Blank)
              \/ \E d \in [blk .. (blk + n - 1) -> Value] :
                   Call("write", blk, n, [b \in Block |-> IF b \in DOMAIN d THEN d[b] ELSE Blank[b]])
       PROVE  Kept
  <2>1. Blank \in Data
    <3>1. (CHOOSE v \in Value : TRUE) \in Value
      BY EmmcAssumption
    <3> QED
      BY <3>1 DEF Blank, Data
  <2>2. PICK op \in {"read", "write"}, d \in Data : Call(op, blk, n, d)
    BY <1>18, <2>1, Written
  <2> QED
    BY <2>2, CallStep
<1>19. ASSUME NEW c \in {"GO_IDLE_STATE", "DESELECT_CARD", "RESERVED"}, Ioctl(c) PROVE Kept
  <2>1. CASE at' = at
    BY <1>19, <2>1, IoctlStep
  <2>2. CASE at' # at
    BY <1>19, <2>2, IoctlStuckStep
  <2> QED
    BY <2>1, <2>2
<1>20. CASE Remove
  BY <1>20, RemoveStep
<1>21. ASSUME NEW k \in Kinds, NEW v \in Value, Insert(k, v) PROVE Kept
  BY <1>21, InsertStep
<1>22. CASE UNCHANGED vars
  <2>1. UNCHANGED <<at, bd, rca, hc, failed, wide, v2, back, slot, req, buf, pos, try, out,
                    removal, err, card, irq, faults, quiet>>
    BY <1>22 DEF vars, device, init, data, line
  <2> QED
    BY <2>1 DEF EmmcInv, TypeOK, Requests, Booting, Device, Capacity, Quiet, Sane, Good, Second,
                Expected
<1>23. CASE Inhibited
  BY <1>23, InhibitedStep
<1> QED
  BY <1>1, <1>2, <1>3, <1>4, <1>5, <1>6, <1>7, <1>8, <1>9, <1>10, <1>11, <1>12, <1>13, <1>14,
     <1>15, <1>16, <1>17, <1>18, <1>19, <1>20, <1>21, <1>22, <1>23
     DEF Next, Driver, CardInit, EnsureDataMode, DoDataCommand

\* The invariant holds in every state of the driver.
THEOREM EmmcInvCorrect == Spec => []EmmcInv
<1>1. EmmcInv /\ [Next]_vars => EmmcInv'
  BY NextKeeps DEF Kept
<1> QED
  BY <1>1, InitHolds, PTL DEF Spec

\* Every variable of the driver and of the card stays in its type: the request
\* fits the card, the block counter the request, the tries max_retries.
THEOREM EmmcTypeCorrect == Spec => []TypeOK
BY EmmcInvCorrect, PTL DEF EmmcInv

\* sdcard.c's device is freed only by a request during which something went
\* wrong, and is missing after the boot only if the voltage switch failed.
THEOREM DeviceKeptCorrect == Spec => DeviceKept
<1>1. EmmcInv /\ [Next]_vars => Kept
  BY NextKeeps
<1>2. Kept => /\ bd = "dev" /\ bd' # "dev" => quiet' = 0
              /\ at' = "requests" /\ bd' = "null" => slot' = "local"
  BY DEF Kept, EmmcInv, Device
<1>3. EmmcInv /\ [Next]_vars
        => [/\ bd = "dev" /\ bd' # "dev" => quiet' = 0
            /\ at' = "requests" /\ bd' = "null" => slot' = "local"]_vars
  BY <1>1, <1>2
<1> QED
  BY <1>3, EmmcInvCorrect, PTL DEF Spec, DeviceKept

\* Whatever has gone wrong, of two requests of a right size during and between
\* which nothing does, the second one succeeds if a card is in.
THEOREM SecondTrySucceedsCorrect == Spec => SecondTrySucceeds
<1>1. EmmcInv /\ [Next]_vars
        => [at # "requests" /\ at' = "requests" /\ out' = "fail" /\ quiet' = 2 /\ req.n # 0
              => ~card'.in]_vars
  BY NextKeeps DEF Kept
<1> QED
  BY <1>1, EmmcInvCorrect, PTL DEF Spec, SecondTrySucceeds

-----------------------------------------------------------------------------
(***************************************************************************)
(* The driver implements BlockDevice: what of its state the caller sees.   *)
(***************************************************************************)
Span(n) == {req.blk + i : i \in 0 .. (n - 1)}

View == [op |-> req.op, blocks |-> Span(req.n), buf |-> buf, done |-> Done, out |-> out]

LEMMA ViewIs ==
  /\ BD!Init <=> card.data \in BD!Data /\ View = BD!Ended("none")
  /\ BD!vars = <<card.data, View>>
  /\ BD!Next <=>
       \/ \E op \in {"read", "write"}, blocks \in SUBSET Block, f \in BD!Data :
            /\ View.op = "none"
            /\ View' = [op |-> op, blocks |-> blocks, buf |-> f, done |-> {}, out |-> "none"]
            /\ card'.data = card.data
       \/ \E b \in View.blocks :
            \/ /\ View.op = "read"
               /\ View' = [View EXCEPT !.buf[b] = card.data[b], !.done = @ \cup {b}]
               /\ card'.data = card.data
            \/ /\ View.op = "write"
               /\ card'.data = [card.data EXCEPT ![b] = View.buf[b]]
               /\ View' \in {[View EXCEPT !.done = @ \cup {b}], [View EXCEPT !.done = {}],
                             BD!Ended("fail")}
       \/ /\ View' = [View EXCEPT !.done = {}]
          /\ card'.data = card.data
       \/ \E result \in {"ok", "fail"} :
            /\ View.op # "none"
            /\ result = "ok" => View.done = View.blocks /\ View.blocks # {}
            /\ View' = BD!Ended(result)
            /\ card'.data = card.data
       \/ \E d \in BD!Data :
            /\ card'.data = d
            /\ View' = IF View.done = View.blocks THEN View ELSE [View EXCEPT !.done = {}]
  /\ BD!Data = Data
  /\ \A result : BD!Ended(result) = [op |-> "none", blocks |-> {}, buf |-> Blank, done |-> {},
                                     out |-> result]
BY DEF View, Span, BD!Init, BD!vars, BD!Next, BD!Begin, BD!Read, BD!Write, BD!StartOver, BD!Return,
       BD!Replace, BD!Data, BD!Ended, BD!Blank, Data, Blank

\* The parts of what the caller sees.
LEMMA ViewParts ==
  /\ View.op = req.op /\ View.blocks = Span(req.n) /\ View.buf = buf /\ View.done = Done
  /\ View.out = out
BY DEF View

\* A step that the caller does not see.
LEMMA Unseen ==
  ASSUME UNCHANGED <<req, buf, out>>, Done' = Done, card'.data = card.data
  PROVE  UNCHANGED BD!vars
BY DEF View, Span, BD!vars

\* A transfer starts over.
LEMMA StartsOver ==
  ASSUME UNCHANGED <<req, buf, out>>, Done' = {}, card'.data = card.data
  PROVE  BD!Next
<1>1. View' = [op |-> req.op, blocks |-> Span(req.n), buf |-> buf, done |-> {}, out |-> out]
  BY DEF View, Span
<1>2. [View EXCEPT !.done = {}]
        = [op |-> req.op, blocks |-> Span(req.n), buf |-> buf, done |-> {}, out |-> out]
  <2> DEFINE o == req.op
             b == Span(req.n)
             d == Done
  <2>1. View = [op |-> o, blocks |-> b, buf |-> buf, done |-> d, out |-> out]
    BY DEF View
  <2> HIDE DEF o, b, d
  <2>2. [View EXCEPT !.done = {}] = [op |-> o, blocks |-> b, buf |-> buf, done |-> {}, out |-> out]
    BY <2>1
  <2> QED
    BY <2>2 DEF o, b
<1> QED
  BY <1>1, <1>2, ViewIs

\* What the caller has after an answer.
LEMMA ViewReturned ==
  ASSUME NEW result \in {"ok", "fail"}, Return(result)
  PROVE  View' = BD!Ended(result)
<1>1. /\ at' = "requests" /\ out' = result /\ buf' = Blank
      /\ req'.op = "none" /\ req'.n = 0 /\ req'.blk = 0
  BY ReturnIs
<1>2. Span(req.n)' = {}
  <2>1. 0 .. (0 - 1) = {}
    OBVIOUS
  <2> QED
    BY <1>1, <2>1 DEF Span
<1>3. Done' = {}
  BY <1>1 DEF Done
<1>4. View' = [op |-> "none", blocks |-> {}, buf |-> Blank, done |-> {}, out |-> result]
  BY <1>1, <1>2, <1>3 DEF View
<1> QED
  BY <1>4, ViewIs

LEMMA Fails ==
  ASSUME Return("fail"), req.op # "none", card'.data = card.data
  PROVE  BD!Next
<1>1. View' = BD!Ended("fail")
  BY ViewReturned
<1>2. View.op # "none" /\ "fail" # "ok"
  BY ViewParts
<1>3. \E result \in {"ok", "fail"} :
         /\ View.op # "none"
         /\ result = "ok" => View.done = View.blocks /\ View.blocks # {}
         /\ View' = BD!Ended(result)
         /\ card'.data = card.data
  BY <1>1, <1>2
<1> QED
  BY <1>3, ViewIs

\* Outside a transfer nothing has been moved.
LEMMA DoneIs ==
  /\ at # "block" => Done = {}
  /\ Done \in {{}, Span(pos)}
  /\ at = "block" /\ (pos = req.n \/ Moving) => Done = Span(pos)
  /\ at = "block" /\ pos # req.n /\ ~Moving => Done = {}
BY DEF Done, Span

LEMMA DoneNext ==
  /\ at' # "block" => Done' = {}
  /\ at' = "block" /\ (pos' = req'.n \/ Moving') => Done' = Span(pos)'
  /\ at' = "block" /\ pos' # req'.n /\ ~Moving' => Done' = {}
BY DEF Done, Span

\* A command leaves what the card holds as it is.
LEMMA IssueHolds ==
  ASSUME EmmcInv, NEW c, NEW ok \in BOOLEAN, Issue(c, ok)
  PROVE  card'.data = card.data
BY IssueIs DEF EmmcInv, SameCard

\* card_init, and the way to the transfer state: the caller sees nothing, or
\* that the request has failed.
LEMMA InitUnseen ==
  ASSUME EmmcInv, CardInit
  PROVE  BD!Next \/ UNCHANGED BD!vars
<1> USE DEF InCardInit, InRequest, Early, Middle, Late, Ensuring, Transferring
<1>1. at \in InCardInit
  BY DEF CardInit, Reset, GoIdle, SendIfCond, IoSetOpCond, OcrInquiry, SendOpCond, VoltageSwitch,
         AllSendCid, SendRelativeAddr, SelectInit, SetBlocklen, SendScr, SetBusWidth, Initialised,
         InitStep
<1>2. ASSUME NEW frees, InitFails(frees)
      PROVE  (UNCHANGED data /\ at' = "off") \/ (Return("fail") /\ req.op # "none")
  BY <1>1, <1>2 DEF InitFails, EmmcInv, Requests, Booting
<1>3. ASSUME NEW c, NEW ok \in BOOLEAN, Issue(c, ok) PROVE card'.data = card.data
  BY <1>3, IssueHolds
<1>4. TRUE \in BOOLEAN /\ FALSE \in BOOLEAN
  OBVIOUS
<1>5. /\ card'.data = card.data
      /\ (UNCHANGED data /\ at' # "block") \/ (Return("fail") /\ req.op # "none")
  <2>1. ASSUME NEW c, NEW next, NEW frees, InitStep(c, next, frees), next # "block"
        PROVE  /\ card'.data = card.data
               /\ (UNCHANGED data /\ at' # "block") \/ (Return("fail") /\ req.op # "none")
    BY <1>2, <1>3, <1>4, <2>1 DEF InitStep
  <2>2. CASE GoIdle
    BY <2>1, <2>2 DEF GoIdle
  <2>3. CASE OcrInquiry
    BY <2>1, <2>3 DEF OcrInquiry
  <2>4. CASE AllSendCid
    BY <2>1, <2>4 DEF AllSendCid
  <2>5. CASE SetBlocklen
    BY <2>1, <2>5 DEF SetBlocklen
  <2>6. CASE SendScr
    BY <2>1, <2>6 DEF SendScr
  <2>7. CASE Reset
    BY <1>2, <2>7 DEF Reset
  <2>8. CASE SendIfCond
    BY <1>2, <1>3, <2>8 DEF SendIfCond
  <2>9. CASE IoSetOpCond
    BY <1>2, <1>3, <1>4, <2>9 DEF IoSetOpCond
  <2>10. CASE SendOpCond
    <3>1. CASE ClockStuck
      <4>1. at = "SD_SEND_OP_COND"
        BY <2>10 DEF SendOpCond
      <4>2. UNCHANGED data /\ at' # "block"
        BY <3>1 DEF ClockStuck
      <4> QED
        BY <3>1, <4>1, <4>2, ClockStuckStep DEF SameCard
    <3>2. CASE ~ClockStuck
      BY <1>1, <1>2, <1>3, <1>4, <2>10, <3>2 DEF SendOpCond
    <3> QED
      BY <3>1, <3>2
  <2>11. CASE VoltageSwitch
    BY <1>3, <1>4, <2>11 DEF VoltageSwitch
  <2>12. CASE SendRelativeAddr
    BY <1>2, <1>3, <1>4, <2>12 DEF SendRelativeAddr
  <2>13. CASE SelectInit
    BY <1>2, <1>3, <1>4, <2>13 DEF SelectInit
  <2>14. CASE SetBusWidth
    BY <1>3, <2>14 DEF SetBusWidth
  <2>15. CASE Initialised
    <3>1. back \in {"boot", "SEND_STATUS", "recheck"}
      BY TypesAre DEF EmmcInv, TypeRest
    <3> QED
      BY <2>15, <3>1 DEF Initialised
  <2> QED
    BY <2>2, <2>3, <2>4, <2>5, <2>6, <2>7, <2>8, <2>9, <2>10, <2>11, <2>12, <2>13, <2>14, <2>15
       DEF CardInit
<1>6. CASE UNCHANGED data /\ at' # "block"
  <2>1. Done = {} /\ Done' = {} /\ UNCHANGED <<req, buf, out>>
    BY <1>1, <1>6, DoneIs, DoneNext DEF data
  <2> QED
    BY <1>5, <2>1, Unseen
<1>7. CASE Return("fail") /\ req.op # "none"
  BY <1>5, <1>7, Fails
<1> QED
  BY <1>5, <1>6, <1>7

LEMMA EnsureUnseen ==
  ASSUME EmmcInv, EnsureDataMode
  PROVE  BD!Next \/ UNCHANGED BD!vars
<1> USE DEF InCardInit, InRequest, Early, Middle, Late, Ensuring, Transferring
<1>1. at \in Ensuring
  BY DEF EnsureDataMode, SendStatus, Select, Recheck
<1>2. req.op # "none"
  BY <1>1 DEF EmmcInv, Requests, Booting
<1>3. ASSUME NEW c, NEW ok \in BOOLEAN, Issue(c, ok) PROVE card'.data = card.data
  BY <1>3, IssueHolds
<1>4. TRUE \in BOOLEAN /\ FALSE \in BOOLEAN
  OBVIOUS
<1>5. InDataMode => (UNCHANGED data /\ at' # "block") \/ Return("fail")
  BY DEF InDataMode
<1>6. Forget => Return("fail")
  BY DEF Forget
<1>7. /\ card'.data = card.data
      /\ (UNCHANGED data /\ at' # "block") \/ Return("fail")
  <2>1. CASE SendStatus
    BY <1>3, <1>4, <1>5, <1>6, <2>1 DEF SendStatus
  <2>2. CASE Select
    BY <1>3, <1>4, <1>6, <2>2 DEF Select
  <2>3. CASE Recheck
    BY <1>3, <1>5, <1>6, <2>3 DEF Recheck
  <2> QED
    BY <2>1, <2>2, <2>3 DEF EnsureDataMode
<1>8. CASE UNCHANGED data /\ at' # "block"
  <2>1. Done = {} /\ Done' = {} /\ UNCHANGED <<req, buf, out>>
    BY <1>1, <1>8, DoneIs, DoneNext DEF data
  <2> QED
    BY <1>7, <2>1, Unseen
<1>9. CASE Return("fail")
  BY <1>2, <1>7, <1>9, Fails
<1> QED
  BY <1>7, <1>8, <1>9

\* A try that fails with nothing new on the card.
LEMMA NextTrySeen ==
  ASSUME EmmcInv, at \in Transferring, NextTry, card'.data = card.data
  PROVE  BD!Next
<1>1. req.op # "none"
  BY DEF EmmcInv, Requests, Booting, InCardInit, InRequest, Early, Middle, Late, Ensuring,
         Transferring
<1>2. CASE Forget
  BY <1>1, <1>2, Fails DEF Forget
<1>3. CASE at' = "transfer" /\ UNCHANGED <<req, buf, out>>
  BY <1>3, DoneNext, StartsOver
<1> QED
  BY <1>2, <1>3 DEF NextTry

LEMMA TransferUnseen ==
  ASSUME EmmcInv, Transfer
  PROVE  BD!Next \/ UNCHANGED BD!vars
<1> DEFINE c == IF req.op = "read" THEN "READ_BLOCKS" ELSE "WRITE_BLOCKS"
<1>1. \/ Issue(c, TRUE) /\ at' = "block" /\ pos' = 0 /\ UNCHANGED <<bd, device, init, req, buf, try, out>>
      \/ Issue(c, FALSE) /\ NextTry
  BY DEF Transfer
<1>2. at = "transfer" /\ TRUE \in BOOLEAN /\ FALSE \in BOOLEAN
  BY DEF Transfer
<1> HIDE DEF c
<1>3. card'.data = card.data
  BY <1>1, <1>2, IssueHolds
<1>4. CASE at' = "block" /\ pos' = 0 /\ UNCHANGED <<req, buf, out>>
  <2>1. Done = {}
    BY <1>2, DoneIs
  <2>2. Done' = {}
    <3>1. 0 .. (0 - 1) = {}
      OBVIOUS
    <3> QED
      BY <1>4, <3>1 DEF Done
  <2> QED
    BY <1>3, <1>4, <2>1, <2>2, Unseen
<1>5. CASE NextTry
  BY <1>2, <1>3, <1>5, NextTrySeen DEF Transferring
<1> QED
  BY <1>1, <1>4, <1>5

\* One block more.
LEMMA SpanGrows ==
  ASSUME NEW n \in Nat, req.blk \in Nat
  PROVE  Span(n + 1) = Span(n) \cup {req.blk + n}
<1>1. 0 .. ((n + 1) - 1) = (0 .. (n - 1)) \cup {n}
  OBVIOUS
<1> QED
  BY <1>1 DEF Span

LEMMA SpanHas ==
  ASSUME NEW n \in Nat, NEW i \in 0 .. (n - 1)
  PROVE  req.blk + i \in Span(n)
BY DEF Span

LEMMA BlockMovesSeen ==
  ASSUME EmmcInv, BlockMoves
  PROVE  BD!Next
<1>0. /\ at = "block" /\ at' = "block" /\ pos < req.n /\ Flows /\ pos' = pos + 1
      /\ UNCHANGED <<req, out>>
      /\ card' = Moved \/ (card' = Closed(Moved) /\ pos' = req.n)
  BY DEF BlockMoves
<1> DEFINE b == req.blk + pos
<1>1. /\ Moved \in Card /\ Moved.in = card.in /\ Moved.st = card.st
      /\ hc = card.hc /\ Reached = req.blk + pos /\ Reached \in Block
      /\ req.op = "read" => Moved.data = card.data
      /\ req.op # "read" => Moved.data = [card.data EXCEPT ![req.blk + pos] = buf[req.blk + pos]]
  BY <1>0, MovedIs
<1>2. card'.data = Moved.data
  BY <1>0, <1>1, ClosedIs
<1>3. req.blk \in Nat /\ req.n \in Nat /\ pos \in 0 .. req.n /\ pos \in Nat
  BY <1>1, NamedIs
<1>4. Done = Span(pos)
  BY <1>0, DoneIs DEF Flows, Moving
<1>5. Done' = Span(pos) \cup {b}
  <2>1. pos' = req'.n \/ Moving'
    BY <1>0, <1>1 DEF Flows, Moving
  <2>2. Done' = Span(pos)'
    BY <1>0, <2>1, DoneNext
  <2>3. Span(pos)' = Span(pos + 1)
    BY <1>0 DEF Span
  <2> QED
    BY <1>3, <2>2, <2>3, SpanGrows
<1>6. b \in Span(req.n)
  BY <1>0, <1>3, SpanHas
<1>7. req.op \in {"read", "write"}
  BY <1>0, TypesAre DEF EmmcInv, Requests, Booting, TypeRest, InCardInit, InRequest, Early, Middle,
                        Late, Ensuring, Transferring
<1>8. View' = [op |-> req.op, blocks |-> Span(req.n), buf |-> buf', done |-> Span(pos) \cup {b},
               out |-> out]
  BY <1>0, <1>5 DEF View, Span
<1>9. View = [op |-> req.op, blocks |-> Span(req.n), buf |-> buf, done |-> Span(pos), out |-> out]
  BY <1>4 DEF View
<1> DEFINE o == req.op
           all == Span(req.n)
           some == Span(pos)
           m == card.data
<1>10. /\ View' = [op |-> o, blocks |-> all, buf |-> buf', done |-> some \cup {b}, out |-> out]
       /\ View = [op |-> o, blocks |-> all, buf |-> buf, done |-> some, out |-> out]
       /\ b \in all /\ o \in {"read", "write"}
  BY <1>6, <1>7, <1>8, <1>9
<1>11. /\ o = "read" => buf' = [buf EXCEPT ![b] = m[b]] /\ card'.data = m
       /\ o = "write" => buf' = buf /\ card'.data = [m EXCEPT ![b] = buf[b]]
  <2>1. /\ req.op = "read" => buf' = [buf EXCEPT ![req.blk + pos] = card.data[Reached]]
        /\ req.op # "read" => buf' = buf
    BY DEF BlockMoves
  <2> QED
    BY <1>1, <1>2, <2>1
<1> HIDE DEF b, o, all, some, m
<1>12. CASE o = "read"
  <2>1. View' = [View EXCEPT !.buf[b] = m[b], !.done = @ \cup {b}]
    <3>1. [View EXCEPT !.buf[b] = m[b], !.done = @ \cup {b}]
            = [op |-> o, blocks |-> all, buf |-> [buf EXCEPT ![b] = m[b]], done |-> some \cup {b},
               out |-> out]
      <4> DEFINE s == [View EXCEPT !.buf[b] = m[b]]
      <4>1. s = [op |-> o, blocks |-> all, buf |-> [buf EXCEPT ![b] = m[b]], done |-> some,
                 out |-> out]
        BY <1>10
      <4>2. View.done = some
        BY <1>10
      <4> DEFINE more == View.done \cup {b}
      <4>3. [View EXCEPT !.buf[b] = m[b], !.done = @ \cup {b}] = [s EXCEPT !.done = more]
        OBVIOUS
      <4>4. more = some \cup {b}
        BY <4>2
      <4> HIDE DEF s, more
      <4>5. [s EXCEPT !.done = more]
              = [op |-> o, blocks |-> all, buf |-> [buf EXCEPT ![b] = m[b]], done |-> more,
                 out |-> out]
        BY <4>1
      <4> QED
        BY <4>3, <4>4, <4>5
    <3> QED
      BY <1>10, <1>11, <1>12, <3>1
  <2>2. b \in View.blocks /\ View.op = "read"
    BY <1>10, <1>12
  <2>3. card'.data = card.data
    BY <1>11, <1>12 DEF m
  <2>4. View' = [View EXCEPT !.buf[b] = card.data[b], !.done = @ \cup {b}]
    BY <2>1 DEF m
  <2> QED
    BY <2>2, <2>3, <2>4, ViewIs
<1>13. CASE o = "write"
  <2>1. View' = [View EXCEPT !.done = @ \cup {b}]
    <3>1. [View EXCEPT !.done = @ \cup {b}]
            = [op |-> o, blocks |-> all, buf |-> buf, done |-> some \cup {b}, out |-> out]
      BY <1>10
    <3> QED
      BY <1>10, <1>11, <1>13, <3>1
  <2>2. b \in View.blocks /\ View.op = "write" /\ View.buf = buf
    BY <1>10, <1>13
  <2>3. card'.data = [card.data EXCEPT ![b] = View.buf[b]]
    BY <1>11, <1>13, <2>2 DEF m
  <2> QED
    BY <2>1, <2>2, <2>3, ViewIs
<1> QED
  BY <1>10, <1>12, <1>13

\* A block that has been written although its transfer failed.
LEMMA BlockFailsSeen ==
  ASSUME EmmcInv, BlockFails
  PROVE  BD!Next
<1>0. at = "block" /\ pos < req.n /\ NextTry /\ card \in Card /\ at \in Transferring
  BY TypesAre DEF BlockFails, EmmcInv, TypeLine, Transferring
<1>1. CASE card' = Closed(card)
  BY <1>0, <1>1, ClosedIs, NextTrySeen
<1>2. CASE Flows /\ card' = Closed(Moved)
  <2>1. /\ Moved \in Card /\ hc = card.hc /\ Reached = req.blk + pos /\ Reached \in Block
        /\ req.op = "read" => Moved.data = card.data
        /\ req.op # "read" => Moved.data = [card.data EXCEPT ![req.blk + pos] = buf[req.blk + pos]]
    BY <1>0, <1>2, MovedIs
  <2>2. card'.data = Moved.data
    BY <1>2, <2>1, ClosedIs
  <2>3. CASE req.op = "read"
    BY <1>0, <2>1, <2>2, <2>3, NextTrySeen
  <2>4. CASE req.op # "read"
    <3> DEFINE b == req.blk + pos
    <3>1. req.n \in Nat /\ pos \in 0 .. req.n
      BY <2>1, NamedIs
    <3>2. b \in Span(req.n)
      BY <1>0, <3>1, SpanHas
    <3>3. req.op = "write"
      BY <1>0, <2>4, TypesAre DEF EmmcInv, Requests, Booting, TypeRest, InCardInit, InRequest, Early,
                                  Middle, Late, Ensuring, Transferring
    <3>4. View' \in {[View EXCEPT !.done = {}], BD!Ended("fail")}
      <4>1. CASE Forget
        <5>1. "fail" \in {"ok", "fail"}
          OBVIOUS
        <5> QED
          BY <4>1, <5>1, ViewReturned DEF Forget
      <4>2. CASE at' = "transfer" /\ UNCHANGED <<req, buf, out>>
        <5>1. View' = [op |-> req.op, blocks |-> Span(req.n), buf |-> buf, done |-> {}, out |-> out]
          BY <4>2, DoneNext DEF View, Span
        <5>2. [View EXCEPT !.done = {}]
                = [op |-> req.op, blocks |-> Span(req.n), buf |-> buf, done |-> {}, out |-> out]
          <6> DEFINE o == req.op
                     all == Span(req.n)
                     d == Done
          <6>1. View = [op |-> o, blocks |-> all, buf |-> buf, done |-> d, out |-> out]
            BY DEF View
          <6> HIDE DEF o, all, d
          <6>2. [View EXCEPT !.done = {}]
                  = [op |-> o, blocks |-> all, buf |-> buf, done |-> {}, out |-> out]
            BY <6>1
          <6> QED
            BY <6>2 DEF o, all
        <5> QED
          BY <5>1, <5>2
      <4> QED
        BY <1>0, <4>1, <4>2 DEF NextTry
    <3>5. View.op = "write" /\ b \in View.blocks /\ View.buf = buf
      BY <3>2, <3>3, ViewParts
    <3>6. card'.data = [card.data EXCEPT ![b] = View.buf[b]]
      BY <2>1, <2>2, <2>4, <3>5
    <3> HIDE DEF b
    <3>7. View' \in {[View EXCEPT !.done = @ \cup {b}], [View EXCEPT !.done = {}], BD!Ended("fail")}
      BY <3>4
    <3> QED
      BY <3>5, <3>6, <3>7, ViewIs
  <2> QED
    BY <2>3, <2>4
<1> QED
  BY <1>1, <1>2 DEF BlockFails

\* A request succeeds when all its blocks have been moved.
LEMMA CompleteSeen ==
  ASSUME EmmcInv, Complete
  PROVE  BD!Next
<1>0. at = "block" /\ pos = req.n /\ UNCHANGED card
  BY DEF Complete
<1>1. CASE Return("ok")
  <2>1. View' = BD!Ended("ok")
    BY <1>1, ViewReturned
  <2>2. Done = Span(req.n)
    BY <1>0, DoneIs
  <2>3. req.op # "none" /\ req.n \in Nat /\ req.n > 0
    BY <1>0, TypesAre, EmmcAssumption
       DEF EmmcInv, TypeRest, Requests, Booting, InCardInit, InRequest, Early, Middle, Late, Ensuring,
           Transferring
  <2>4. Span(req.n) # {}
    BY <2>3, SpanHas
  <2>5. View.op # "none" /\ View.done = View.blocks /\ View.blocks # {}
    BY <2>2, <2>3, <2>4, ViewParts
  <2>6. \E result \in {"ok", "fail"} :
           /\ View.op # "none"
           /\ result = "ok" => View.done = View.blocks /\ View.blocks # {}
           /\ View' = BD!Ended(result)
           /\ card'.data = card.data
    BY <1>0, <2>1, <2>5
  <2> QED
    BY <2>6, ViewIs
<1>2. CASE NextTry
  BY <1>0, <1>2, NextTrySeen DEF Transferring
<1> QED
  BY <1>1, <1>2 DEF Complete

\* A request begins.
LEMMA CallSeen ==
  ASSUME EmmcInv, NEW op \in {"read", "write"}, NEW blk \in Block, NEW n \in 0 .. (Blocks - blk),
         NEW d \in Data, Call(op, blk, n, d)
  PROVE  BD!Next
<1>1. /\ req' = [op |-> op, blk |-> blk, n |-> n] /\ buf' = d /\ out' = "none"
      /\ card' = card /\ at = "requests" /\ at' # "block"
  BY DEF Call
<1>2. req.op = "none"
  BY <1>1 DEF EmmcInv, Requests, NoReq
<1> DEFINE blocks == {blk + i : i \in 0 .. (n - 1)}
<1>3. blocks \in SUBSET Block
  <2>1. Blocks \in Nat /\ blk \in Nat /\ n \in Nat /\ blk + n <= Blocks
    BY EmmcAssumption DEF Block
  <2>2. \A i \in 0 .. (n - 1) : blk + i \in Block
    BY <2>1 DEF Block
  <2> QED
    BY <2>2
<1>4. Span(req.n)' = blocks
  BY <1>1 DEF Span
<1>5. Done' = {}
  BY <1>1, DoneNext
<1>6. View' = [op |-> op, blocks |-> blocks, buf |-> d, done |-> {}, out |-> "none"]
  BY <1>1, <1>4, <1>5 DEF View
<1> HIDE DEF blocks
<1>7. View.op = "none" /\ card'.data = card.data /\ d \in BD!Data
  BY <1>1, <1>2, ViewParts, ViewIs
<1> QED
  BY <1>3, <1>6, <1>7, ViewIs

LEMMA IoctlUnseen ==
  ASSUME EmmcInv, NEW c \in {"GO_IDLE_STATE", "DESELECT_CARD", "RESERVED"}, Ioctl(c)
  PROVE  UNCHANGED BD!vars
<1>1. /\ at = "requests" /\ at' \in {"requests", "stuck"} /\ UNCHANGED data
      /\ Taken(c) \/ UNCHANGED card
  BY DEF Ioctl
<1>2. Done' = Done
  BY <1>1, DoneIs, DoneNext
<1>3. card'.data = card.data
  BY <1>1, TakenIs, TypesAre DEF EmmcInv, TypeLine, SameCard
<1> QED
  BY <1>1, <1>2, <1>3, Unseen DEF data

LEMMA InhibitedUnseen ==
  ASSUME EmmcInv, Inhibited
  PROVE  UNCHANGED BD!vars
<1>1. at # "block" /\ at' # "block" /\ UNCHANGED <<req, buf, out, card>>
  BY CommandsIs DEF Inhibited, data
<1>2. Done' = Done
  BY <1>1, DoneIs, DoneNext
<1> QED
  BY <1>1, <1>2, Unseen

\* Without its card a transfer has to start over, but for one that has moved
\* all its blocks.
LEMMA RemoveSeen ==
  ASSUME EmmcInv, Remove
  PROVE  BD!Next \/ UNCHANGED BD!vars
<1>1. /\ at' = at /\ UNCHANGED <<req, buf, pos, out>> /\ card' = [card EXCEPT !.in = FALSE]
  BY DEF Remove, data
<1>2. card'.data = card.data /\ card'.in = FALSE
  <2> DEFINE d == [card EXCEPT !.in = FALSE]
  <2>1. d.data = card.data /\ d.in = FALSE
    BY TypesAre, CardRemoved DEF EmmcInv, TypeLine
  <2> HIDE DEF d
  <2> QED
    BY <1>1, <2>1 DEF d
<1>3. CASE at = "block" /\ pos # req.n
  <2>1. ~Moving'
    BY <1>2 DEF Moving
  <2>2. Done' = {}
    BY <1>1, <1>3, <2>1, DoneNext
  <2> QED
    BY <1>1, <1>2, <2>2, StartsOver
<1>4. CASE ~(at = "block" /\ pos # req.n)
  <2>1. Span(pos)' = Span(pos)
    BY <1>1 DEF Span
  <2>2. Done' = Done
    BY <1>1, <1>4, <2>1, DoneIs, DoneNext
  <2> QED
    BY <1>1, <1>2, <2>2, Unseen
<1> QED
  BY <1>3, <1>4

\* Another card.
LEMMA InsertSeen ==
  ASSUME EmmcInv, NEW k \in Kinds, NEW v \in Value, Insert(k, v)
  PROVE  BD!Next
<1>1. /\ at' = at /\ UNCHANGED <<req, buf, pos, out>> /\ card' = Fresh(k, v) /\ ~card.in
  BY DEF Insert, data
<1>2. card'.data \in Data /\ card'.st = "idle"
  BY <1>1, FreshIs, CardFields
<1>3. ~Moving /\ ~Moving'
  BY <1>1, <1>2 DEF Moving
<1>4. Span(pos)' = Span(pos)
  BY <1>1 DEF Span
<1>5. Done' = Done /\ (Done = {} \/ (at = "block" /\ pos = req.n /\ Done = Span(req.n)))
  <2>1. CASE at = "block" /\ pos = req.n
    BY <1>1, <1>4, <2>1, DoneIs, DoneNext
  <2>2. CASE ~(at = "block" /\ pos = req.n)
    BY <1>1, <1>3, <2>2, DoneIs, DoneNext
  <2> QED
    BY <2>1, <2>2
<1>6. View' = View
  BY <1>1, <1>5 DEF View, Span
<1>7. View.done = View.blocks \/ View = [View EXCEPT !.done = {}]
  <2>1. CASE Done = Span(req.n)
    BY <2>1, ViewParts
  <2>2. CASE Done = {}
    <3> DEFINE o == req.op
               all == Span(req.n)
    <3>1. View = [op |-> o, blocks |-> all, buf |-> buf, done |-> {}, out |-> out]
      BY <2>2 DEF View
    <3> HIDE DEF o, all
    <3>2. [View EXCEPT !.done = {}] = [op |-> o, blocks |-> all, buf |-> buf, done |-> {}, out |-> out]
      BY <3>1
    <3> QED
      BY <3>1, <3>2
  <2> QED
    BY <1>5, <2>1, <2>2
<1>8. View' = IF View.done = View.blocks THEN View ELSE [View EXCEPT !.done = {}]
  BY <1>6, <1>7
<1>9. card'.data \in BD!Data
  BY <1>2, ViewIs
<1> QED
  BY <1>8, <1>9, ViewIs

LEMMA InitSeen == Init => BD!Init
<1> SUFFICES ASSUME Init PROVE BD!Init
  OBVIOUS
<1>1. /\ req.op = "none" /\ req.n = 0 /\ buf = Blank /\ out = "none" /\ at = "reset"
  BY DEF Init, NoReq
<1>2. card.data \in BD!Data
  <2>1. EmmcInv
    BY InitHolds
  <2> QED
    BY <2>1, TypesAre, CardFields, ViewIs DEF EmmcInv, TypeLine
<1>3. Span(req.n) = {}
  <2>1. 0 .. (0 - 1) = {}
    OBVIOUS
  <2> QED
    BY <1>1, <2>1 DEF Span
<1>4. Done = {}
  BY <1>1, DoneIs
<1>5. View = [op |-> "none", blocks |-> {}, buf |-> Blank, done |-> {}, out |-> "none"]
  BY <1>1, <1>3, <1>4 DEF View
<1> QED
  BY <1>2, <1>5, ViewIs

LEMMA NextSeen ==
  ASSUME EmmcInv, [Next]_vars
  PROVE  BD!Next \/ UNCHANGED BD!vars
<1>1. CASE CardInit
  BY <1>1, InitUnseen
<1>2. CASE EnsureDataMode
  BY <1>2, EnsureUnseen
<1>3. CASE Transfer
  BY <1>3, TransferUnseen
<1>4. CASE BlockMoves
  BY <1>4, BlockMovesSeen
<1>5. CASE BlockFails
  BY <1>5, BlockFailsSeen
<1>6. CASE Complete
  BY <1>6, CompleteSeen
<1>7. ASSUME NEW blk \in Block, NEW n \in 0 .. (Blocks - blk),
             \/ Call("read", blk, n, Blank)
             \/ \E d \in [blk .. (blk + n - 1) -> Value] :
                  Call("write", blk, n, [b \in Block |-> IF b \in DOMAIN d THEN d[b] ELSE Blank[b]])
      PROVE  BD!Next
  <2>1. Blank \in Data
    <3>1. (CHOOSE v \in Value : TRUE) \in Value
      BY EmmcAssumption
    <3> QED
      BY <3>1 DEF Blank, Data
  <2>2. PICK op \in {"read", "write"}, d \in Data : Call(op, blk, n, d)
    BY <1>7, <2>1, Written
  <2> QED
    BY <2>2, CallSeen
<1>8. ASSUME NEW c \in {"GO_IDLE_STATE", "DESELECT_CARD", "RESERVED"}, Ioctl(c)
      PROVE  UNCHANGED BD!vars
  BY <1>8, IoctlUnseen
<1>9. CASE Remove
  BY <1>9, RemoveSeen
<1>10. ASSUME NEW k \in Kinds, NEW v \in Value, Insert(k, v) PROVE BD!Next
  BY <1>10, InsertSeen
<1>11. CASE UNCHANGED vars
  <2>1. UNCHANGED <<at, req, buf, pos, out, card>>
    BY <1>11 DEF vars, data, line
  <2>2. Done' = Done /\ card'.data = card.data
    BY <2>1 DEF Done, Moving
  <2> QED
    BY <2>1, <2>2, Unseen
<1>12. CASE Inhibited
  BY <1>12, InhibitedUnseen
<1> QED
  BY <1>1, <1>2, <1>3, <1>4, <1>5, <1>6, <1>7, <1>8, <1>9, <1>10, <1>11, <1>12
     DEF Next, Driver, DoDataCommand

\* A request that succeeds has moved each of its blocks since the transfer last
\* started over, to or from one card: whatever goes wrong, and when, the driver
\* and the card are together a block device.
THEOREM ImplementsBlockDeviceCorrect == Spec => ImplementsBlockDevice
<1>1. EmmcInv /\ [Next]_vars => [BD!Next]_(BD!vars)
  BY NextSeen
<1> QED
  BY <1>1, InitSeen, EmmcInvCorrect, PTL DEF Spec, ImplementsBlockDevice, BD!Spec
=============================================================================
