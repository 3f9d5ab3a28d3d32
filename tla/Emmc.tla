-------------------------------- MODULE Emmc --------------------------------
(***************************************************************************)
(* The SD card driver: src/import/src/emmc.c behind the device of          *)
(* src/src/driver/sdcard.c.  Its calls are system calls with IRQs masked,  *)
(* so there is one at a time, but the card is another party: between any   *)
(* two commands it may be pulled out, replaced, or fail to answer.  One    *)
(* action is one command with its answer, one block of data, or one wait.  *)
(*                                                                         *)
(* The build has SD_1_8V_SUPPORT, SD_4BIT_DATA and SD_WRITE_SUPPORT, and   *)
(* no DMA.  Registers that only shape the signal (clock, timeouts, masks)  *)
(* are left out; kmalloc succeeds.                                         *)
(***************************************************************************)
EXTENDS Naturals, FiniteSets

CONSTANTS
  Blocks,     \* number of blocks of a card that requests address
  Value,      \* what a block can hold
  BLOCKLEN,   \* 512, the addresses of one block on a byte-addressed card
  MaxRetries, \* max_retries
  MaxFaults   \* a bound on what goes wrong in a behaviour

ASSUME EmmcAssumption ==
  /\ Blocks \in Nat \ {0} /\ BLOCKLEN \in Nat \ {0}
  /\ MaxRetries \in Nat \ {0} /\ MaxFaults \in Nat
  /\ Value # {}

Block == 0 .. (Blocks - 1)
Data == [Block -> Value]

VARIABLES
  at,       \* the command whose turn it is, a point between commands, or "stuck"
  bd,       \* sdcard.c's device: "null", "dev" or, after a kfree, "freed"
  rca, hc,  \* emmc_block_dev: card_rca is not 0, card_supports_emmchc
  failed,   \* failed_voltage_switch
  removal,  \* card_removal
  err,      \* last_error: "none" (0), "cmdTimeout" (bit 16) or "other"
  v2,       \* v2_later of card_init
  back,     \* the point of card_init's caller after its return
  slot,     \* whether card_init's dev argument is its caller's or a local
  req,      \* the read or write in progress
  buf,      \* its buffer, by block
  pos,      \* cur_block
  try,      \* retry_count
  out,      \* the result of the last request
  wide,     \* the host's side of the bus is 4 bits wide
  card,     \* the card: in the slot or not, its state, kind and contents
  irq,      \* SD_CARD_REMOVAL is pending in EMMC_INTERRUPT
  faults,   \* how often something went wrong, up to MaxFaults
  quiet     \* requests of a right size begun since it last did, up to 2

device == <<rca, hc, failed, wide>>
init == <<v2, back, slot>>
data == <<req, buf, pos, try, out>>
line == <<removal, err, card, irq, faults, quiet>>
vars == <<at, bd, device, init, data, line>>

NoReq == [op |-> "none", blk |-> 0, n |-> 0]
Blank == [b \in Block |-> CHOOSE v \in Value : TRUE]

-----------------------------------------------------------------------------
\* The card (external), by the SD specification's state machine as the
\* driver relies on it: <<command, state, state after>>.
CardStates == {"idle", "waking", "ready", "ident", "stby", "tran", "data", "rcv"}
Addressed == {"stby", "tran", "data", "rcv"}

CardSteps ==
  {<<"GO_IDLE_STATE", s, "idle">> : s \in CardStates} \cup
  {<<"SEND_STATUS", s, s>> : s \in Addressed} \cup
  {<<"STOP_TRANSMISSION", s, "tran">> : s \in {"data", "rcv"}} \cup
  {<<"DESELECT_CARD", s, "stby">> : s \in {"stby", "tran", "data"}} \cup
  {<<"READ_BLOCKS", "tran", "data">>, <<"WRITE_BLOCKS", "tran", "rcv">>,
   <<"SEND_IF_COND", "idle", "idle">>, <<"OCR_INQUIRY", "idle", "idle">>,
   <<"SD_SEND_OP_COND", "idle", "waking">>, <<"SD_SEND_OP_COND", "idle", "ready">>,
   <<"SD_SEND_OP_COND", "waking", "waking">>,
   <<"SD_SEND_OP_COND", "waking", "ready">>, <<"VOLTAGE_SWITCH", "ready", "ready">>,
   <<"ALL_SEND_CID", "ready", "ident">>, <<"SEND_RELATIVE_ADDR", "ident", "stby">>,
   <<"SELECT_CARD", "stby", "tran">>, <<"SET_BLOCKLEN", "tran", "tran">>,
   <<"SEND_SCR", "tran", "tran">>, <<"SET_BUS_WIDTH", "tran", "tran">>}

\* The commands that emmc_commands and emmc_acommands do not mark as reserved,
\* as far as they are used here.
Commands == {t[1] : t \in CardSteps} \cup {"IO_SET_OP_COND"}

\* The states a command may lead to, none if it gets no answer.  CMD0 needs
\* none.  A card of the first version does not know CMD8, and one with high
\* capacity stays busy when ACMD41 does not announce support for it.
After(c) ==
  LET next == {t[3] : t \in {t \in CardSteps : t[1] = c /\ t[2] = card.st}}
  IN  CASE ~card.in /\ c = "GO_IDLE_STATE" -> {card.st}
        [] ~card.in /\ c # "GO_IDLE_STATE" -> {}
        [] card.in /\ c = "SEND_IF_COND" /\ ~card.v2 -> {}
        [] card.in /\ c = "SD_SEND_OP_COND" /\ card.hc /\ ~v2 /\ next # {} -> {card.st}
        [] OTHER -> next

\* The effect of a command on the card apart from its state.
Width(c) == CASE c = "GO_IDLE_STATE" -> FALSE
              [] c = "SET_BUS_WIDTH" -> TRUE
              [] OTHER -> card.wide

\* The card takes a command.
Taken(c) == \E s \in After(c) : card' = [card EXCEPT !.st = s, !.wide = Width(c)]

\* The block that an address of a command names, Blocks if none.
Named(addr) == IF card.hc THEN addr
               ELSE IF addr % BLOCKLEN = 0 THEN addr \div BLOCKLEN ELSE Blocks

-----------------------------------------------------------------------------
Fault == /\ faults < MaxFaults
         /\ faults' = faults + 1
         /\ quiet' = 0
NoFault == UNCHANGED <<faults, quiet>>

\* emmc_handle_interrupts: a removal is noted in the device, and only
\* card_init's memset takes the note away.
HandleInterrupts == irq' = FALSE /\ removal' = (removal \/ irq)

\* emmc_issue_command_int up to the response.  A command the card does not
\* answer ends in a command timeout.  When something goes wrong on the way
\* the card may or may not have taken it.
IssueInt(c, ok) ==
  \/ /\ ok /\ NoFault
     /\ Taken(c) /\ UNCHANGED err
  \/ /\ ~ok /\ NoFault /\ After(c) = {}
     /\ err' = "cmdTimeout"
     /\ UNCHANGED card
  \/ /\ ~ok /\ Fault
     /\ err' \in {"cmdTimeout", "other"}
     /\ Taken(c) \/ UNCHANGED card

\* emmc_issue_command: after a removal nothing is issued, and last_error is
\* left alone.
Issue(c, ok) ==
  /\ HandleInterrupts
  /\ IF removal' THEN ~ok /\ NoFault /\ UNCHANGED <<card, err>> ELSE IssueInt(c, ok)

\* The wait of emmc_issue_command_int for the command line, and for a free data
\* line before a command with busy, has no timeout.
Inhibited ==
  /\ at \in Commands \cup {"SELECT_CARD_INIT", "recheck", "transfer"}
  /\ HandleInterrupts /\ ~removal'
  /\ Fault
  /\ at' = "stuck"
  /\ UNCHANGED <<bd, device, init, data, err, card>>

\* A request is answered, and its buffer is the caller's again.
Return(result) ==
  /\ at' = "requests"
  /\ out' = result
  /\ req' = NoReq /\ buf' = Blank /\ pos' = 0 /\ try' = 0

-----------------------------------------------------------------------------
\* Variant of InitFails: every failure frees the device.
InitFailsAndFrees(frees) ==
  /\ bd' = IF bd = "dev" THEN "freed" ELSE bd
  /\ IF back = "boot" THEN at' = "off" /\ UNCHANGED data ELSE Return("fail")
  /\ UNCHANGED <<device, init>>

\* card_init gives up.  Once the card has an address it frees the device it
\* was given.  At boot, add_device then drops the driver.
InitFails(frees) ==
  /\ bd' = IF frees /\ bd = "dev" THEN "freed" ELSE bd
  /\ IF back = "boot" THEN at' = "off" /\ UNCHANGED data ELSE Return("fail")
  /\ UNCHANGED <<device, init>>

\* One command of card_init: where it goes from here, or that it gives up.
InitStep(c, next, frees) ==
  /\ at = c
  /\ \/ /\ Issue(c, TRUE) /\ at' = next
        /\ UNCHANGED <<bd, device, init, data>>
     \/ Issue(c, FALSE) /\ InitFails(frees)

\* card_init up to its memset: the controller and the card detection may
\* fail, in which case the device is as it was.
Reset ==
  /\ at = "reset"
  /\ \/ /\ card.in
        /\ at' = "GO_IDLE_STATE"
        /\ rca' = FALSE /\ hc' = FALSE /\ failed' = FALSE /\ removal' = FALSE
        /\ err' = "none" /\ irq' = FALSE /\ wide' = FALSE
        /\ NoFault
        /\ UNCHANGED <<bd, init, data, card>>
     \/ /\ (~card.in /\ NoFault) \/ Fault
        /\ InitFails(FALSE)
        /\ UNCHANGED <<removal, err, card, irq>>

GoIdle == InitStep("GO_IDLE_STATE", "SEND_IF_COND", FALSE)

\* CMD8: no answer, in either way, is a card of the first version.
SendIfCond ==
  /\ at = "SEND_IF_COND"
  /\ \E ok \in BOOLEAN :
       /\ Issue("SEND_IF_COND", ok)
       /\ IF ~ok /\ err' = "other" THEN InitFails(FALSE)
          ELSE /\ at' = "IO_SET_OP_COND" /\ v2' = ok
               /\ UNCHANGED <<bd, device, back, slot, data>>

\* CMD5: only an SDIO card answers, which is not one of these.
IoSetOpCond ==
  /\ at = "IO_SET_OP_COND"
  /\ Issue("IO_SET_OP_COND", FALSE)
  /\ IF err' = "other" THEN InitFails(FALSE)
     ELSE at' = "OCR_INQUIRY" /\ UNCHANGED <<bd, device, init, data>>

OcrInquiry == InitStep("OCR_INQUIRY", "SD_SEND_OP_COND", FALSE)

\* The card is ready: emmc_switch_clock_rate waits for free lines, again
\* without a timeout.
ClockStuck ==
  /\ HandleInterrupts /\ ~removal'
  /\ Fault
  /\ Taken(at) /\ card'.st = "ready"
  /\ hc' = (card.hc /\ v2)
  /\ at' = "stuck"
  /\ UNCHANGED <<bd, rca, failed, wide, init, data, err>>

\* ACMD41 until the card is ready, however often it says that it is busy.
SendOpCond ==
  /\ at = "SD_SEND_OP_COND"
  /\ \/ /\ Issue(at, TRUE)
        /\ IF card'.st = "ready"
             THEN /\ hc' = (card.hc /\ v2)
                  /\ at' = IF card.s18 /\ v2 /\ ~failed THEN "VOLTAGE_SWITCH" ELSE "ALL_SEND_CID"
             ELSE UNCHANGED <<hc, at>>
        /\ UNCHANGED <<bd, rca, failed, wide, init, data>>
     \/ Issue(at, FALSE) /\ InitFails(FALSE)
     \/ ClockStuck

\* CMD11 and the checks of the data lines and of the signal bit after it.  A
\* failure cuts the power and starts card_init again, on a local pointer.
VoltageSwitch ==
  /\ at = "VOLTAGE_SWITCH"
  /\ \/ /\ Issue(at, TRUE)
        /\ at' = "ALL_SEND_CID"
        /\ UNCHANGED <<failed, slot>>
     \/ /\ \/ Issue(at, FALSE)
           \/ Fault /\ UNCHANGED <<removal, err, card, irq>>
        /\ failed' = TRUE /\ slot' = "local"
        /\ at' = "reset"
  /\ UNCHANGED <<bd, rca, hc, wide, v2, back, data>>

AllSendCid == InitStep("ALL_SEND_CID", "SEND_RELATIVE_ADDR", FALSE)

SendRelativeAddr ==
  /\ at = "SEND_RELATIVE_ADDR"
  /\ \/ /\ Issue(at, TRUE)
        /\ rca' = TRUE /\ at' = "SELECT_CARD_INIT"
        /\ UNCHANGED <<bd, hc, failed, wide, init, data>>
     \/ Issue(at, FALSE) /\ InitFails(TRUE)

SelectInit ==
  /\ at = "SELECT_CARD_INIT"
  /\ \/ /\ Issue("SELECT_CARD", TRUE)
        /\ at' = IF hc THEN "SEND_SCR" ELSE "SET_BLOCKLEN"
        /\ UNCHANGED <<bd, device, init, data>>
     \/ Issue("SELECT_CARD", FALSE) /\ InitFails(TRUE)

SetBlocklen == InitStep("SET_BLOCKLEN", "SEND_SCR", TRUE)

\* ACMD51, and whether the card can use four data lines.
SendScr == \E next \in {"SET_BUS_WIDTH", "initialised"} : InitStep("SEND_SCR", next, TRUE)

\* ACMD6: the host follows when it is told that the card has.
SetBusWidth ==
  /\ at = "SET_BUS_WIDTH"
  /\ \E ok \in BOOLEAN : Issue(at, ok) /\ wide' = ok
  /\ at' = "initialised"
  /\ UNCHANGED <<bd, rca, hc, failed, init, data>>

\* The end of card_init: all interrupts are cleared, a removal's too.
Initialised ==
  /\ at = "initialised"
  /\ irq' = FALSE
  /\ bd' = IF back = "boot" /\ slot = "caller" THEN "dev" ELSE bd
  /\ at' = IF back = "boot" THEN "requests" ELSE back
  /\ UNCHANGED <<device, init, data, removal, err, card, faults, quiet>>

-----------------------------------------------------------------------------
\* read_sdcard and write_sdcard hand on the device whatever it is; one that
\* is not there is memory that is not the driver's.
Call(op, blk, n, d) ==
  /\ at = "requests"
  /\ req' = [op |-> op, blk |-> blk, n |-> n]
  /\ buf' = d
  /\ out' = "none"
  /\ quiet' = IF n > 0 /\ quiet < 2 THEN quiet + 1 ELSE quiet
  /\ IF bd # "dev" THEN at' = "wild" /\ UNCHANGED init
     ELSE IF rca THEN at' = "SEND_STATUS" /\ UNCHANGED init
     ELSE at' = "reset" /\ back' = "SEND_STATUS" /\ slot' = "caller" /\ UNCHANGED v2
  /\ UNCHANGED <<bd, device, pos, try, removal, err, card, irq, faults>>

\* Variant of Forget: the card is taken to be as it was.
ForgetNothing ==
  /\ Return("fail")
  /\ UNCHANGED <<bd, device, init>>

\* ensure_data_mode and do_data_command give up: the next request starts
\* from the initialisation of the card.
Forget ==
  /\ rca' = FALSE
  /\ Return("fail")
  /\ UNCHANGED <<bd, hc, failed, wide, init>>

\* The card is in the transfer state: the number of blocks is looked at.
InDataMode == IF req.n = 0 THEN Return("fail") ELSE at' = "transfer" /\ UNCHANGED data

\* CMD13, and what the card's state calls for.
SendStatus ==
  /\ at = "SEND_STATUS"
  /\ \/ /\ Issue(at, TRUE)
        /\ CASE card.st = "tran" -> InDataMode /\ UNCHANGED init
             [] card.st = "stby" -> at' = "SELECT_CARD" /\ UNCHANGED <<init, data>>
             [] card.st = "data" -> at' = "STOP_TRANSMISSION" /\ UNCHANGED <<init, data>>
             [] OTHER -> /\ at' = "reset" /\ back' = "recheck" /\ slot' = "caller"
                         /\ UNCHANGED <<v2, data>>
        /\ UNCHANGED <<bd, device>>
     \/ Issue(at, FALSE) /\ Forget

\* CMD7 or CMD12.
Select ==
  /\ at \in {"SELECT_CARD", "STOP_TRANSMISSION"}
  /\ \/ /\ Issue(at, TRUE)
        /\ at' = "recheck"
        /\ UNCHANGED <<bd, device, init, data>>
     \/ Issue(at, FALSE) /\ Forget

Recheck ==
  /\ at = "recheck"
  /\ \E ok \in BOOLEAN :
       /\ Issue("SEND_STATUS", ok)
       /\ IF ok /\ card.st = "tran" THEN InDataMode /\ UNCHANGED <<bd, device, init>>
          ELSE Forget

\* Variant of NextTry: one more try than there are.
NextTryAgain ==
  IF try = MaxRetries THEN Forget
  ELSE /\ at' = "transfer" /\ try' = try + 1 /\ pos' = 0
       /\ UNCHANGED <<bd, device, init, req, buf, out>>

\* Variant of NextTry: the tries are not counted.
NextTryUncounted ==
  IF try + 1 = MaxRetries THEN Forget
  ELSE /\ at' = "transfer" /\ pos' = 0
       /\ UNCHANGED <<bd, device, init, req, buf, try, out>>

\* A try of a transfer failed.
NextTry ==
  IF try + 1 = MaxRetries THEN Forget
  ELSE /\ at' = "transfer" /\ try' = try + 1 /\ pos' = 0
       /\ UNCHANGED <<bd, device, init, req, buf, out>>

\* CMD17, 18, 24 or 25.
Transfer ==
  LET c == IF req.op = "read" THEN "READ_BLOCKS" ELSE "WRITE_BLOCKS" IN
  /\ at = "transfer"
  /\ \/ /\ Issue(c, TRUE)
        /\ at' = "block" /\ pos' = 0
        /\ UNCHANGED <<bd, device, init, req, buf, try, out>>
     \/ Issue(c, FALSE) /\ NextTry

\* The address that the command of this request carried, and the block that
\* the card has got to.
Address == IF hc THEN req.blk ELSE req.blk * BLOCKLEN
Reached == Named(Address) + pos
Flows == card.in /\ card.st \in {"data", "rcv"} /\ card.wide = wide /\ Reached \in Block

\* With one block the card goes back by itself, with more it waits for CMD12,
\* which nobody sends before the next request.
Closed(c) == IF req.n = 1 /\ c.st \in {"data", "rcv"} THEN [c EXCEPT !.st = "tran"] ELSE c

Moved == IF req.op = "read" THEN card
         ELSE [card EXCEPT !.data[Reached] = buf[req.blk + pos]]

\* One block, when the buffer-ready interrupt has come.
BlockMoves ==
  /\ at = "block" /\ pos < req.n /\ Flows
  /\ buf' = IF req.op = "read" THEN [buf EXCEPT ![req.blk + pos] = card.data[Reached]] ELSE buf
  /\ pos' = pos + 1
  /\ card' = IF pos' = req.n THEN Closed(Moved) ELSE Moved
  /\ UNCHANGED <<at, bd, device, init, req, try, out, removal, err, irq, faults, quiet>>

\* Variant of BlockFails: the transfer goes on with the next block.
BlockFailsUnseen ==
  /\ at = "block" /\ pos < req.n
  /\ ~Flows \/ faults < MaxFaults
  /\ err' = "other" /\ pos' = pos + 1
  /\ card' = IF pos' = req.n THEN Closed(card) ELSE card
  /\ UNCHANGED <<at, bd, device, init, req, buf, try, out, removal, irq, faults, quiet>>

\* An error or a timeout instead; a block on its way to the card may have
\* been written all the same.
BlockFails ==
  /\ at = "block" /\ pos < req.n
  /\ \/ ~Flows /\ NoFault /\ card' = Closed(card)
     \/ Flows /\ Fault /\ card' \in {Closed(card), Closed(Moved)}
  /\ err' = "other"
  /\ NextTry
  /\ UNCHANGED <<removal, irq>>

\* Waiting for the transfer to complete.
Complete ==
  /\ at = "block" /\ pos = req.n
  /\ \/ Return("ok") /\ NoFault /\ UNCHANGED <<bd, device, init, err>>
     \/ Fault /\ err' = "other" /\ NextTry
  /\ UNCHANGED <<removal, card, irq>>

-----------------------------------------------------------------------------
\* ioctl_sdcard passes any command of a user on: here a reset or a
\* deselection of the card, or a reserved command, refused by its table entry.
Ioctl(c) ==
  /\ at = "requests" /\ bd = "dev"
  /\ Fault
  /\ HandleInterrupts
  /\ IF removal' \/ c \notin Commands THEN UNCHANGED <<at, card, err>>
     ELSE \/ Taken(c) /\ UNCHANGED <<at, err>>
          \/ After(c) = {} /\ err' = "cmdTimeout" /\ UNCHANGED <<at, card>>
          \/ at' = "stuck" /\ UNCHANGED <<card, err>>
  /\ UNCHANGED <<bd, device, init, data>>

\* The user pulls the card out and puts one in, with other contents and of
\* another kind (external), while the driver still has its device.
Kinds == {[v2 |-> TRUE, hc |-> TRUE, s18 |-> TRUE], [v2 |-> TRUE, hc |-> FALSE, s18 |-> FALSE],
          [v2 |-> FALSE, hc |-> FALSE, s18 |-> FALSE]}
Fresh(k, v) == [in |-> TRUE, st |-> "idle", wide |-> FALSE, v2 |-> k.v2, hc |-> k.hc,
                s18 |-> k.s18, data |-> [b \in Block |-> v]]

Remove == /\ card.in /\ at \notin {"off", "wild", "stuck"} /\ Fault
          /\ card' = [card EXCEPT !.in = FALSE]
          /\ irq' = TRUE
          /\ UNCHANGED <<at, bd, device, init, data, removal, err>>

Insert(k, v) == /\ ~card.in /\ at \notin {"off", "wild", "stuck"}
                /\ card' = Fresh(k, v)
                /\ quiet' = 0
                /\ UNCHANGED <<at, bd, device, init, data, removal, err, irq, faults>>

Init ==
  /\ at = "reset" /\ bd = "null" /\ back = "boot" /\ slot = "caller"
  /\ rca = FALSE /\ hc = FALSE /\ failed = FALSE /\ removal = FALSE /\ err = "none"
  /\ v2 = FALSE /\ wide = FALSE /\ irq = FALSE
  /\ req = NoReq /\ buf = Blank /\ pos = 0 /\ try = 0 /\ out = "none"
  /\ \E k \in Kinds, v \in Value : card = Fresh(k, v)
  /\ faults = 0 /\ quiet = 0

CardInit ==
  \/ Reset \/ GoIdle \/ SendIfCond \/ IoSetOpCond \/ OcrInquiry \/ SendOpCond \/ VoltageSwitch
  \/ AllSendCid \/ SendRelativeAddr \/ SelectInit \/ SetBlocklen \/ SendScr \/ SetBusWidth
  \/ Initialised
EnsureDataMode == SendStatus \/ Select \/ Recheck
DoDataCommand == Transfer \/ BlockMoves \/ BlockFails \/ Complete
Driver == Inhibited \/ CardInit \/ EnsureDataMode \/ DoDataCommand

Next ==
  \/ Driver
  \/ \E blk \in Block : \E n \in 0 .. (Blocks - blk) :
       \/ Call("read", blk, n, Blank)
       \/ \E d \in [blk .. (blk + n - 1) -> Value] :
            Call("write", blk, n, [b \in Block |-> IF b \in DOMAIN d THEN d[b] ELSE Blank[b]])
  \/ \E c \in {"GO_IDLE_STATE", "DESELECT_CARD", "RESERVED"} : Ioctl(c)
  \/ Remove
  \/ \E k \in Kinds, v \in Value : Insert(k, v)

Spec == Init /\ [][Next]_vars

\* The CPU goes on with a driver call it has begun.
FairSpec == Spec /\ WF_vars(Driver)

(***************************************************************************)
(*                             Properties                                  *)
(***************************************************************************)

TypeOK ==
  /\ at \in {"reset", "requests", "off", "wild", "stuck", "initialised", "recheck", "transfer", "block",
             "SELECT_CARD_INIT"} \cup Commands
  /\ bd \in {"null", "dev", "freed"}
  /\ {rca, hc, failed, removal, v2, wide, irq} \subseteq BOOLEAN
  /\ err \in {"none", "cmdTimeout", "other"}
  /\ back \in {"boot", "SEND_STATUS", "recheck"} /\ slot \in {"caller", "local"}
  /\ req \in [op : {"none", "read", "write"}, blk : Block, n : 0 .. Blocks]
  /\ buf \in Data /\ pos \in 0 .. req.n /\ try \in 0 .. (MaxRetries - 1)
  /\ out \in {"none", "ok", "fail"}
  /\ card \in [in : BOOLEAN, st : CardStates, wide : BOOLEAN, v2 : BOOLEAN, hc : BOOLEAN,
               s18 : BOOLEAN, data : Data]
  /\ faults \in 0 .. MaxFaults /\ quiet \in 0 .. 2

\* emmc.c 1021, 1096, 1141-1181, sdcard.c 4: a driver that has its device loses
\* it (kfree of the block bd points to) only in a request during which something
\* went wrong, never afterwards in one during which nothing did; and it has none
\* between requests only if the voltage switch failed at boot, when card_init
\* stores it through a pointer of its own.
DeviceKept ==
  [][/\ bd = "dev" /\ bd' # "dev" => quiet' = 0
     /\ at' = "requests" /\ bd' = "null" => slot' = "local"]_vars

\* emmc.c 1243-1386: whatever has gone wrong, the driver recovers: the second
\* request of a right size begun since then succeeds, if a card is in.
SecondTrySucceeds ==
  [][at # "requests" /\ at' = "requests" /\ out' = "fail" /\ quiet' = 2 /\ req.n # 0
       => ~card'.in]_vars

\* emmc.c 385, 490, 504, 962: every call of the driver ends, unless it stays for
\* good where the code waits without a bound: for the command or data line after
\* something went wrong, or for a card that answers every ACMD41 that it is busy.
\* No retry, restart of card_init or recheck of the card goes on for ever.
InCall == at \notin {"requests", "off", "wild"}
CallReturns == \/ InCall ~> ~InCall
               \/ <>[](at = "stuck")
               \/ <>[](at = "SD_SEND_OP_COND")
=============================================================================
