------------------------------- MODULE Mailbox -------------------------------
(***************************************************************************)
(* The mailbox to the GPU, src/src/mailbox.c, and who waits on it: the     *)
(* framebuffer request of graphics.c at boot, then the requests of emmc.c  *)
(* for the card's power and its clock, which share one buffer in memory.   *)
(* The GPU is another party: it serves requests when it likes, and a       *)
(* request that timed out is still served, from the buffer as it is then.  *)
(***************************************************************************)
EXTENDS Naturals, Sequences

CONSTANTS
  MAILBOX_TIMEOUT,  \* how often an empty mailbox is looked at
  Depth,            \* how many messages the mailbox holds each way
  MaxStray,         \* a bound on the messages for channels nobody reads
  MaxAsk            \* a bound on the requests for power and clock

ASSUME MailboxAssumption ==
  /\ {MAILBOX_TIMEOUT, Depth} \subseteq Nat \ {0} /\ {MaxStray, MaxAsk} \subseteq Nat

VARIABLES
  cpu,      \* where the CPU is: see TypeMailbox
  to,       \* messages to the GPU: their channel
  from,     \* messages from it: their channel, and whether the data is 0
  buffer,   \* mailbuffer: the request in it, its code, the value returned
  fb,       \* framebuffer->ptr, and what init_graphics made of it
  call,     \* the request that is made or was made last
  result,   \* and its result: "done" (0), "other" (1) or "fail"
  timeout,  \* of read_mailbox
  power,    \* whether the card has power
  cycled,   \* it has been without since bcm_2708_power_off was called
  off,      \* the result of the power_off that the last power_on follows
  stray,    \* messages for other channels so far
  asked     \* requests for power and clock so far

gpu == <<to, from, buffer, fb, power, cycled, stray>>
mailbox == <<cpu, to, from, buffer, fb, call, result, timeout, power, cycled, off, stray, asked>>

MailboxInit ==
  /\ cpu = "write" /\ call = "framebuffer"
  /\ to = <<>> /\ from = <<>>
  /\ buffer = [of |-> "none", code |-> "failure", value |-> "none"]
  /\ fb = "unset" /\ result = "none" /\ timeout = 0
  /\ power \in BOOLEAN /\ cycled = FALSE /\ off = "none"
  /\ stray = 0 /\ asked = 0

Channel == IF call = "framebuffer" THEN 1 ELSE 8

-----------------------------------------------------------------------------
\* The GPU (external) takes a message.  The framebuffer it may give or not.
ServeFb ==
  /\ Head(to) = 1
  /\ \E p \in {"null", "given"}, zero \in BOOLEAN :
       /\ fb' = p
       /\ from' = Append(from, [chan |-> 1, zero |-> zero])
  /\ UNCHANGED <<buffer, power, cycled>>

\* A request in the buffer is served or refused.  What is there may be a
\* response already.
ServeProp ==
  /\ Head(to) = 8
  /\ \/ /\ buffer.code = "request" /\ buffer.of \in {"off", "on"}
        /\ power' = (buffer.of = "on")
        /\ cycled' = (cycled \/ ~power')
        /\ buffer' = [buffer EXCEPT !.code = "success", !.value = buffer.of]
     \/ /\ buffer.code = "request" /\ buffer.of = "clock"
        /\ buffer' = [buffer EXCEPT !.code = "success", !.value = "rate"]
        /\ UNCHANGED <<power, cycled>>
     \/ /\ buffer' = IF buffer.code = "request" THEN [buffer EXCEPT !.code = "failure"] ELSE buffer
        /\ UNCHANGED <<power, cycled>>
  /\ from' = Append(from, [chan |-> 8, zero |-> FALSE])
  /\ UNCHANGED fb

Serve ==
  /\ to # <<>> /\ Len(from) < Depth
  /\ to' = Tail(to)
  /\ ServeFb \/ ServeProp
  /\ UNCHANGED <<cpu, call, result, timeout, off, stray, asked>>

\* A message for a channel that nobody reads.
Stray ==
  /\ stray < MaxStray /\ Len(from) < Depth
  /\ stray' = stray + 1
  /\ from' = Append(from, [chan |-> 0, zero |-> TRUE])
  /\ UNCHANGED <<cpu, to, buffer, fb, call, result, timeout, power, cycled, off, asked>>

-----------------------------------------------------------------------------
\* write_mailbox, which waits for room without a bound.
WriteMailbox ==
  /\ cpu = "write" /\ Len(to) < Depth
  /\ to' = Append(to, Channel)
  /\ cpu' = "read" /\ timeout' = 0
  /\ UNCHANGED <<from, buffer, fb, call, result, power, cycled, off, stray, asked>>

\* Variant of Judged: the value in the response is not looked at.
JudgedLax == IF buffer.code # "success" THEN "fail" ELSE "done"

\* What the callers make of the buffer, whatever read_mailbox returned.
Judged ==
  LET wanted == IF call = "clock" THEN "rate" ELSE call IN
  CASE buffer.code = "success" /\ buffer.value = wanted -> "done"
    [] buffer.code = "success" /\ buffer.value # wanted /\ call # "clock" -> "other"
    [] OTHER -> "fail"

\* Variant of PollEmpty: the counter starts again.
PollEmptyAgain ==
  /\ cpu = "read" /\ from = <<>>
  /\ timeout' = (timeout + 1) % MAILBOX_TIMEOUT
  /\ UNCHANGED <<cpu, result, call, gpu, off, asked>>

\* Variant of TimeLeft: one poll too many.
TimeLeftLate == timeout <= MAILBOX_TIMEOUT

TimeLeft == timeout < MAILBOX_TIMEOUT

\* read_mailbox on an empty mailbox.  init_framebuffer asks again when it
\* gives up.
PollEmpty ==
  /\ cpu = "read" /\ from = <<>>
  /\ IF TimeLeft THEN timeout' = timeout + 1 /\ UNCHANGED <<cpu, result>>
     ELSE /\ timeout' = 0
          /\ IF call = "framebuffer" THEN UNCHANGED <<cpu, result>>
             ELSE cpu' = "up" /\ result' = Judged
  /\ UNCHANGED <<call, gpu, off, asked>>

\* Variant of Mine: messages for other channels are taken too.
MineAny(msg) == TRUE

\* The test of the channel in read_mailbox.
Mine(msg) == msg.chan = Channel

\* init_framebuffer with an answer: it waits for one of 0 and then takes the
\* pointer, whose bus address becomes an address of the CPU.
TakeFramebuffer(msg) ==
  IF msg.zero
    THEN /\ cpu' = "up"
         /\ result' = IF fb = "given" THEN "done" ELSE "fail"
         /\ fb' = IF fb = "given" THEN "ready" ELSE fb
    ELSE UNCHANGED <<cpu, result, fb>>

\* read_mailbox with a message: others' are thrown away, and the counter goes
\* on.
PollMessage ==
  /\ cpu = "read" /\ from # <<>>
  /\ from' = Tail(from)
  /\ IF ~Mine(Head(from)) THEN UNCHANGED <<cpu, timeout, result, fb>>
     ELSE /\ timeout' = 0
          /\ IF call = "framebuffer" THEN TakeFramebuffer(Head(from))
             ELSE cpu' = "up" /\ result' = Judged /\ UNCHANGED fb
  /\ UNCHANGED <<to, buffer, call, power, cycled, off, stray, asked>>

-----------------------------------------------------------------------------
\* What may be asked after the last request, as emmc_card_init goes.
Follows ==
  CASE call = "off" /\ result # "fail" -> {"on"}
    [] call = "on" /\ result = "done" -> {"clock", "off"}
    [] OTHER -> {"off"}

\* The code of the buffer is set first: until the rest is, the request in it
\* is the one before.
Ask ==
  /\ cpu = "up" /\ asked < MaxAsk
  /\ asked' = asked + 1
  /\ call' \in Follows
  /\ cycled' = IF call' = "off" THEN ~power ELSE cycled
  /\ off' = IF call' = "on" THEN result ELSE off
  /\ buffer' = [buffer EXCEPT !.code = "request"]
  /\ cpu' = "fill" /\ result' = "none"
  /\ UNCHANGED <<to, from, fb, timeout, power, stray>>

Fill ==
  /\ cpu = "fill"
  /\ buffer' = [buffer EXCEPT !.of = call, !.value = "none"]
  /\ cpu' = "write"
  /\ UNCHANGED <<to, from, fb, call, result, timeout, power, cycled, off, stray, asked>>

Cpu == WriteMailbox \/ PollEmpty \/ PollMessage \/ Fill
MailboxNext == Cpu \/ Ask \/ Serve \/ Stray

(***************************************************************************)
(*                             Properties                                  *)
(***************************************************************************)

TypeMailbox ==
  /\ cpu \in {"write", "read", "fill", "up"}
  /\ call \in {"framebuffer", "off", "on", "clock"}
  /\ Len(to) <= Depth /\ Len(from) <= Depth
  /\ fb \in {"unset", "null", "given", "ready"}
  /\ result \in {"none", "done", "other", "fail"}
  /\ timeout \in 0 .. MAILBOX_TIMEOUT

\* emmc.c 230-314: when the power cycle is taken to have worked, the card has
\* power and has been without before, although answers may be late, and may be
\* answers to something else.  A result of 1 of bcm_2708_power_off (the state in
\* the answer is not "off"), which power_cycle lets pass, may mean that the card
\* had power all along.
PowerCycled ==
  cpu = "up" /\ call = "on" /\ result = "done" => power /\ (off = "done" => cycled)

\* A request for power or clock comes to its end as soon as its message is
\* written, by the timeout if need be.
ReadEnds == cpu = "read" /\ call # "framebuffer" ~> cpu = "up"
=============================================================================
