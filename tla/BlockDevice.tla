----------------------------- MODULE BlockDevice -----------------------------
(***************************************************************************)
(* What emmc_read and emmc_write of src/import/include/emmc.h promise      *)
(* their caller.  A call moves its blocks one by one, may start over, and  *)
(* may fail at any time; it succeeds only when every block has been moved  *)
(* since it last started over, all of them to or from one card.            *)
(***************************************************************************)
EXTENDS Naturals

CONSTANTS Block, Value

VARIABLES
  medium,  \* what the card in the slot holds
  call     \* the call in progress and the outcome of the one before

vars == <<medium, call>>

Data == [Block -> Value]

Blank == [b \in Block |-> CHOOSE v \in Value : TRUE]
Ended(out) == [op |-> "none", blocks |-> {}, buf |-> Blank, done |-> {}, out |-> out]

Init == medium \in Data /\ call = Ended("none")

Begin(op, blocks, buf) ==
  /\ call.op = "none"
  /\ call' = [op |-> op, blocks |-> blocks, buf |-> buf, done |-> {}, out |-> "none"]
  /\ UNCHANGED medium

Read(b) ==
  /\ call.op = "read"
  /\ call' = [call EXCEPT !.buf[b] = medium[b], !.done = @ \cup {b}]
  /\ UNCHANGED medium

\* A block that is written may be the one that the call fails with.
Write(b) ==
  /\ call.op = "write"
  /\ medium' = [medium EXCEPT ![b] = call.buf[b]]
  /\ call' \in {[call EXCEPT !.done = @ \cup {b}], [call EXCEPT !.done = {}], Ended("fail")}

StartOver ==
  /\ call' = [call EXCEPT !.done = {}]
  /\ UNCHANGED medium

\* The buffer, as it is now, is the caller's again.
Return(out) ==
  /\ call.op # "none"
  /\ out = "ok" => call.done = call.blocks /\ call.blocks # {}
  /\ call' = Ended(out)
  /\ UNCHANGED medium

\* Another card comes in; a call that has not moved all its blocks has moved
\* none of the new one's.
Replace(data) ==
  /\ medium' = data
  /\ call' = IF call.done = call.blocks THEN call ELSE [call EXCEPT !.done = {}]

Next ==
  \/ \E op \in {"read", "write"}, blocks \in SUBSET Block, buf \in Data : Begin(op, blocks, buf)
  \/ \E b \in call.blocks : Read(b) \/ Write(b)
  \/ StartOver
  \/ \E out \in {"ok", "fail"} : Return(out)
  \/ \E data \in Data : Replace(data)

Spec == Init /\ [][Next]_vars
=============================================================================
