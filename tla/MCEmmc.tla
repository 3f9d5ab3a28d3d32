------------------------------- MODULE MCEmmc -------------------------------
\* Model-checking instances of Emmc, and the device it implements.
EXTENDS Emmc

\* The blocks moved since the transfer last started over, while the card can
\* still go on with it or has nothing left to do.
Moving == card.in /\ card.st \in {"data", "rcv"}
Done == IF at = "block" /\ (pos = req.n \/ Moving)
          THEN {req.blk + i : i \in 0 .. (pos - 1)} ELSE {}

BD == INSTANCE BlockDevice WITH
        medium <- card.data,
        call <- [op |-> req.op, blocks |-> {req.blk + i : i \in 0 .. (req.n - 1)},
                 buf |-> buf, done |-> Done, out |-> out]

\* A request that succeeds has moved each of its blocks, to or from one card.
ImplementsBlockDevice == BD!Spec
=============================================================================
