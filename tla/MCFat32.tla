------------------------------ MODULE MCFat32 ------------------------------
\* Model-checking instance of Fat32.
EXTENDS Fat32

\* Two files of which one's name begins like the other's, and one with a short
\* extension.
F == [stem |-> <<"A">>, ext |-> <<"T", "X", "T">>]
G == [stem |-> <<"A", "B">>, ext |-> <<"T", "X", "T">>]
H == [stem |-> <<"B">>, ext |-> <<"C", " ", " ">>]
Chars == {"A", "B", "C", "T", "X", ".", " "}

\* The names the three are listed under, one that lacks the blanks, one of two
\* characters.
LookedUp == {ListName(F), ListName(G), ListName(H), <<"B", ".", "C">>, <<"A", "B">>}

Card(fat, dir, size, first) ==
  [fat |-> fat, dir |-> dir, size |-> [f \in {F, G, H} |-> size], first |-> [f \in {F, G, H} |-> first]]

\* Directories over up to three clusters of two entries: every contents of up
\* to four entries of F and G, of up to three with H, and of five where only one
\* name is in use, along chains and loops that start at the root.
Contents ==
  UNION {[1 .. n -> {F, G, Skipped}] : n \in 0 .. 4} \cup UNION {[1 .. n -> {F, H, Skipped}] : n \in 1 .. 3}
    \cup [1 .. 5 -> {F, Skipped}]
Padded(s) == [i \in 1 .. 6 |-> IF i \in DOMAIN s THEN s[i] ELSE EndMark]
Chains == {<<0, 0, 0>>, <<3, 0, 0>>, <<3, 4, 0>>, <<2, 0, 0>>, <<3, 2, 0>>, <<3, 4, 3>>}
LookupDisks ==
  {Card([c \in 2 .. 4 |-> h[c - 1]], [c \in 2 .. 4 |-> [i \in 1 .. 2 |-> Padded(s)[2 * (c - 2) + i]]], 0, 4)
     : h \in Chains, s \in Contents}

\* One file of up to twenty bytes, in clusters 3 to 5 of any order, in a chain
\* that may be short or a loop.
ReadDisks ==
  {Card([c \in 2 .. 5 |-> IF c = 2 THEN EOC ELSE h[c - 2]],
        [c \in 2 .. 5 |-> <<F, EndMark>>], size, 4)
     : h \in {<<5, 3, 0>>, <<0, 5, 3>>, <<0, 0, 0>>, <<4, 3, 0>>}, size \in 0 .. 20}

MCDisks == LookupDisks \cup ReadDisks
=============================================================================
