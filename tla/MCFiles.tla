------------------------------ MODULE MCFiles ------------------------------
\* Model-checking instance of Files: two descriptors, of one process or two.
EXTENDS Files, TLC

CONSTANTS a, k1, k2

Descriptors == {k1, k2}
Bytes == {a, EOF}
OpenModes == {{"O_RDWR"}, {"O_RDONLY"}, {"O_RDWR", "O_APPEND"}}
Sym == Permutations(Descriptors)
=============================================================================
