------------------------- MODULE MCEncodedBuffers -------------------------
EXTENDS EncodedBuffers, TLC

\* The actions tell no block from another.
Blocks == Permutations(Address)

\* What a program does after a header freed a left-over pointer is followed
\* no further: nothing is claimed of it.
Defined == ~stray
===========================================================================
