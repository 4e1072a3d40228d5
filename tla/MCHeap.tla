------------------------------- MODULE MCHeap -------------------------------
\* A small instance of Heap for TLC.
EXTENDS Heap

CONSTANTS g1, o1, r1

OnePage == {g1}
OwnerAndAnother == {o1, r1}
=============================================================================
