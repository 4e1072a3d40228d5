------------------------------ MODULE Request ------------------------------
(***************************************************************************)
(* Requests to an allocator, one size after the other.                     *)
(***************************************************************************)
EXTENDS Naturals

CONSTANT MaxSize  \* the largest request

ASSUME MaxSizeAssumption == MaxSize \in Nat \ {0}

VARIABLE size  \* the size of the request being served

RequestInit == size = 1

NextRequest == size' = IF size = MaxSize THEN 1 ELSE size + 1

RequestSpec == RequestInit /\ [][NextRequest]_size
=============================================================================
