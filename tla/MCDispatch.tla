----------------------------- MODULE MCDispatch -----------------------------
(* Instances of Dispatch for TLC. *)
EXTENDS Dispatch, TLC

CONSTANTS r1, r2, c1, c2

(* r1: items 1, 2, and 3 after 1; r2: items 4 and 5, one at a time. *)
MCRunOf == <<r1, r1, r1, r2, r2>>
MCDeps == <<{}, {}, {1}, {}, {}>>
MCRunMax == [r \in Run |-> IF r = r1 THEN NoMax ELSE 1]

(* r1: item 2 after item 1; r2: item 3. *)
SmallRunOf == <<r1, r1, r2>>
SmallDeps == <<{}, {1}, {}>>

(* r1: items 1, 2 and 3; r2: item 4. *)
BigRunOf == <<r1, r1, r1, r2>>
FourFree == <<{}, {}, {}, {}>>

(* r1: a chain of three. *)
ChainRunOf == <<r1, r1, r1>>
Chain == <<{}, {1}, {2}>>

Coroutines == Permutations(Coro)

NoRunMax == [r \in Run |-> NoMax]
=============================================================================
