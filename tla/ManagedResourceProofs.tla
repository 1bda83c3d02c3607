------------------------ MODULE ManagedResourceProofs ------------------------
(***************************************************************************)
(* What the promise every controller makes comes to.                       *)
(***************************************************************************)
EXTENDS ManagedResource, TLAPS

\* An object that is held has not gone yet.
HeldIsThere == held => phase \in {"live", "deleting"}

PromiseInv == TypeOK /\ HeldIsThere /\ NothingLeft

LEMMA PromiseNext == PromiseInv /\ [Next]_vars => PromiseInv'
<1> USE DEF PromiseInv, TypeOK, HeldIsThere, NothingLeft
<1>1. PromiseInv /\ Make => PromiseInv'
  BY DEF Make
<1>2. PromiseInv /\ Protect => PromiseInv'
  <2> SUFFICES ASSUME PromiseInv, Protect PROVE PromiseInv'
    OBVIOUS
  <2>1. exists => held
    BY DEF Protect
  <2> QED
    BY <2>1 DEF Protect
<1>3. PromiseInv /\ Delete => PromiseInv'
  BY DEF Delete
<1>4. PromiseInv /\ Hold => PromiseInv'
  BY DEF Hold
<1>5. PromiseInv /\ Appear => PromiseInv'
  BY DEF Appear
<1>6. PromiseInv /\ Vanish => PromiseInv'
  <2> SUFFICES ASSUME PromiseInv, Vanish PROVE PromiseInv'
    OBVIOUS
  <2>1. TypeOK'
    BY Zenon DEF Vanish
  <2>2. HeldIsThere' /\ NothingLeft'
    BY DEF Vanish
  <2> QED
    BY <2>1, <2>2
<1>7. PromiseInv /\ Release => PromiseInv'
  <2> SUFFICES ASSUME PromiseInv, Release PROVE PromiseInv'
    OBVIOUS
  <2>1. TypeOK'
    BY Zenon DEF Release
  <2>2. HeldIsThere' /\ NothingLeft'
    BY DEF Release
  <2> QED
    BY <2>1, <2>2
<1>8. PromiseInv /\ UNCHANGED vars => PromiseInv'
  BY DEF vars
<1> QED
  BY <1>1, <1>2, <1>3, <1>4, <1>5, <1>6, <1>7, <1>8 DEF Next

\* A controller that keeps the promise leaves nothing in Oxide behind an object that is
\* gone, unless its user asked for it (image_controller.go:354).
THEOREM PromiseLeavesNothing == Spec => []NothingLeft
<1>1. Init => PromiseInv
  BY DEF Init, PromiseInv, TypeOK, HeldIsThere, NothingLeft
<1>2. PromiseInv => NothingLeft
  BY DEF PromiseInv
<1> QED
  BY <1>1, <1>2, PromiseNext, PTL DEF Spec
=============================================================================
