------------------------ MODULE MCScopeDeclaration ------------------------
(* Small instances of ScopeDeclaration for TLC. *)
EXTENDS ScopeDeclaration, TLC

CONSTANTS w1, w2, dA, dB, dX, A, B, a, b

TwoWorkers == {w1, w2}
MCPrefix == (a :> A) @@ (b :> B)

\* dA and dB are valid; dX, of service B, declares a scope prefixed with A.
TwoDeclarants == {dA, dB}
BadDeclarants == {dA, dB, dX}
AllServiceOf == (dA :> A) @@ (dB :> B) @@ (dX :> B)
AllDeclared == (dA :> {a}) @@ (dB :> {b}) @@ (dX :> {a, b})
TwoServiceOf == [d \in TwoDeclarants |-> AllServiceOf[d]]
TwoDeclared == [d \in TwoDeclarants |-> AllDeclared[d]]
BadServiceOf == [d \in BadDeclarants |-> AllServiceOf[d]]
BadDeclared == [d \in BadDeclarants |-> AllDeclared[d]]

\* Nobody hears of the service that opts out, which does so first; and FairSpec otherwise.
LiveNext ==
  \/ OptOut(dB)
  \/ dpc[dB] # "boot" /\ Next
LiveSpec == Init /\ [][LiveNext]_vars /\ Fairness

Symmetry == Permutations(TwoWorkers)
=============================================================================
