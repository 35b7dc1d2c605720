------------------------------ MODULE MCEvidence ------------------------------
(***************************************************************************)
(* Instances of EvidenceLocker for TLC: two pieces of evidence about the   *)
(* same event under different controls, and one with another payload.      *)
(***************************************************************************)
EXTENDS EvidenceLocker, TLC

CONSTANTS i1, i2, i3, ctrlA, ctrlB

SameEvent  == [i \in Evidence |-> "event"]
TwoAndOne  == i1 :> {ctrlA, ctrlB} @@ i2 :> {ctrlB} @@ i3 :> {ctrlA, ctrlB}
TwoPayload == i1 :> "p" @@ i2 :> "p" @@ i3 :> "q"

\* Of neither payload a key survives.
NothingShown == [p \in {"p", "q"} |-> "nothing"]

CallSymmetry == Permutations(Calls)

=============================================================================
