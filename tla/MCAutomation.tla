----------------------------- MODULE MCAutomation -----------------------------
(***************************************************************************)
(* Instances of AutomationGate for TLC.                                    *)
(***************************************************************************)
EXTENDS AutomationGate, TLC

\* The default limits, and a rule an administrator gave a longer cooldown.
Usual   == [cooldown |-> 1, max |-> 1]
Patient == [cooldown |-> 2, max |-> 1]
TwoSettings == {Usual, Patient}

\* Evaluators are interchangeable, and so are rules, and so are events.
GateSymmetry ==
  Permutations(Evaluators) \cup Permutations(Rules) \cup Permutations(Events)

=============================================================================
