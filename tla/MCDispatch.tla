------------------------------- MODULE MCDispatch -------------------------------
(***************************************************************************)
(* Instances of DispatchGate for TLC.                                      *)
(***************************************************************************)
EXTENDS DispatchGate, TLC

\* Requests are interchangeable.
SlotSymmetry == Permutations(Slots)

=============================================================================
