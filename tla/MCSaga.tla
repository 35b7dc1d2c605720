-------------------------------- MODULE MCSaga --------------------------------
(***************************************************************************)
(* Instances of AtlasWorkflow for TLC: one run of each kind, with up to    *)
(* two apps.                                                               *)
(***************************************************************************)
EXTENDS AtlasWorkflow, TLC

CONSTANTS a, b

Job(action, provision, revoke, credentials, grace) ==
  [action |-> action, provision |-> provision, revoke |-> revoke,
   credentials |-> credentials, grace |-> grace]

Joiner == Job("joiner", <<a, b>>, <<>>, 0, FALSE)
Rehire == Job("rehire", <<a>>, <<>>, 0, FALSE)
Leaver == Job("leaver", <<>>, <<a, b>>, 0, TRUE)
Owner  == Job("leaver", <<>>, <<a>>, 1, FALSE)
Mover  == Job("mover", <<b>>, <<a>>, 0, FALSE)

EveryKind == {Joiner, Rehire, Leaver, Owner, Mover}

=============================================================================
