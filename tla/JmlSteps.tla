-------------------------------- MODULE JmlSteps --------------------------------
(***************************************************************************)
(* The step lists of a joiner, mover, leaver or rehire run                 *)
(* (ai-orchestrator/src/lib/jml-engine.ts, buildJmlSteps) and what the     *)
(* handlers of lib/handler-registry.ts make of them.                       *)
(*                                                                         *)
(* A step's id is a prefix and the name of an app; a handler gets the id   *)
(* and finds the app's adapter by removing a prefix from it.               *)
(***************************************************************************)
EXTENDS Integers, Sequences

CONSTANTS
  Apps,   \* apps with an adapter URL: buildJmlSteps leaves out the others
  NoApp

ASSUME AppAssumption == NoApp \notin Apps

Actions == {"joiner", "rehire", "mover", "leaver"}

\* A classification: what to provision and to revoke, in the order of the user's
\* access list, how many credentials of the user are to be revoked, and whether
\* the tenant's policy has a grace period.
JobType == [action : Actions, provision : Seq(Apps), revoke : Seq(Apps),
            credentials : Nat, grace : BOOLEAN]

Prefixes == {"resolve_access", "provision", "revoke", "revoke_old", "provision_new",
             "revoke_nhi", "emit_nhi", "emit_evidence"}
Ops == {"resolve", "provision", "deprovision", "revoke_nhi", "evidence"}

Step(prefix, app, op) == [prefix |-> prefix, app |-> app, op |-> op]
For(prefix, op, apps) == [n \in DOMAIN apps |-> Step(prefix, apps[n], op)]

Joins(j) == j.action \in {"joiner", "rehire"}

CredentialSteps(j) ==
  IF j.credentials = 0 THEN <<>>
  ELSE [n \in 1 .. j.credentials |-> Step("revoke_nhi", NoApp, "revoke_nhi")]
         \o <<Step("emit_nhi", NoApp, "evidence")>>

Body(j) ==
  CASE Joins(j)            -> For("provision", "provision", j.provision)
    [] j.action = "leaver" -> For("revoke", "deprovision", j.revoke) \o CredentialSteps(j)
    [] j.action = "mover"  -> For("revoke_old", "deprovision", j.revoke)
                                \o For("provision_new", "provision", j.provision)

\* definition.steps
Main(j) == <<Step("resolve_access", NoApp, "resolve")>> \o Body(j)
             \o <<Step("emit_evidence", NoApp, "evidence")>>

\* definition.onFailure: each has the id of the step it is to reverse.
Undo(j) ==
  CASE Joins(j)            -> For("provision", "deprovision", j.provision)
    [] j.action = "mover"  -> For("provision_new", "deprovision", j.provision)
    [] j.action = "leaver" -> <<>>

\* delayMs: a leaver's first revocation waits for the grace period.
Delayed(j, n) == j.action = "leaver" /\ j.grace /\ j.revoke # <<>> /\ n = 2

\* Whether the step's handler gets as far as its call.  The patterns
\* ^(provision_|provision_new_) and ^(revoke_|revoke_old_|deprovision_) remove
\* their first alternative from the longer ids too, and leave a compensation's id
\* alone: no adapter has the name that is left.  No run's context has the
\* credentialId that revoke_nhi asks for.
Reaches(s) ==
  \/ s.op \in {"resolve", "evidence"}
  \/ s.op = "provision" /\ s.prefix = "provision"
  \/ s.op = "deprovision" /\ s.prefix = "revoke"

=============================================================================
