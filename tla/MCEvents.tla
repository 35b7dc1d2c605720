------------------------------- MODULE MCEvents -------------------------------
(***************************************************************************)
(* Instances of EventPipeline for TLC: clients that repeat one request     *)
(* under one idempotency key, a client of another tenant that uses the     *)
(* same key, and administrators who replay dead letters.                   *)
(***************************************************************************)
EXTENDS EventPipeline, TLC

CONSTANTS t1, t2, foreigner

TwoTenants == {t1, t2}

\* All clients publish under the same key.
SameKey == [r \in Clients \cup Admins |->
              IF r \in Clients THEN CHOOSE k \in Keys : TRUE ELSE NoKey]

\* All requests but the foreigner's are made for the first tenant.
Owner == [r \in Clients \cup Admins |-> IF r = foreigner THEN t2 ELSE t1]

\* The clients of one tenant are interchangeable.
EventSymmetry == Permutations(Clients \ {foreigner})

=============================================================================
