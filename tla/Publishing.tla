----------------------------- MODULE Publishing -----------------------------
(***************************************************************************)
(* The controller as a Publisher: the plan is the response being           *)
(* reconciled under the settings of the process, and what it has published *)
(* is what it remembers as last_digest.  A read-only process publishes     *)
(* nothing.                                                                *)
(***************************************************************************)
EXTENDS Controller

ASSUME PlanAssumption == None \notin Setting \X Body

plan == IF pc = "reconcile" /\ ~cfg.read_only THEN <<cfg, fetched.body>> ELSE None

published == IF last_digest = None \/ cfg.read_only THEN None ELSE <<cfg, last_digest>>

Wants(p) == BuildDesired(p[1], p[2])

Kinds(p) == SweptKinds(p[1])

P == INSTANCE Publisher WITH
  Plan <- Setting \X Body, Start <- InitialCluster, namespace <- cluster

(***************************************************************************)
(* Whoever reads the namespace at any moment sees a Publisher at work,     *)
(* through failed passes, lost answers, crashes and restarts under other   *)
(* settings: routes come after what they refer to, nothing goes before its *)
(* replacement is in place and its users are gone, and last_digest names   *)
(* what the namespace showed when it was set (src/reconcile.rs:87-206).    *)
(***************************************************************************)
ImplementsPublisher == P!PublisherSpec
=============================================================================
