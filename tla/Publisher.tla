------------------------------ MODULE Publisher ------------------------------
(***************************************************************************)
(* What the controller promises to those who act on every write to the     *)
(* namespace, the gateway above all.  A plan is brought about one object   *)
(* at a time: nothing is written that it does not ask for, a route is      *)
(* written when what it refers to is in place, and an object is taken away *)
(* when the plan is in place and no route uses the object any more.  A     *)
(* plan counts as published when the namespace shows it.  A plan may be    *)
(* given up at any time, and what was published may be forgotten.          *)
(***************************************************************************)
CONSTANTS
  Key,         \* identities of objects: records [kind, name]
  Self,        \* the owner in whose name objects are published
  None,
  Plan,        \* what there is to publish
  Wants(_),    \* the content that a plan wants for each key, or None
  Kinds(_),    \* the kinds that a plan settles
  Start        \* the namespace before the first plan

VARIABLES
  namespace,   \* for each key an object or None
  plan,        \* the plan being brought about, or None
  published    \* the plan brought about last, or None

Ours(k) == namespace[k] # None /\ namespace[k].owner = Self

\* The object that plan p has for key k.
Planned(p, k) == [owner |-> Self, spec |-> Wants(p)[k]]

InPlace(p, k) == namespace[k] = Planned(p, k)

\* The routes that refer to k or are guarded by it.
Users(k) ==
  {r \in Key : /\ r.kind = "HTTPRoute" /\ Ours(r)
               /\ k \in namespace[r].spec.refs \cup namespace[r].spec.guards}

Init == namespace = Start /\ plan = None /\ published = None

\* What is published is not published again.
Begin ==
  /\ plan = None
  /\ plan' \in Plan /\ plan' # published
  /\ UNCHANGED <<namespace, published>>

\* The plan may end with a write, when its answer is lost.
Put(k) ==
  /\ plan # None
  /\ Wants(plan)[k] # None
  /\ k.kind = "HTTPRoute" => \A r \in Wants(plan)[k].refs : InPlace(plan, r)
  /\ namespace' = [namespace EXCEPT ![k] = Planned(plan, k)]
  /\ plan' = plan \/ plan' = None
  /\ UNCHANGED published

Take(k) ==
  /\ plan # None
  /\ Ours(k) /\ Wants(plan)[k] = None
  /\ \A j \in Key : Wants(plan)[j] # None => InPlace(plan, j)
  /\ Users(k) = {}
  /\ namespace' = [namespace EXCEPT ![k] = None]
  /\ UNCHANGED <<plan, published>>

Finish ==
  /\ plan # None
  /\ \A k \in Key : k.kind \in Kinds(plan) =>
       IF Wants(plan)[k] # None THEN InPlace(plan, k) ELSE ~Ours(k)
  /\ published' = plan
  /\ plan' = None
  /\ UNCHANGED namespace

Abandon ==
  /\ plan' = None
  /\ published' = published \/ published' = None
  /\ UNCHANGED namespace

Next == Begin \/ (\E k \in Key : Put(k) \/ Take(k)) \/ Finish \/ Abandon

PublisherSpec == Init /\ [][Next]_<<namespace, plan, published>>
=============================================================================
