-------------------------- MODULE ControllerProofs --------------------------
(***************************************************************************)
(* What the controller guarantees for every set of bodies, keys, settings  *)
(* and every translation that meets the assumptions of Controller.         *)
(***************************************************************************)
EXTENDS Controller, TLAPS

USE DEF Kind

(***************************************************************************)
(* The initial state is well typed.                                        *)
(***************************************************************************)
LEMMA InitTypeOK == Init => TypeOK
<1> SUFFICES ASSUME Init PROVE TypeOK
  OBVIOUS
<1>1. calm \in BOOLEAN /\ shutdown \in BOOLEAN /\ ready \in BOOLEAN
  BY Zenon DEF Init
<1> QED
  BY <1>1, ConstantAssumption DEF Init, TypeOK, NoFetch

(***************************************************************************)
(* What a pass writes is an object with wanted content.                    *)
(***************************************************************************)
LEMMA AppliedObject ==
  ASSUME TypeOK, NEW k \in Key, pc = "reconcile", Wanted(k) # None
  PROVE  Applied(k) \in Object
  BY ConstantAssumption, DesiredAssumption DEF TypeOK, Applied, Wanted, Object

\* Only wanted keys are applied.
ToApplyWanted == \A k \in toApply : Wanted(k) # None

\* Outside a reconciliation nothing is left to do.
IdleOutside == pc # "reconcile" => toApply = {} /\ toSweep = {} /\ victims = {}

\* Sweeping starts when everything was applied.
ApplyFirst == toApply # {} => toSweep = SweptKinds(cfg) /\ victims = {}

TypeInv == TypeOK /\ ToApplyWanted /\ IdleOutside /\ ApplyFirst

(***************************************************************************)
(* Leaving the process, in whatever way, keeps the types.                  *)
(***************************************************************************)
LEMMA ExitTypeInv == TypeInv /\ Exit => TypeInv'
<1> SUFFICES ASSUME TypeInv, Exit PROVE TypeInv'
  OBVIOUS
<1>1. shutdown' \in BOOLEAN /\ ready' \in BOOLEAN
  BY Zenon DEF Exit
<1>2. ToApplyWanted' /\ IdleOutside' /\ ApplyFirst'
  BY DEF Exit, ToApplyWanted, IdleOutside, ApplyFirst
<1> QED
  BY <1>1, <1>2 DEF TypeInv, TypeOK, Exit, NoFetch, outside

(***************************************************************************)
(* Every step keeps the types (all actions of src/reconcile.rs).           *)
(***************************************************************************)
LEMMA NextTypeInv == TypeInv /\ [Next]_vars => TypeInv'
<1> SUFFICES ASSUME TypeInv, [Next]_vars
             PROVE  TypeInv'
  OBVIOUS
<1> USE DEF TypeInv, TypeOK, ToApplyWanted, IdleOutside, ApplyFirst, Wanted, outside, memory, work
<1>1. CASE FetchErr
  BY <1>1 DEF FetchErr
<1>2. CASE NotModified
  BY <1>2 DEF NotModified, Answered
<1>3. CASE MatchedDigest
  BY <1>3 DEF MatchedDigest, Answered, Tags, Remember
<1>4. CASE NewBody
  BY <1>4, SettingAssumption DEF NewBody, Answered, Tags, SweptKinds
<1>5. CASE PollCancelled \/ WaitCancelled \/ Crash
  BY <1>5, ExitTypeInv DEF PollCancelled, WaitCancelled, Crash
<1>6. ASSUME NEW k \in Key, Apply(k)
      PROVE  TypeInv'
  BY <1>6, AppliedObject DEF Apply, NextToApply
<1>7. ASSUME NEW k \in Key, ApplyErr(k)
      PROVE  TypeInv'
  BY <1>7, AppliedObject DEF ApplyErr, NextToApply, NoFetch
<1>8. ASSUME NEW kind \in Kind, SweepList(kind) \/ SweepListErr(kind)
      PROVE  TypeInv'
  BY <1>8 DEF SweepList, SweepListErr, NextToSweep, Orphans
<1>9. ASSUME NEW k \in Key, SweepDelete(k) \/ SweepDeleteErr(k)
      PROVE  TypeInv'
  BY <1>9 DEF SweepDelete, SweepDeleteErr
<1>10. CASE ReconcileOk
  BY <1>10 DEF ReconcileOk, Remember, NoFetch
<1>11. CASE TimerFires
  BY <1>11, ConstantAssumption DEF TimerFires, Doubled
<1>12. CASE Restart
  BY <1>12 DEF Restart
<1>13. CASE Signal \/ ServeNext \/ CalmDown
  BY <1>13 DEF Signal, ServeNext, CalmDown
<1>14. ASSUME NEW k \in Key, Drift(k)
       PROVE  TypeInv'
  BY <1>14 DEF Drift
<1>15. CASE UNCHANGED vars
  BY <1>15 DEF vars
<1> QED
  BY <1>1, <1>2, <1>3, <1>4, <1>5, <1>6, <1>7, <1>8, <1>9, <1>10, <1>11, <1>12, <1>13,
     <1>14, <1>15
     DEF Next, Controller, Environment, Poll, ApplyPass, SweepPass, Wait

(***************************************************************************)
(* The types of all variables hold in every state.                         *)
(***************************************************************************)
THEOREM TypeCorrect == ControllerSpec => []TypeOK
<1>1. Init => TypeInv
  BY InitTypeOK DEF TypeInv, ToApplyWanted, IdleOutside, ApplyFirst, Init
<1>2. TypeInv => TypeOK
  BY DEF TypeInv
<1> QED
  BY <1>1, <1>2, NextTypeInv, PTL DEF ControllerSpec

-----------------------------------------------------------------------------
(***************************************************************************)
(* The inductive invariant behind the order of the passes.                 *)
(* NoDanglingRoute alone is not inductive: that a deletion leaves no route *)
(* behind depends on what the pass has applied, swept and listed so far.   *)
(***************************************************************************)

\* Routes refer to backends and listener sets that exist; only policies guard.
RouteRefs ==
  \A k \in Key :
    k.kind = "HTTPRoute" /\ Owned(k) =>
      /\ \A r \in cluster[k].spec.refs :
           r.kind \in {"Service", "Backend", "ListenerSet"} /\ cluster[r] # None
      /\ \A g \in cluster[k].spec.guards : g.kind = "SecurityPolicy"

\* What is wanted and no longer to be applied is in place.
Written ==
  pc = "reconcile" /\ ~cfg.read_only =>
    \A k \in Key : Wanted(k) # None /\ k \notin toApply => cluster[k] = Applied(k)

\* An orphan of a kind no longer to be swept is about to be deleted.
Swept ==
  pc = "reconcile" /\ ~cfg.read_only =>
    \A k \in Key :
      k.kind \in SweptKinds(cfg) \ toSweep /\ Owned(k) /\ Wanted(k) = None => k \in victims

\* What is about to be deleted is ours or gone, and is not wanted; and when it
\* is no route then every route left is wanted.
Condemned ==
  \A v \in victims :
    /\ ~cfg.read_only
    /\ Wanted(v) = None
    /\ cluster[v] # None => Owned(v)
    /\ v.kind # "HTTPRoute" =>
         \A k \in Key : k.kind = "HTTPRoute" /\ Owned(k) => Wanted(k) # None

SafeInv == TypeInv /\ RouteRefs /\ Written /\ Swept /\ Condemned

NoSweepFault == Faults \cap {"list", "delete", "drift"} = {}

(***************************************************************************)
(* Steps that leave the pass and the namespace alone.                      *)
(***************************************************************************)
LEMMA QuietStep ==
  ASSUME SafeInv, UNCHANGED <<cluster, cfg, work>>, pc' = pc \/ pc' # "reconcile"
  PROVE  (RouteRefs /\ Written /\ Swept /\ Condemned)'
  BY DEF SafeInv, RouteRefs, Written, Swept, Condemned, work, Owned, Mine, Wanted, Applied

(***************************************************************************)
(* Steps that end outside a reconciliation without a request to the API.   *)
(***************************************************************************)
LEMMA IdleStep ==
  ASSUME SafeInv, UNCHANGED cluster, pc' # "reconcile", victims' = {}
  PROVE  (RouteRefs /\ Written /\ Swept /\ Condemned)'
  BY DEF SafeInv, RouteRefs, Written, Swept, Condemned, Owned, Mine

(***************************************************************************)
(* Writing wanted content keeps the references of all routes: backends and *)
(* listener sets come before routes, so those of the written route exist.  *)
(***************************************************************************)
LEMMA WriteKeepsRouteRefs ==
  ASSUME SafeInv, NEW k \in Key, NextToApply(k), ~cfg.read_only,
         cluster' = [cluster EXCEPT ![k] = Applied(k)]
  PROVE  RouteRefs'
<1> USE DEF SafeInv, TypeInv, TypeOK, NextToApply
<1>1. Wanted(k) # None /\ Wanted(k) \in Spec
  BY DesiredAssumption DEF ToApplyWanted, Wanted
<1>2. Applied(k) # None /\ Applied(k).owner = Self /\ Applied(k).spec = Wanted(k)
  BY <1>1, AppliedObject, ConstantAssumption DEF Applied
<1>3. ASSUME NEW j \in Key, j.kind = "HTTPRoute", Owned(j)', j # k
      PROVE  /\ \A r \in cluster'[j].spec.refs :
                  r.kind \in {"Service", "Backend", "ListenerSet"} /\ cluster'[r] # None
             /\ \A g \in cluster'[j].spec.guards : g.kind = "SecurityPolicy"
  <2>1. cluster'[j] = cluster[j] /\ Owned(j)
    BY <1>3 DEF Owned, Mine
  <2>2. cluster[j].spec \in Spec
    BY <2>1 DEF Object, Owned, Mine
  <2>3. cluster[j].spec.refs \subseteq Key
    BY <2>2, ConstantAssumption
  <2> QED
    BY <1>2, <1>3, <2>1, <2>3 DEF RouteRefs
<1>4. ASSUME k.kind = "HTTPRoute"
      PROVE  /\ \A r \in Wanted(k).refs :
                  r.kind \in {"Service", "Backend", "ListenerSet"} /\ cluster[r] # None
             /\ \A g \in Wanted(k).guards : g.kind = "SecurityPolicy"
  <2>1. ASSUME NEW r \in Wanted(k).refs
        PROVE  /\ r \in Key /\ r.kind \in {"Service", "Backend", "ListenerSet"}
               /\ Wanted(r) # None
    BY <1>1, <1>4, DesiredAssumption, ConstantAssumption DEF Wanted
  <2>2. ASSUME NEW r \in Wanted(k).refs
        PROVE  r \notin toApply
    <3>1. ApplyRank[k.kind] = 6
      BY <1>4 DEF ApplyRank
    <3>2. ApplyRank[r.kind] \in 1..5
      BY <2>1, <2>2 DEF ApplyRank
    <3> QED
      BY <3>1, <3>2
  <2>3. ASSUME NEW r \in Wanted(k).refs
        PROVE  cluster[r] = Applied(r) /\ Applied(r) \in Object
    BY <2>1, <2>2, AppliedObject DEF Written
  <2>4. \A g \in Wanted(k).guards : g.kind = "SecurityPolicy"
    BY <1>1, <1>4, DesiredAssumption DEF Wanted
  <2> QED
    BY <2>1, <2>3, <2>4, ConstantAssumption
<1>5. Wanted(k).refs \subseteq Key
  BY <1>1, ConstantAssumption
<1> QED
  BY <1>2, <1>3, <1>4, <1>5 DEF RouteRefs

(***************************************************************************)
(* A successful apply of the pass (src/apply.rs:63-88).                    *)
(***************************************************************************)
LEMMA ApplyStep ==
  ASSUME SafeInv, NEW k \in Key, Apply(k)
  PROVE  (RouteRefs /\ Written /\ Swept /\ Condemned)'
<1> USE DEF SafeInv, TypeInv, TypeOK
<1>1. toApply # {} /\ toSweep = SweptKinds(cfg) /\ victims = {}
  BY DEF Apply, NextToApply, ApplyFirst
<1>2. Condemned' /\ Swept'
  BY <1>1 DEF Apply, Condemned, Swept
<1>3. CASE cfg.read_only
  BY <1>2, <1>3 DEF Apply, RouteRefs, Written, Owned, Mine
<1>4. CASE ~cfg.read_only
  <2>1. RouteRefs'
    BY <1>4, WriteKeepsRouteRefs DEF Apply
  <2>2. \A j \in Key : Wanted(j)' = Wanted(j) /\ Applied(j)' = Applied(j)
    BY DEF Apply, Wanted, Applied
  <2>3. Written'
    BY <1>4, <2>2 DEF Apply, NextToApply, Written
  <2> QED
    BY <1>2, <2>1, <2>3
<1> QED
  BY <1>3, <1>4

(***************************************************************************)
(* An apply that fails, whether or not the write took effect.              *)
(***************************************************************************)
LEMMA ApplyErrStep ==
  ASSUME SafeInv, NEW k \in Key, ApplyErr(k)
  PROVE  (RouteRefs /\ Written /\ Swept /\ Condemned)'
<1>1. pc' # "reconcile" /\ victims' = {}
  BY DEF ApplyErr, NextToApply, SafeInv, TypeInv, ApplyFirst
<1>2. Written' /\ Swept' /\ Condemned'
  BY <1>1 DEF Written, Swept, Condemned
<1>3. CASE cluster' = cluster
  BY <1>1, <1>3, IdleStep
<1>4. CASE cluster' = [cluster EXCEPT ![k] = Applied(k)]
  BY <1>2, <1>4, WriteKeepsRouteRefs DEF ApplyErr
<1> QED
  BY <1>3, <1>4 DEF ApplyErr

(***************************************************************************)
(* The start of a reconciliation (src/reconcile.rs:87, 121, 163).          *)
(***************************************************************************)
LEMMA NewBodyStep ==
  ASSUME SafeInv, NewBody
  PROVE  (RouteRefs /\ Written /\ Swept /\ Condemned)'
<1>1. victims' = {} /\ toSweep' = SweptKinds(cfg)' /\ UNCHANGED <<cluster, cfg>>
  BY DEF NewBody, Answered, SafeInv, TypeInv, IdleOutside, SweptKinds
<1>2. toApply' = {k \in Key : Wanted(k)' # None}
  BY DEF NewBody, Wanted
<1> QED
  BY <1>1, <1>2 DEF SafeInv, RouteRefs, Written, Swept, Condemned, Owned, Mine

(***************************************************************************)
(* Listing a kind: routes are listed first, so when another kind is listed *)
(* no route that is not wanted is left (src/gc.rs:19-31).                  *)
(***************************************************************************)
LEMMA SweepListStep ==
  ASSUME SafeInv, NEW kind \in Kind, SweepList(kind)
  PROVE  (RouteRefs /\ Written /\ Swept /\ Condemned)'
<1> USE DEF SafeInv, TypeInv, TypeOK, SweepList, NextToSweep
<1>1. \A k \in Key : Wanted(k)' = Wanted(k) /\ Applied(k)' = Applied(k) /\ Owned(k)' = Owned(k)
  BY DEF Wanted, Applied, Owned
<1>2. RouteRefs' /\ Written'
  BY <1>1 DEF RouteRefs, Written
<1>3. Swept'
  BY <1>1 DEF Swept, Orphans, SweptKinds
<1>4. kind # "HTTPRoute" => "HTTPRoute" \notin toSweep
  <2>1. SweepRank["HTTPRoute"] = 1 /\ (kind # "HTTPRoute" => SweepRank[kind] \in 2..9)
    BY DEF SweepRank
  <2> QED
    BY <2>1
<1>5. "HTTPRoute" \in SweptKinds(cfg)
  BY DEF SweptKinds
<1>6. ASSUME kind # "HTTPRoute", ~cfg.read_only
      PROVE  \A k \in Key : k.kind = "HTTPRoute" /\ Owned(k) => Wanted(k) # None
  BY <1>4, <1>5, <1>6 DEF Swept
<1>7. Condemned'
  BY <1>1, <1>6 DEF Condemned, Orphans
<1> QED
  BY <1>2, <1>3, <1>7

(***************************************************************************)
(* Deleting an orphan: what a route that stays refers to is wanted.        *)
(***************************************************************************)
LEMMA SweepDeleteStep ==
  ASSUME SafeInv, NEW v \in Key, SweepDelete(v)
  PROVE  (RouteRefs /\ Written /\ Swept /\ Condemned)'
<1> USE DEF SafeInv, TypeInv, TypeOK, SweepDelete
<1>1. \A k \in Key : Wanted(k)' = Wanted(k) /\ Applied(k)' = Applied(k)
  BY DEF Wanted, Applied
<1>2. \A k \in Key : Owned(k)' <=> Owned(k) /\ k # v
  BY DEF Owned, Mine
<1>3. Wanted(v) = None /\ ~cfg.read_only
  BY DEF Condemned
<1>4. ASSUME NEW k \in Key, k.kind = "HTTPRoute", Owned(k), k # v
      PROVE  v \notin cluster[k].spec.refs
  <2>1. CASE v.kind = "HTTPRoute"
    BY <1>4, <2>1 DEF RouteRefs
  <2>2. CASE v.kind # "HTTPRoute"
    <3>1. Wanted(k) # None
      BY <1>4, <2>2 DEF Condemned
    <3>2. cluster[k].spec = Wanted(k)
      BY <1>3, <3>1 DEF Written, ApplyFirst, Applied
    <3> QED
      BY <1>3, <3>1, <3>2, DesiredAssumption DEF Wanted
  <2> QED
    BY <2>1, <2>2
<1>5. ASSUME NEW k \in Key, Owned(k)
      PROVE  cluster[k].spec.refs \subseteq Key
  BY <1>5, ConstantAssumption DEF Owned, Mine, Object
<1>6. RouteRefs'
  BY <1>2, <1>4, <1>5 DEF RouteRefs
<1>7. Written'
  BY <1>1, <1>3 DEF Written
<1>8. Swept'
  BY <1>1, <1>2 DEF Swept
<1>9. Condemned'
  BY <1>1, <1>2 DEF Condemned
<1> QED
  BY <1>6, <1>7, <1>8, <1>9

(***************************************************************************)
(* Every step keeps the invariant while no sweep fails and nobody else     *)
(* deletes objects of the controller.                                      *)
(***************************************************************************)
LEMMA NextSafeInv ==
  ASSUME NoSweepFault, SafeInv, [Next]_vars
  PROVE  SafeInv'
<1>1. TypeInv'
  BY NextTypeInv DEF SafeInv
<1> SUFFICES (RouteRefs /\ Written /\ Swept /\ Condemned)'
  BY <1>1 DEF SafeInv
<1>2. \A f \in {"list", "delete", "drift"} : ~Fault(f)
  BY DEF NoSweepFault, Fault
<1>3. CASE FetchErr \/ NotModified \/ MatchedDigest \/ TimerFires
  BY <1>3, QuietStep DEF FetchErr, NotModified, MatchedDigest, TimerFires, Answered, work
<1>4. CASE Signal \/ ServeNext \/ CalmDown \/ UNCHANGED vars
  BY <1>4, QuietStep DEF Signal, ServeNext, CalmDown, vars, work
<1>5. CASE PollCancelled \/ WaitCancelled \/ Crash
  BY <1>5, IdleStep DEF PollCancelled, WaitCancelled, Crash, Exit
<1>6. CASE Restart \/ ReconcileOk
  BY <1>6, IdleStep DEF Restart, ReconcileOk, work, SafeInv, TypeInv, IdleOutside
<1>7. CASE NewBody
  BY <1>7, NewBodyStep
<1>8. CASE ApplyPass
  BY <1>8, ApplyStep, ApplyErrStep DEF ApplyPass
<1>9. CASE SweepPass
  BY <1>2, <1>9, SweepListStep, SweepDeleteStep DEF SweepPass, SweepListErr, SweepDeleteErr
<1>10. ASSUME NEW k \in Key, Drift(k)
       PROVE  FALSE
  BY <1>2, <1>10 DEF Drift
<1> QED
  BY <1>3, <1>4, <1>5, <1>6, <1>7, <1>8, <1>9, <1>10
     DEF Next, Controller, Environment, Poll, Wait

(***************************************************************************)
(* The invariant holds initially: nothing in the namespace is ours yet.    *)
(***************************************************************************)
LEMMA InitSafeInv == Init => SafeInv
<1> SUFFICES ASSUME Init PROVE SafeInv
  OBVIOUS
<1>1. TypeInv
  BY InitTypeOK DEF TypeInv, ToApplyWanted, IdleOutside, ApplyFirst, Init
<1>2. RouteRefs /\ Written /\ Swept /\ Condemned
  BY ConstantAssumption DEF Init, RouteRefs, Written, Swept, Condemned, Owned, Mine
<1> QED
  BY <1>1, <1>2 DEF SafeInv

(***************************************************************************)
(* The invariant holds in every state.                                     *)
(***************************************************************************)
LEMMA AlwaysSafe ==
  ASSUME NoSweepFault
  PROVE  ControllerSpec => []SafeInv
<1>1. SafeInv /\ [Next]_vars => SafeInv'
  BY NextSafeInv
<1> QED
  BY <1>1, InitSafeInv, PTL DEF ControllerSpec

(***************************************************************************)
(* No HTTPRoute of the controller ever refers to a backend or a            *)
(* ListenerSet that does not exist, through failed passes, crashes,        *)
(* restarts under other settings and any sequence of bodies, provided that *)
(* listing and deleting do not fail and nobody else deletes our objects    *)
(* (src/reconcile.rs:121-176).                                             *)
(***************************************************************************)
THEOREM RoutesNeverDangle ==
  ASSUME NoSweepFault
  PROVE  ControllerSpec => []NoDanglingRoute
<1>1. SafeInv => NoDanglingRoute
  BY DEF SafeInv, RouteRefs, NoDanglingRoute
<1> QED
  BY <1>1, AlwaysSafe, PTL

(***************************************************************************)
(* A reconciliation that succeeds leaves, of the kinds it sweeps, exactly  *)
(* the wanted objects among those of the controller, whatever was there    *)
(* before, under the same proviso (src/reconcile.rs:109-261).              *)
(***************************************************************************)
THEOREM SuccessfulPassMirrors ==
  ASSUME NoSweepFault
  PROVE  ControllerSpec => SuccessMirrors
<1>1. ASSUME SafeInv, [Next]_vars, Succeeds
      PROVE  Mirrors(cluster', fetched.body, SweptKinds(cfg))
  <2>1. cluster' = cluster /\ toApply = {} /\ toSweep = {} /\ victims = {}
    BY <1>1 DEF Succeeds, Next, vars, Controller, Environment, Poll, ApplyPass, SweepPass, Wait,
         FetchErr, NotModified, MatchedDigest, NewBody, Answered, PollCancelled, WaitCancelled,
         Crash, Exit, Restart, Signal, Apply, ApplyErr, SweepList, SweepListErr, SweepDelete,
         SweepDeleteErr, ReconcileOk, TimerFires, ServeNext, Drift, CalmDown
  <2> QED
    BY <1>1, <2>1
       DEF SafeInv, Written, Swept, Succeeds, Mirrors, Owned, Wanted, Applied
<1>2. SafeInv /\ [Next]_vars => [Succeeds => Mirrors(cluster', fetched.body, SweptKinds(cfg))]_vars
  BY <1>1
<1> QED
  BY <1>2, AlwaysSafe, PTL DEF ControllerSpec, SuccessMirrors

\* Every covered route that stays as it is is covered after the step.
Kept ==
  \A k \in Key :
    k.kind = "HTTPRoute" /\ Covered(k) /\ cluster'[k] = cluster[k] => Covered(k)'

(***************************************************************************)
(* No step takes a policy from a route that stays: the only steps that     *)
(* remove objects are those of a sweep (src/gc.rs:25-42).                  *)
(***************************************************************************)
LEMMA NextKeepsCover ==
  ASSUME NoSweepFault, SafeInv, [Next]_vars
  PROVE  Kept
<1> USE DEF Kept
<1> USE DEF SafeInv, TypeInv, TypeOK
<1>1. \A f \in {"list", "delete", "drift"} : ~Fault(f)
  BY DEF NoSweepFault, Fault
<1>2. CASE cluster' = cluster
  BY <1>2 DEF Covered, Owned, Mine
<1>3. ASSUME NEW j \in Key, NextToApply(j), cluster' = [cluster EXCEPT ![j] = Applied(j)]
      PROVE  Kept
  <2>1. Applied(j) # None /\ Applied(j).owner = Self
    BY <1>3, AppliedObject, ConstantAssumption DEF NextToApply, ToApplyWanted, Applied
  <2>2. \A k \in Key : Owned(k) => Owned(k)'
    BY <1>3, <2>1 DEF Owned, Mine
  <2>3. \A k \in Key : Owned(k) => cluster[k].spec.guards \subseteq Key
    BY ConstantAssumption DEF Owned, Mine, Object
  <2> QED
    BY <2>2, <2>3 DEF Covered
<1>4. ASSUME NEW v \in Key, SweepDelete(v)
      PROVE  Kept
  <2>1. Wanted(v) = None /\ ~cfg.read_only /\ toApply = {}
    BY <1>4 DEF SweepDelete, Condemned, ApplyFirst
  <2>2. ASSUME NEW k \in Key, k.kind = "HTTPRoute", Covered(k), cluster'[k] = cluster[k]
        PROVE  Covered(k)'
    <3>1. k # v
      BY <1>4, <2>2 DEF SweepDelete, Covered, Owned, Mine
    <3>2. cluster[k].spec.guards \subseteq Key
      BY <2>2, ConstantAssumption DEF Covered, Owned, Mine, Object
    <3>3. v \notin cluster[k].spec.guards
      <4>1. CASE v.kind = "HTTPRoute"
        BY <2>2, <3>2, <4>1 DEF RouteRefs, Covered
      <4>2. CASE v.kind # "HTTPRoute"
        <5>1. Wanted(k) # None
          BY <1>4, <2>2, <4>2 DEF Condemned, SweepDelete, Covered
        <5>2. cluster[k].spec = Wanted(k)
          BY <1>4, <2>1, <5>1 DEF Written, SweepDelete, Applied
        <5> QED
          BY <1>4, <2>1, <5>1, <5>2, DesiredAssumption DEF Wanted, SweepDelete
      <4> QED
        BY <4>1, <4>2
    <3> QED
      BY <1>4, <2>2, <3>1, <3>2, <3>3 DEF SweepDelete, Covered, Owned, Mine
  <2> QED
    BY <2>2
<1>5. CASE ApplyPass
  BY <1>2, <1>3, <1>5 DEF ApplyPass, Apply, ApplyErr
<1>6. CASE SweepPass
  BY <1>1, <1>2, <1>4, <1>6 DEF SweepPass, SweepList, SweepListErr, SweepDeleteErr
<1>7. ASSUME NEW k \in Key, Drift(k)
      PROVE  FALSE
  BY <1>1, <1>7 DEF Drift
<1> QED
  BY <1>2, <1>5, <1>6, <1>7
     DEF Next, vars, Controller, Environment, Poll, Wait, FetchErr, NotModified, MatchedDigest,
       NewBody, Answered, PollCancelled, WaitCancelled, Crash, Exit, Restart, Signal,
       ReconcileOk, TimerFires, ServeNext, CalmDown

(***************************************************************************)
(* A route guarded by its policies keeps them for as long as it stays what *)
(* it is: the sweep deletes routes before policies, and a policy only when *)
(* no route that is left wants it, under the same proviso                  *)
(* (src/reconcile.rs:163, 197-201).                                        *)
(***************************************************************************)
THEOREM CoverIsKept ==
  ASSUME NoSweepFault
  PROVE  ControllerSpec => CoverNeverLost
<1>1. SafeInv /\ [Next]_vars => [Kept]_vars
  BY NextKeepsCover
<1> QED
  BY <1>1, AlwaysSafe, PTL DEF ControllerSpec, CoverNeverLost, Kept

-----------------------------------------------------------------------------
(* What holds under every fault, failing sweeps included.                  *)

ReadyInv == TypeInv /\ ReadyMeansReconciled

(***************************************************************************)
(* Readiness and the tag come after the digest on every path through       *)
(* run_loop, and a 304 needs a tag (src/reconcile.rs:60-100).              *)
(***************************************************************************)
LEMMA NextReadyInv == ReadyInv /\ [Next]_vars => ReadyInv'
<1> SUFFICES ASSUME ReadyInv, [Next]_vars
             PROVE  ReadyMeansReconciled'
  BY NextTypeInv DEF ReadyInv
<1> USE DEF ReadyInv, TypeInv, TypeOK, ReadyMeansReconciled
<1>1. CASE UNCHANGED memory
  BY <1>1 DEF memory
<1>2. CASE PollCancelled \/ WaitCancelled \/ Crash
  BY <1>2 DEF PollCancelled, WaitCancelled, Crash, Exit
<1>3. CASE NotModified
  BY <1>3, ConstantAssumption DEF NotModified
<1>4. CASE MatchedDigest
  BY <1>4, ConstantAssumption DEF MatchedDigest
<1>5. CASE ReconcileOk
  BY <1>5, ConstantAssumption DEF ReconcileOk
<1> QED
  BY <1>1, <1>2, <1>3, <1>4, <1>5
     DEF Next, vars, memory, Controller, Environment, Poll, Wait, FetchErr, NewBody, Answered,
       ApplyPass, Apply, ApplyErr, SweepPass, SweepList, SweepListErr, SweepDelete,
       SweepDeleteErr, Restart, Signal, TimerFires, ServeNext, Drift, CalmDown

(***************************************************************************)
(* The probe never reports ready before this process has reconciled a      *)
(* body, and no tag is sent before that either (src/reconcile.rs:61-99).   *)
(***************************************************************************)
THEOREM ReadyIsEarned == ControllerSpec => []ReadyMeansReconciled
<1>1. Init => ReadyInv
  BY InitTypeOK
     DEF ReadyInv, ReadyMeansReconciled, TypeInv, ToApplyWanted, IdleOutside, ApplyFirst, Init
<1>2. ReadyInv => ReadyMeansReconciled
  BY DEF ReadyInv
<1> QED
  BY <1>1, <1>2, NextReadyInv, PTL DEF ControllerSpec

\* What was listed for deletion is still ours or already gone.
VictimsOurs == \A v \in victims : cluster[v] # None => Owned(v)

VictimInv == TypeInv /\ VictimsOurs

(***************************************************************************)
(* Between the listing and the deletion nobody but this controller writes  *)
(* under its labels, and it writes nothing while it sweeps (src/gc.rs).    *)
(***************************************************************************)
LEMMA NextVictimInv == VictimInv /\ [Next]_vars => VictimInv'
<1> SUFFICES ASSUME VictimInv, [Next]_vars
             PROVE  VictimsOurs'
  BY NextTypeInv DEF VictimInv
<1> USE DEF VictimInv, TypeInv, TypeOK, VictimsOurs, Owned, Mine
<1>1. CASE UNCHANGED <<cluster, victims>>
  BY <1>1
<1>2. CASE PollCancelled \/ WaitCancelled \/ Crash
  BY <1>2 DEF PollCancelled, WaitCancelled, Crash, Exit
<1>3. CASE ApplyPass
  BY <1>3 DEF ApplyPass, Apply, ApplyErr, NextToApply, ApplyFirst
<1>4. CASE SweepPass
  BY <1>4 DEF SweepPass, SweepList, SweepListErr, SweepDelete, SweepDeleteErr, Orphans
<1>5. ASSUME NEW k \in Key, Drift(k)
      PROVE  VictimsOurs'
  BY <1>5 DEF Drift, work
<1> QED
  BY <1>1, <1>2, <1>3, <1>4, <1>5
     DEF Next, vars, work, Controller, Environment, Poll, Wait, FetchErr, NotModified,
       MatchedDigest, NewBody, Answered, Restart, Signal, ReconcileOk, TimerFires, ServeNext,
       CalmDown

\* Somebody else's object changes only by becoming a wanted object of ours.
Untouched ==
  \A k \in Key :
    cluster[k] # None /\ ~Owned(k) /\ cluster'[k] # cluster[k]
      => pc = "reconcile" /\ Wanted(k) # None /\ cluster'[k] = Applied(k)

(***************************************************************************)
(* A step that changes the namespace writes a wanted object or deletes one *)
(* of the controller (src/apply.rs:60-84, src/gc.rs:15-48).                *)
(***************************************************************************)
LEMMA NextUntouched ==
  ASSUME VictimInv, [Next]_vars
  PROVE  Untouched
<1> USE DEF VictimInv, TypeInv, TypeOK, Untouched
<1>1. CASE cluster' = cluster
  BY <1>1
<1>2. CASE ApplyPass
  BY <1>2 DEF ApplyPass, Apply, ApplyErr, NextToApply, ToApplyWanted
<1>3. CASE SweepPass
  BY <1>3
     DEF SweepPass, SweepList, SweepListErr, SweepDelete, SweepDeleteErr, VictimsOurs
<1>4. ASSUME NEW k \in Key, Drift(k)
      PROVE  Untouched
  BY <1>4 DEF Drift
<1> QED
  BY <1>1, <1>2, <1>3, <1>4
     DEF Next, vars, Controller, Environment, Poll, Wait, FetchErr, NotModified, MatchedDigest,
       NewBody, Answered, PollCancelled, WaitCancelled, Crash, Exit, Restart, Signal,
       ReconcileOk, TimerFires, ServeNext, CalmDown

(***************************************************************************)
(* Whatever fails, the sweeps never take an object of somebody else, and   *)
(* an apply takes one only when its name is wanted (src/gc.rs:19,          *)
(* src/apply.rs:78).                                                       *)
(***************************************************************************)
THEOREM ForeignIsUntouched == ControllerSpec => ForeignUntouched
<1>1. Init => VictimInv
  BY InitTypeOK
     DEF VictimInv, VictimsOurs, TypeInv, ToApplyWanted, IdleOutside, ApplyFirst, Init
<1>2. VictimInv /\ [Next]_vars => [Untouched]_vars
  BY NextUntouched
<1> QED
  BY <1>1, <1>2, NextVictimInv, PTL DEF ControllerSpec, ForeignUntouched, Untouched

\* What is wanted and was applied is in place, unless somebody took it away.
WrittenOrGone ==
  pc = "reconcile" /\ ~cfg.read_only =>
    \A k \in Key : Wanted(k) # None /\ k \notin toApply => cluster[k] \in {Applied(k), None}

VictimsUnwanted == \A v \in victims : ~cfg.read_only /\ Wanted(v) = None

FaultyInv == TypeInv /\ WrittenOrGone /\ VictimsUnwanted

(***************************************************************************)
(* Under every fault a pass has written what it wants, up to deletions by  *)
(* others, before it lists anything for deletion, and lists nothing that   *)
(* it wants (src/reconcile.rs:121-206, src/gc.rs:19-31).                   *)
(***************************************************************************)
LEMMA NextFaultyInv == FaultyInv /\ [Next]_vars => FaultyInv'
<1> SUFFICES ASSUME FaultyInv, [Next]_vars
             PROVE  WrittenOrGone' /\ VictimsUnwanted'
  BY NextTypeInv DEF FaultyInv
<1> USE DEF FaultyInv, TypeInv, TypeOK, WrittenOrGone, VictimsUnwanted
<1>1. CASE UNCHANGED <<cluster, cfg, work>> /\ (pc' = pc \/ pc' # "reconcile")
  BY <1>1 DEF work, Wanted, Applied
<1>2. CASE pc' # "reconcile" /\ victims' = {}
  BY <1>2
<1>3. CASE NewBody
  BY <1>3 DEF NewBody, Answered, IdleOutside, Wanted
<1>4. ASSUME NEW k \in Key, Apply(k)
      PROVE  WrittenOrGone' /\ VictimsUnwanted'
  <2>1. \A j \in Key : Wanted(j)' = Wanted(j) /\ Applied(j)' = Applied(j)
    BY <1>4 DEF Apply, Wanted, Applied
  <2>2. victims' = {}
    BY <1>4 DEF Apply, NextToApply, ApplyFirst
  <2> QED
    BY <1>4, <2>1, <2>2 DEF Apply, NextToApply
<1>5. ASSUME NEW k \in Key, ApplyErr(k)
      PROVE  pc' # "reconcile" /\ victims' = {}
  BY <1>5 DEF ApplyErr, NextToApply, ApplyFirst
<1>6. CASE SweepPass
  <2>1. \A j \in Key : Wanted(j)' = Wanted(j) /\ Applied(j)' = Applied(j)
    BY <1>6 DEF SweepPass, SweepList, SweepListErr, SweepDelete, SweepDeleteErr, Wanted, Applied
  <2> QED
    BY <1>6, <2>1 DEF SweepPass, SweepList, SweepListErr, SweepDelete, SweepDeleteErr, Orphans
<1>7. ASSUME NEW k \in Key, Drift(k)
      PROVE  WrittenOrGone' /\ VictimsUnwanted'
  BY <1>7 DEF Drift, work, Wanted, Applied
<1>8. CASE PollCancelled \/ WaitCancelled \/ Crash
  BY <1>2, <1>8 DEF PollCancelled, WaitCancelled, Crash, Exit
<1>9. CASE Restart \/ ReconcileOk
  BY <1>2, <1>9 DEF Restart, ReconcileOk, work, IdleOutside
<1>10. CASE FetchErr \/ NotModified \/ MatchedDigest \/ TimerFires
  BY <1>1, <1>10 DEF FetchErr, NotModified, MatchedDigest, TimerFires, Answered, work
<1>11. CASE Signal \/ ServeNext \/ CalmDown \/ UNCHANGED vars
  BY <1>1, <1>11 DEF Signal, ServeNext, CalmDown, vars, work
<1> QED
  BY <1>2, <1>3, <1>4, <1>5, <1>6, <1>7, <1>8, <1>9, <1>10, <1>11
     DEF Next, Controller, Environment, Poll, ApplyPass, Wait

\* A covered route that is wanted loses its cover only outside the sweeps.
WantedKept ==
  \A k \in Key :
    k.kind = "HTTPRoute" /\ Covered(k) /\ cluster'[k] = cluster[k] /\ ~Covered(k)'
      => victims' = victims \/ Wanted(k) = None

(***************************************************************************)
(* The deletion that a sweep makes is none of a policy that a wanted route *)
(* has, because that policy is wanted too (src/gc.rs:25-42).               *)
(***************************************************************************)
LEMMA NextWantedKept ==
  ASSUME FaultyInv, [Next]_vars
  PROVE  WantedKept
<1> USE DEF FaultyInv, TypeInv, TypeOK
<1>1. CASE cluster' = cluster \/ victims' = victims
  BY <1>1 DEF WantedKept, Covered, Owned, Mine
<1>2. ASSUME NEW v \in Key, SweepDelete(v)
      PROVE  WantedKept
  <2>1. Wanted(v) = None /\ ~cfg.read_only /\ toApply = {} /\ v \in victims
    BY <1>2 DEF SweepDelete, VictimsUnwanted, ApplyFirst
  <2> SUFFICES ASSUME NEW k \in Key, k.kind = "HTTPRoute", Covered(k), cluster'[k] = cluster[k],
                      Wanted(k) # None
               PROVE  Covered(k)'
    BY DEF WantedKept
  <2>2. cluster[k] # None /\ cluster[k].spec.guards \subseteq Key
    BY ConstantAssumption DEF Covered, Owned, Mine, Object
  <2>3. cluster[k].spec = Wanted(k)
    BY <1>2, <2>1, <2>2 DEF WrittenOrGone, SweepDelete, Applied
  <2>4. v \notin cluster[k].spec.guards
    BY <1>2, <2>1, <2>3, DesiredAssumption DEF Wanted, SweepDelete
  <2>5. k # v
    BY <2>1
  <2> QED
    BY <1>2, <2>2, <2>4, <2>5 DEF SweepDelete, Covered, Owned, Mine
<1>3. CASE ApplyPass
  BY <1>1, <1>3 DEF ApplyPass, Apply, ApplyErr
<1>4. CASE SweepPass
  BY <1>1, <1>2, <1>4 DEF SweepPass, SweepList, SweepListErr, SweepDeleteErr
<1>5. ASSUME NEW k \in Key, Drift(k)
      PROVE  victims' = victims
  BY <1>5 DEF Drift, work
<1> QED
  BY <1>1, <1>3, <1>4, <1>5
     DEF Next, vars, Controller, Environment, Poll, Wait, FetchErr, NotModified, MatchedDigest,
       NewBody, Answered, PollCancelled, WaitCancelled, Crash, Exit, Restart, Signal,
       ReconcileOk, TimerFires, ServeNext, CalmDown

(***************************************************************************)
(* Under every fault, failing sweeps and deletions by others included, no  *)
(* sweep takes the policy of a route that the body wants                   *)
(* (src/reconcile.rs:163-206).                                             *)
(***************************************************************************)
THEOREM WantedCoverIsKept == ControllerSpec => WantedKeepCover
<1>1. Init => FaultyInv
  BY InitTypeOK
     DEF FaultyInv, WrittenOrGone, VictimsUnwanted, TypeInv, ToApplyWanted, IdleOutside, ApplyFirst,
       Init
<1>2. FaultyInv /\ [Next]_vars => [WantedKept]_vars
  BY NextWantedKept
<1> QED
  BY <1>1, <1>2, NextFaultyInv, PTL DEF ControllerSpec, WantedKeepCover, WantedKept

\* The response being reconciled has the tag of its body.
TagFetched == pc = "reconcile" => fetched.etag = fetched.body

TagInv == TypeInv /\ TagNamesDigest /\ TagFetched

(***************************************************************************)
(* Tag and digest are set together on every path through run_loop          *)
(* (src/reconcile.rs:65-101).                                              *)
(***************************************************************************)
LEMMA NextTagInv ==
  ASSUME EtagSent = {TRUE}, TagInv, [Next]_vars
  PROVE  TagInv'
<1> SUFFICES TagNamesDigest' /\ TagFetched'
  BY NextTypeInv DEF TagInv
<1> USE DEF TagInv, TypeInv, TypeOK, TagNamesDigest, TagFetched
<1>1. Tags = {served}
  BY ConstantAssumption DEF Tags
<1>2. CASE UNCHANGED <<last_etag, last_digest>> /\ (pc' # "reconcile" \/ UNCHANGED <<pc, fetched>>)
  BY <1>2
<1>3. CASE PollCancelled \/ WaitCancelled \/ Crash
  BY <1>3 DEF PollCancelled, WaitCancelled, Crash, Exit
<1>4. CASE MatchedDigest
  BY <1>1, <1>4, ConstantAssumption DEF MatchedDigest, Remember
<1>5. CASE NewBody
  BY <1>1, <1>5 DEF NewBody, memory
<1>6. CASE ReconcileOk
  BY <1>6, ConstantAssumption DEF ReconcileOk, Remember
<1>7. CASE ApplyPass \/ SweepPass
  BY <1>2, <1>7
     DEF ApplyPass, Apply, ApplyErr, SweepPass, SweepList, SweepListErr, SweepDelete,
       SweepDeleteErr, memory
<1>8. CASE FetchErr \/ NotModified \/ TimerFires \/ Restart
  BY <1>2, <1>8 DEF FetchErr, NotModified, TimerFires, Restart, memory
<1>9. CASE Environment \/ UNCHANGED vars
  BY <1>2, <1>3, <1>9 DEF Environment, Signal, ServeNext, CalmDown, Drift, vars, memory, work
<1> QED
  BY <1>3, <1>4, <1>5, <1>6, <1>7, <1>8, <1>9 DEF Next, Controller, Poll, Wait

(***************************************************************************)
(* When pangolin tags every response, the tag that the next request sends  *)
(* names the body reconciled last, so a 304 stands for that very body,     *)
(* under every fault (src/reconcile.rs:60-64, 96-99).                      *)
(***************************************************************************)
THEOREM TagIsDigest ==
  ASSUME EtagSent = {TRUE}
  PROVE  ControllerSpec => []TagNamesDigest
<1>1. Init => TagInv
  BY InitTypeOK
     DEF TagInv, TagNamesDigest, TagFetched, TypeInv, ToApplyWanted, IdleOutside, ApplyFirst, Init
<1>2. TagInv /\ [Next]_vars => TagInv'
  BY NextTagInv
<1>3. TagInv => TagNamesDigest
  BY DEF TagInv
<1> QED
  BY <1>1, <1>2, <1>3, PTL DEF ControllerSpec

-----------------------------------------------------------------------------
(* The short cuts of a poll.  They trust that the namespace still shows    *)
(* what is remembered as last_digest.                                      *)

NoWriteFault == NoSweepFault /\ "apply" \notin Faults

\* Nobody only watches.
NoneReadOnly == \A s \in Setting : ~s.read_only

\* What is remembered is in place whenever no pass is under way.
ShownAtRest ==
  /\ pc # "reconcile" /\ last_digest # None => Mirrors(cluster, last_digest, SweptKinds(cfg))
  /\ pc = "down" => last_digest = None

ShownInv == SafeInv /\ TagInv /\ ShownAtRest

(***************************************************************************)
(* At the end of a pass the namespace shows the body.                      *)
(***************************************************************************)
LEMMA PassMirrors ==
  ASSUME SafeInv, ReconcileOk, ~cfg.read_only
  PROVE  Mirrors(cluster, fetched.body, SweptKinds(cfg))
  BY DEF SafeInv, Written, Swept, ReconcileOk, Mirrors, Owned, Wanted, Applied

(***************************************************************************)
(* The only ways out of a pass are its success and the end of the process, *)
(* and outside a pass the controller writes nothing.                       *)
(***************************************************************************)
LEMMA NextShownInv ==
  ASSUME NoWriteFault, NoneReadOnly, EtagSent = {TRUE}, ShownInv, [Next]_vars
  PROVE  ShownInv'
<1>1. SafeInv' /\ TagInv'
  BY NextSafeInv, NextTagInv DEF ShownInv, NoWriteFault
<1> SUFFICES ShownAtRest'
  BY <1>1 DEF ShownInv
<1>2. \A f \in {"apply", "list", "delete", "drift"} : ~Fault(f)
  BY DEF NoWriteFault, NoSweepFault, Fault
<1>3. CASE /\ UNCHANGED <<cluster, cfg, last_digest>>
           /\ \/ pc # "reconcile" /\ pc' # "down"
              \/ pc' = "reconcile" \/ pc' = pc
  BY <1>3 DEF ShownInv, ShownAtRest, Mirrors, Mine
<1>4. CASE PollCancelled \/ WaitCancelled \/ Crash
  BY <1>4 DEF PollCancelled, WaitCancelled, Crash, Exit, ShownAtRest
<1>5. CASE Restart
  BY <1>5 DEF Restart, memory, ShownInv, ShownAtRest
<1>6. CASE ReconcileOk
  <2>1. ~cfg.read_only
    BY DEF NoneReadOnly, ShownInv, SafeInv, TypeInv, TypeOK
  <2>2. Mirrors(cluster, fetched.body, SweptKinds(cfg))
    BY <1>6, <2>1, PassMirrors DEF ShownInv
  <2> QED
    BY <1>6, <2>2 DEF ReconcileOk, ShownAtRest, Mirrors, Mine
<1>7. CASE ApplyPass \/ SweepPass
  BY <1>2, <1>7
     DEF ApplyPass, Apply, ApplyErr, NextToApply, SweepPass, SweepList, SweepListErr, NextToSweep,
       SweepDelete, SweepDeleteErr, ShownAtRest
<1>8. CASE Poll \/ TimerFires
  BY <1>3, <1>8 DEF Poll, FetchErr, NotModified, MatchedDigest, NewBody, Answered, TimerFires, memory
<1>9. CASE Signal \/ ServeNext \/ CalmDown \/ UNCHANGED vars
  BY <1>3, <1>9 DEF Signal, ServeNext, CalmDown, vars, memory
<1>10. ASSUME NEW k \in Key, Drift(k)
       PROVE  FALSE
  BY <1>2, <1>10 DEF Drift
<1> QED
  BY <1>4, <1>5, <1>6, <1>7, <1>8, <1>9, <1>10 DEF Next, Controller, Environment, Wait

(***************************************************************************)
(* When every response has a tag, no write fails and nobody else writes,   *)
(* each poll that ends well leaves the namespace as the polled body asks,  *)
(* the short cuts included, through failing fetches, crashes, signals and  *)
(* restarts under other settings.  The run that lets a write fail shows    *)
(* that the proviso is needed (src/reconcile.rs:58-101).                   *)
(***************************************************************************)
THEOREM ShortCutsAreRight ==
  ASSUME NoWriteFault, NoneReadOnly, EtagSent = {TRUE}
  PROVE  ControllerSpec => EveryPollMirrors
<1>1. Init => ShownInv
  BY InitSafeInv DEF ShownInv, ShownAtRest, SafeInv, TagInv, TagNamesDigest, TagFetched, Init
<1>2. ShownInv /\ [Next]_vars => ShownInv'
  BY NextShownInv
<1> DEFINE Ends == pc # pc' /\ pc' = "wait_poll"
<1>3. ASSUME ShownInv, [Next]_vars, Ends
      PROVE  Mirrors(cluster', Polled, SweptKinds(cfg))
  <2>1. CASE NotModified \/ MatchedDigest
    <3>1. last_digest = served /\ last_digest # None /\ cluster' = cluster /\ pc = "poll"
      BY <1>3, <2>1, ConstantAssumption
         DEF NotModified, MatchedDigest, Answered, ShownInv, TagInv, TagNamesDigest, SafeInv,
           TypeInv, TypeOK
    <3> QED
      BY <1>3, <3>1 DEF ShownInv, ShownAtRest, Polled
  <2>2. CASE ReconcileOk
    <3>1. ~cfg.read_only /\ pc # "poll" /\ cluster' = cluster
      BY <1>3, <2>2 DEF NoneReadOnly, ShownInv, SafeInv, TypeInv, TypeOK, ReconcileOk
    <3> QED
      BY <1>3, <2>2, <3>1, PassMirrors DEF ShownInv, Polled
  <2>3. NotModified \/ MatchedDigest \/ ReconcileOk
    BY <1>3
       DEF Next, vars, Controller, Environment, Poll, ApplyPass, SweepPass, Wait,
         FetchErr, NewBody, PollCancelled, WaitCancelled, Crash, Exit, Restart, Signal, Apply,
         ApplyErr, SweepList, SweepListErr, SweepDelete, SweepDeleteErr, TimerFires, ServeNext,
         Drift, CalmDown
  <2> QED
    BY <2>1, <2>2, <2>3
<1>4. ShownInv /\ [Next]_vars => [Ends => Mirrors(cluster', Polled, SweptKinds(cfg))]_vars
  BY <1>3
<1> QED
  BY <1>1, <1>2, <1>4, PTL DEF ControllerSpec, EveryPollMirrors

-----------------------------------------------------------------------------
(* What the namespace becomes once trouble has ended.  Nothing is enabled  *)
(* or fair here: that the task goes on and that passes end is Progress.    *)

\* No fault can happen any more, and the process runs and is not being stopped.
Up == calm /\ ~shutdown /\ pc # "down"

\* The namespace shows what pangolin serves, and a running pass is about that body.
Settled ==
  /\ Up
  /\ pc = "reconcile" => fetched.body = served
  /\ Mirrors(cluster, served, SweptKinds(cfg))

\* A pass for the served body in which nothing has failed.
CleanPass == Up /\ pc = "reconcile" /\ fetched.body = served /\ Written /\ Swept

(***************************************************************************)
(* Once calm, the process stays up, under the same settings, and pangolin  *)
(* serves the same body; no call fails and nobody else writes.             *)
(***************************************************************************)
LEMMA UpStep ==
  ASSUME Up, [Next]_vars
  PROVE  /\ Up' /\ UNCHANGED <<served, cfg>>
         /\ \/ NotModified \/ MatchedDigest \/ NewBody \/ ReconcileOk \/ TimerFires
            \/ \E k \in Key : Apply(k) \/ SweepDelete(k)
            \/ \E kind \in Kind : SweepList(kind)
            \/ UNCHANGED vars
<1>1. /\ \A f : ~Fault(f)
      /\ ~PollCancelled /\ ~WaitCancelled /\ ~Restart /\ ~ServeNext /\ ~CalmDown
  BY DEF Up, Fault, PollCancelled, WaitCancelled, Restart, ServeNext, CalmDown
<1>2. \/ NotModified \/ MatchedDigest \/ NewBody \/ ReconcileOk \/ TimerFires
      \/ \E k \in Key : Apply(k) \/ SweepDelete(k)
      \/ \E kind \in Kind : SweepList(kind)
      \/ UNCHANGED vars
  BY <1>1
     DEF Next, Controller, Environment, Poll, ApplyPass, SweepPass, Wait, FetchErr, ApplyErr,
       SweepListErr, SweepDeleteErr, Signal, Crash, Drift
<1>3. UNCHANGED <<outside, cfg, shutdown>> /\ pc' # "down"
  BY <1>2
     DEF NotModified, MatchedDigest, NewBody, ReconcileOk, TimerFires, Apply, SweepDelete,
       SweepList, vars, outside, Up
<1> QED
  BY <1>2, <1>3 DEF Up, outside

(***************************************************************************)
(* A pass for the served body changes nothing where the namespace already  *)
(* shows that body, and outside a pass nothing is written.                 *)
(***************************************************************************)
LEMMA SettledStep ==
  ASSUME FaultyInv, Settled, [Next]_vars
  PROVE  Settled'
<1> USE DEF FaultyInv, TypeInv, TypeOK
<1>1. Up' /\ UNCHANGED <<served, cfg>>
  BY UpStep DEF Settled
<1>2. (pc = "reconcile" => fetched.body = served)'
  BY <1>1, UpStep
     DEF Settled, NotModified, MatchedDigest, NewBody, ReconcileOk, TimerFires, Apply, SweepDelete,
       SweepList, vars, work, Tags
<1>3. \A k \in Key :
        \/ cluster'[k] = cluster[k]
        \/ Wanted(k) # None /\ cluster'[k] = Applied(k) /\ pc = "reconcile"
        \/ Wanted(k) = None /\ cluster'[k] = None /\ pc = "reconcile"
  BY UpStep
     DEF Settled, NotModified, MatchedDigest, NewBody, ReconcileOk, TimerFires, Apply, NextToApply,
       ToApplyWanted, SweepDelete, VictimsUnwanted, SweepList, vars
<1>4. Mirrors(cluster', served, SweptKinds(cfg))
  BY <1>3 DEF Settled, Mirrors, Mine, Wanted, Applied
<1> QED
  BY <1>1, <1>2, <1>4 DEF Settled, Mirrors

(***************************************************************************)
(* A pass in which nothing has failed goes on without failing, and what it *)
(* leaves when it ends is what pangolin serves, whatever passes that       *)
(* failed and other writers had left (src/reconcile.rs:109-261).           *)
(***************************************************************************)
LEMMA CleanPassStep ==
  ASSUME FaultyInv, NoneReadOnly, CleanPass, [Next]_vars
  PROVE  CleanPass' \/ Settled'
<1> USE DEF FaultyInv, TypeInv, TypeOK
<1>1. Up' /\ UNCHANGED <<served, cfg>> /\ pc = "reconcile" /\ fetched.body = served
  BY UpStep DEF CleanPass
<1>2. ~cfg.read_only
  BY DEF NoneReadOnly
<1>3. CASE ReconcileOk
  <2>1. Mirrors(cluster, served, SweptKinds(cfg))
    BY <1>1, <1>2, <1>3 DEF CleanPass, Written, Swept, ReconcileOk, Mirrors, Owned, Wanted, Applied
  <2>2. cluster' = cluster /\ pc' # "reconcile"
    BY <1>3 DEF ReconcileOk
  <2> QED
    BY <1>1, <2>1, <2>2 DEF Settled, Mirrors
<1>4. ASSUME NEW k \in Key, Apply(k)
      PROVE  CleanPass'
  <2>1. \A j \in Key : Wanted(j)' = Wanted(j) /\ Applied(j)' = Applied(j)
    BY <1>4 DEF Apply, Wanted, Applied
  <2>2. Written'
    BY <1>2, <1>4, <2>1 DEF CleanPass, Apply, NextToApply, Written
  <2>3. toSweep' = SweptKinds(cfg)'
    BY <1>4 DEF Apply, NextToApply, ApplyFirst, SweptKinds
  <2>4. Swept'
    BY <2>3 DEF Swept
  <2> QED
    BY <1>1, <1>4, <2>2, <2>4 DEF CleanPass, Apply
<1>5. ASSUME NEW v \in Key, SweepDelete(v)
      PROVE  CleanPass'
  <2>1. \A j \in Key : Wanted(j)' = Wanted(j) /\ Applied(j)' = Applied(j)
    BY <1>5 DEF SweepDelete, Wanted, Applied
  <2>2. Wanted(v) = None
    BY <1>5 DEF SweepDelete, VictimsUnwanted
  <2>3. Written'
    BY <1>2, <1>5, <2>1, <2>2 DEF CleanPass, SweepDelete, Written
  <2>4. \A j \in Key : Owned(j)' => Owned(j) /\ j # v
    BY <1>5 DEF SweepDelete, Owned, Mine
  <2>5. Swept'
    BY <1>2, <1>5, <2>1, <2>4 DEF CleanPass, SweepDelete, Swept
  <2> QED
    BY <1>1, <1>5, <2>3, <2>5 DEF CleanPass, SweepDelete
<1>6. ASSUME NEW kind \in Kind, SweepList(kind)
      PROVE  CleanPass'
  <2>1. \A j \in Key : Wanted(j)' = Wanted(j) /\ Applied(j)' = Applied(j) /\ Owned(j)' = Owned(j)
    BY <1>6 DEF SweepList, Wanted, Applied, Owned
  <2>2. Written'
    BY <1>2, <1>6, <2>1 DEF CleanPass, SweepList, Written
  <2>3. Swept'
    BY <1>2, <1>6, <2>1 DEF CleanPass, SweepList, NextToSweep, Swept, Orphans, SweptKinds
  <2> QED
    BY <1>1, <1>6, <2>2, <2>3 DEF CleanPass, SweepList
<1>7. CASE UNCHANGED vars
  BY <1>1, <1>7 DEF CleanPass, Written, Swept, vars, Wanted, Applied, Owned
<1> QED
  BY <1>1, <1>3, <1>4, <1>5, <1>6, <1>7, UpStep
     DEF CleanPass, NotModified, MatchedDigest, NewBody, Answered, TimerFires

(***************************************************************************)
(* A pass that starts once calm is one in which nothing has failed.        *)
(***************************************************************************)
LEMMA NewPassClean ==
  ASSUME FaultyInv, Up, [Next]_vars, NewBody
  PROVE  CleanPass'
<1>1. Up' /\ UNCHANGED <<served, cfg>>
  BY UpStep
<1>2. /\ pc' = "reconcile" /\ fetched'.body = served
      /\ toSweep' = SweptKinds(cfg)'
      /\ toApply' = {k \in Key : Wanted(k)' # None}
  BY DEF NewBody, SweptKinds, Wanted
<1> QED
  BY <1>1, <1>2 DEF CleanPass, Written, Swept

(***************************************************************************)
(* FaultyInv holds in the first state.                                     *)
(***************************************************************************)
LEMMA InitFaultyInv == Init => FaultyInv
  BY InitTypeOK
     DEF FaultyInv, WrittenOrGone, VictimsUnwanted, TypeInv, ToApplyWanted, IdleOutside, ApplyFirst,
       Init

(***************************************************************************)
(* Whatever can fail, once trouble has ended and the namespace shows what  *)
(* pangolin serves, it does so for ever: no later poll, no pass that was   *)
(* already under way and no short cut undoes it (src/reconcile.rs:39-106). *)
(***************************************************************************)
THEOREM SettledStays ==
  ControllerSpec => [](Settled => [](Mirrors(cluster, served, SweptKinds(cfg))))
<1>1. FaultyInv /\ Settled /\ [Next]_vars => Settled'
  BY SettledStep
<1>2. Settled => Mirrors(cluster, served, SweptKinds(cfg))
  BY DEF Settled
<1> QED
  BY <1>1, <1>2, InitFaultyInv, NextFaultyInv, PTL DEF ControllerSpec

(***************************************************************************)
(* From any namespace and any memory of the process, which every fault may *)
(* have shaped, a body that is polled anew is published and stays so,      *)
(* given that the task goes on and that passes end                         *)
(* (src/reconcile.rs:39-106).                                              *)
(***************************************************************************)
THEOREM FreshBodyIsPublished ==
  ASSUME NoneReadOnly
  PROVE  ControllerSpec /\ Progress => FreshBodyConverges
<1> DEFINE Fresh == calm /\ pc = "poll" /\ ~shutdown /\ served \notin {last_digest, last_etag}
           Shown == Mirrors(cluster, served, SweptKinds(cfg))
<1>1. ASSUME FaultyInv, Fresh, [Next]_vars
      PROVE  /\ Fresh' \/ CleanPass'
             /\ <<Controller>>_vars => CleanPass'
  <2>1. Up
    BY <1>1 DEF Up
  <2>2. NewBody \/ UNCHANGED vars
    BY <1>1, <2>1, UpStep
       DEF NotModified, MatchedDigest, ReconcileOk, TimerFires, Apply, NextToApply, SweepDelete,
         SweepList, NextToSweep
  <2>3. NewBody => CleanPass'
    BY <1>1, <2>1, NewPassClean
  <2>4. UNCHANGED vars => Fresh'
    BY <1>1 DEF vars
  <2> QED
    BY <2>2, <2>3, <2>4
<1>2. FaultyInv /\ CleanPass /\ [Next]_vars => CleanPass' \/ Settled'
  BY CleanPassStep
<1>3. CleanPass => ~(pc # "reconcile")
  BY DEF CleanPass
<1>4. FaultyInv /\ Settled /\ [Next]_vars => Settled'
  BY SettledStep
<1>5. Settled => Shown
  BY DEF Settled
<1>6. FaultyInv /\ Fresh /\ [Next]_vars => Fresh' \/ CleanPass'
  BY <1>1
<1>7. FaultyInv /\ Fresh /\ [Next]_vars /\ <<Controller>>_vars => CleanPass'
  BY <1>1
<1> QED
  BY <1>2, <1>3, <1>4, <1>5, <1>6, <1>7, InitFaultyInv, NextFaultyInv, PTL
     DEF ControllerSpec, Progress, FreshBodyConverges

-----------------------------------------------------------------------------
(* A termination signal.                                                   *)

Waiting == pc \in {"wait_fetch", "wait_reconcile", "wait_poll"}

(***************************************************************************)
(* The ways of a process that was told to stop: out of the pass, into a    *)
(* sleep, at most once more to the head of the loop, and out.              *)
(***************************************************************************)
LEMMA StoppingStep ==
  ASSUME TypeInv, shutdown, [Next]_vars
  PROVE  /\ shutdown' \/ pc' = "down"
         /\ pc = "reconcile" => (pc = "reconcile" \/ Waiting \/ pc = "down")'
         /\ Waiting => (Waiting \/ pc = "poll" \/ pc = "down")'
         /\ pc = "poll" => (pc = "poll" \/ pc = "down")'
         /\ Waiting /\ <<Controller>>_vars => (pc = "poll" \/ pc = "down")'
         /\ pc = "poll" /\ <<Controller>>_vars => pc' = "down"
<1> USE DEF Waiting
<1>1. CASE PollCancelled \/ WaitCancelled \/ Crash
  BY <1>1 DEF PollCancelled, WaitCancelled, Crash, Exit
<1>2. CASE Poll
  BY <1>2 DEF Poll, FetchErr, NotModified, MatchedDigest, NewBody, Answered
<1>3. CASE ApplyPass \/ SweepPass \/ ReconcileOk
  BY <1>3
     DEF ApplyPass, Apply, ApplyErr, NextToApply, SweepPass, SweepList, SweepListErr, NextToSweep,
       SweepDelete, SweepDeleteErr, ReconcileOk
<1>4. CASE TimerFires
  BY <1>4 DEF TimerFires
<1>5. CASE Restart
  BY <1>5 DEF Restart
<1>6. ASSUME Environment \/ UNCHANGED vars, ~Crash
      PROVE  UNCHANGED <<pc, shutdown>>
  BY <1>6 DEF Environment, Signal, ServeNext, CalmDown, Drift, vars
<1> QED
  BY <1>1, <1>2, <1>3, <1>4, <1>5, <1>6 DEF Next, Controller, Wait, vars

(***************************************************************************)
(* A termination signal ends the process, from every await and whatever    *)
(* else fails, given that the task goes on and that passes end             *)
(* (src/reconcile.rs:40-42, 296-301).                                      *)
(***************************************************************************)
THEOREM SignalEndsProcess == ControllerSpec /\ Progress => ShutdownStops
<1> DEFINE Down == pc = "down"
           InPass == shutdown /\ ~(pc # "reconcile")
           Asleep == shutdown /\ Waiting
           AtHead == shutdown /\ pc = "poll"
<1>1. Init => TypeInv
  BY InitFaultyInv DEF FaultyInv
<1>2. TypeInv /\ shutdown => InPass \/ Asleep \/ AtHead \/ Down
  BY DEF TypeInv, TypeOK, Waiting
<1>3. TypeInv /\ InPass /\ [Next]_vars => InPass' \/ Asleep' \/ Down'
  BY StoppingStep
<1>4. TypeInv /\ Asleep /\ [Next]_vars => Asleep' \/ AtHead' \/ Down'
  BY StoppingStep
<1>5. TypeInv /\ AtHead /\ [Next]_vars => AtHead' \/ Down'
  BY StoppingStep
<1>6. TypeInv /\ Asleep /\ [Next]_vars /\ <<Controller>>_vars => AtHead' \/ Down'
  BY StoppingStep
<1>7. TypeInv /\ AtHead /\ [Next]_vars /\ <<Controller>>_vars => Down'
  BY StoppingStep
<1>8. InPass => ~(pc # "reconcile")
  OBVIOUS
<1> HIDE DEF InPass, Asleep, AtHead
<1> QED
  BY <1>1, <1>2, <1>3, <1>4, <1>5, <1>6, <1>7, <1>8, NextTypeInv, PTL
     DEF ControllerSpec, Progress, ShutdownStops

-----------------------------------------------------------------------------
(* Convergence from every calm state.                                      *)

\* A process that has ended is not being stopped.
DownInv == pc = "down" => ~shutdown

(***************************************************************************)
(* The cancellation token belongs to the process.                          *)
(***************************************************************************)
LEMMA NextDownInv == DownInv /\ [Next]_vars => DownInv'
<1> SUFFICES ASSUME DownInv, [Next]_vars PROVE DownInv'
  OBVIOUS
<1> USE DEF DownInv
<1>1. CASE PollCancelled \/ WaitCancelled \/ Crash
  BY <1>1 DEF PollCancelled, WaitCancelled, Crash, Exit
<1>2. CASE Poll \/ ReconcileOk \/ TimerFires \/ Restart
  BY <1>2
     DEF Poll, FetchErr, NotModified, MatchedDigest, NewBody, ReconcileOk, TimerFires, Restart
<1>3. CASE ApplyPass \/ SweepPass
  BY <1>3
     DEF ApplyPass, Apply, ApplyErr, SweepPass, SweepList, SweepListErr, SweepDelete,
       SweepDeleteErr
<1>4. CASE Environment \/ UNCHANGED vars
  BY <1>1, <1>4 DEF Environment, Signal, ServeNext, CalmDown, Drift, vars
<1> QED
  BY <1>1, <1>2, <1>3, <1>4 DEF Next, Controller, Wait

(***************************************************************************)
(* Calm is for ever, and a process that has ended comes back.              *)
(***************************************************************************)
LEMMA CalmStep ==
  ASSUME DownInv, calm, [Next]_vars
  PROVE  /\ calm'
         /\ pc = "down" => (pc = "down" \/ Up)'
         /\ pc = "down" /\ <<Controller>>_vars => Up'
<1>1. CASE Restart
  BY <1>1 DEF Restart, outside, DownInv, Up
<1>2. CASE Crash \/ ServeNext \/ CalmDown \/ Signal \/ (\E k \in Key : Drift(k))
  BY <1>2 DEF Crash, ServeNext, CalmDown, Signal, Drift, Fault
<1>3. CASE Poll \/ PollCancelled \/ ApplyPass \/ SweepPass \/ ReconcileOk \/ Wait
  BY <1>3
     DEF Poll, FetchErr, NotModified, MatchedDigest, NewBody, Answered, PollCancelled, Exit,
       ApplyPass, Apply, ApplyErr, NextToApply, SweepPass, SweepList, SweepListErr, NextToSweep,
       SweepDelete, SweepDeleteErr, ReconcileOk, Wait, TimerFires, WaitCancelled, outside
<1>4. CASE UNCHANGED vars
  BY <1>1, <1>3, <1>4 DEF vars, Controller
<1> QED
  BY <1>1, <1>2, <1>3, <1>4 DEF Next, Controller, Environment

(***************************************************************************)
(* A poll once calm either finds the namespace as it should be or starts a *)
(* clean pass; the other awaits lead to a poll.                            *)
(***************************************************************************)
LEMMA UpGoesOn ==
  ASSUME ShownInv, FaultyInv, Up, [Next]_vars
  PROVE  /\ pc = "poll" => (Up /\ pc = "poll")' \/ CleanPass' \/ Settled'
         /\ pc = "poll" /\ <<Controller>>_vars => CleanPass' \/ Settled'
         /\ Waiting => (Up /\ (Waiting \/ pc = "poll"))'
         /\ Waiting /\ <<Controller>>_vars => (Up /\ pc = "poll")'
         /\ pc = "reconcile" => (Up /\ (Waiting \/ pc = "reconcile"))'
<1> USE DEF Waiting
<1>1. Up' /\ UNCHANGED <<served, cfg>>
  BY UpStep
<1>2. CASE NewBody
  BY <1>2, NewPassClean DEF NewBody, Answered
<1>3. CASE NotModified \/ MatchedDigest
  <2>1. last_digest = served /\ last_digest # None /\ cluster' = cluster
    BY <1>3, ConstantAssumption
       DEF NotModified, MatchedDigest, ShownInv, TagInv, TagNamesDigest, FaultyInv, TypeInv, TypeOK
  <2>2. pc = "poll" /\ pc' = "wait_poll"
    BY <1>3 DEF NotModified, MatchedDigest, Answered
  <2>3. Mirrors(cluster, served, SweptKinds(cfg))
    BY <2>1, <2>2 DEF ShownInv, ShownAtRest
  <2>4. Settled'
    BY <1>1, <2>1, <2>2, <2>3 DEF Settled, Mirrors
  <2> QED
    BY <2>2, <2>4
<1>4. CASE ReconcileOk
  BY <1>1, <1>4 DEF ReconcileOk
<1>5. CASE TimerFires
  BY <1>1, <1>5 DEF TimerFires
<1>6. CASE \/ \E k \in Key : Apply(k) \/ SweepDelete(k)
           \/ \E kind \in Kind : SweepList(kind)
  BY <1>1, <1>6 DEF Apply, NextToApply, SweepDelete, SweepList, NextToSweep
<1>7. CASE UNCHANGED vars
  BY <1>1, <1>7 DEF vars
<1> QED
  BY <1>2, <1>3, <1>4, <1>5, <1>6, <1>7, UpStep

(***************************************************************************)
(* When every response has a tag, no write fails and nobody else writes,   *)
(* the namespace becomes and stays what pangolin serves once the trouble   *)
(* ends: fetches that fail, crashes, signals and restarts under other      *)
(* settings; given that the task goes on and that passes end               *)
(* (src/reconcile.rs:39-106).                                              *)
(***************************************************************************)
THEOREM ControllerConverges ==
  ASSUME NoWriteFault, NoneReadOnly, EtagSent = {TRUE}
  PROVE  ControllerSpec /\ Progress => Converges
<1> DEFINE Inv == ShownInv /\ FaultyInv /\ DownInv
           Shown == Mirrors(cluster, served, SweptKinds(cfg))
           Ended == pc = "down"
           UpPass == Up /\ ~(pc # "reconcile")
           UpAsleep == Up /\ Waiting
           UpHead == Up /\ pc = "poll"
<1>1. Init => Inv
  BY InitSafeInv, InitFaultyInv
     DEF ShownInv, ShownAtRest, SafeInv, TagInv, TagNamesDigest, TagFetched, DownInv, Init
<1>2. Inv /\ [Next]_vars => Inv'
  BY NextShownInv, NextFaultyInv, NextDownInv
<1>3. Inv /\ calm /\ [Next]_vars => calm'
  BY CalmStep
<1>4. Inv /\ calm => shutdown \/ Ended \/ Up
  BY DEF Up
<1>5. Inv /\ Up => UpPass \/ UpAsleep \/ UpHead
  BY DEF FaultyInv, TypeInv, TypeOK, Waiting, Up
<1>6. /\ Inv /\ calm /\ Ended /\ [Next]_vars => Ended' \/ Up'
      /\ Inv /\ calm /\ Ended /\ [Next]_vars /\ <<Controller>>_vars => Up'
  BY CalmStep
<1>7. Inv /\ UpPass /\ [Next]_vars => UpPass' \/ UpAsleep'
  BY UpGoesOn
<1>8. /\ Inv /\ UpAsleep /\ [Next]_vars => UpAsleep' \/ UpHead'
      /\ Inv /\ UpAsleep /\ [Next]_vars /\ <<Controller>>_vars => UpHead'
  BY UpGoesOn
<1>9. /\ Inv /\ UpHead /\ [Next]_vars => UpHead' \/ CleanPass' \/ Settled'
      /\ Inv /\ UpHead /\ [Next]_vars /\ <<Controller>>_vars => CleanPass' \/ Settled'
  BY UpGoesOn
<1>10. Inv /\ CleanPass /\ [Next]_vars => CleanPass' \/ Settled'
  BY CleanPassStep
<1>11. Inv /\ Settled /\ [Next]_vars => Settled'
  BY SettledStep
<1>12. /\ UpPass => ~(pc # "reconcile")
       /\ CleanPass => ~(pc # "reconcile")
       /\ Settled => Shown
  BY DEF CleanPass, Settled
<1> HIDE DEF Inv, UpPass, UpAsleep, UpHead
<1> QED
  BY <1>1, <1>2, <1>3, <1>4, <1>5, <1>6, <1>7, <1>8, <1>9, <1>10, <1>11, <1>12,
     SignalEndsProcess, PTL
     DEF ControllerSpec, Progress, ShutdownStops, Converges

-----------------------------------------------------------------------------
(* The measures behind Progress and FetchBackoffSaturates.  What is left   *)
(* to model checking is that a descent in a finite set, and a climb below  *)
(* a bound, come to an end.                                                *)

Shrinks(now, next) == next \subseteq now /\ next # now

\* What a pass has left to do, in the order in which it does it.
Descends ==
  \/ Shrinks(toApply, toApply')
  \/ toApply' = toApply /\ Shrinks(toSweep, toSweep')
  \/ toApply' = toApply /\ toSweep' = toSweep /\ Shrinks(victims, victims')

\* Within a pass the task always descends, and nobody adds to its work.
PassDescends ==
  pc = "reconcile" /\ pc' = "reconcile" =>
    /\ Descends \/ UNCHANGED <<toApply, toSweep, victims>>
    /\ Controller => Descends

(***************************************************************************)
(* Every request of a pass, successful or not, takes away from what the    *)
(* pass has left to do, so that a pass ends after at most as many requests *)
(* as there are wanted objects, kinds and listed orphans                   *)
(* (src/reconcile.rs:109-261, src/gc.rs:15-44).                            *)
(***************************************************************************)
THEOREM PassesDescend == ControllerSpec => [][PassDescends]_vars
<1>1. ASSUME TypeInv, [Next]_vars, pc = "reconcile", pc' = "reconcile"
      PROVE  /\ Descends \/ UNCHANGED <<toApply, toSweep, victims>>
             /\ Controller => Descends
  <2>1. ApplyPass => Shrinks(toApply, toApply')
    BY <1>1 DEF ApplyPass, Apply, ApplyErr, NextToApply, Shrinks
  <2>2. SweepPass => Descends
    BY DEF SweepPass, SweepList, SweepListErr, NextToSweep, SweepDelete, SweepDeleteErr, Descends,
         Shrinks
  <2>3. Controller => ApplyPass \/ SweepPass
    BY <1>1
       DEF Controller, Poll, FetchErr, NotModified, MatchedDigest, NewBody, Answered,
         PollCancelled, ReconcileOk, Wait, TimerFires, WaitCancelled, Restart
  <2>4. Environment \/ UNCHANGED vars => UNCHANGED <<toApply, toSweep, victims>>
    BY <1>1 DEF Environment, Signal, Crash, Exit, ServeNext, CalmDown, Drift, work, vars
  <2> QED
    BY <1>1, <2>1, <2>2, <2>3, <2>4 DEF Next, Descends
<1>2. TypeInv /\ [Next]_vars => [PassDescends]_vars
  BY <1>1 DEF PassDescends
<1>3. Init => TypeInv
  BY InitFaultyInv DEF FaultyInv
<1> QED
  BY <1>2, <1>3, NextTypeInv, PTL DEF ControllerSpec

\* From the fetch to the end of the sleep after a failed pass the delay is a second.
ResetInv == pc \in {"reconcile", "wait_reconcile"} => backoff = 1

(***************************************************************************)
(* A failed pass is tried again after a second, whatever else has failed   *)
(* before it (src/reconcile.rs:45-49, 87-95).                              *)
(***************************************************************************)
THEOREM FailedPassesRetrySoon == ControllerSpec => []FailedPassRetriesSoon
<1>1. Init => ResetInv
  BY DEF Init, ResetInv
<1>2. ASSUME ResetInv, [Next]_vars
      PROVE  ResetInv'
  <2>1. CASE pc' = pc /\ backoff' = backoff
    BY <1>2, <2>1 DEF ResetInv
  <2>2. CASE pc' \notin {"reconcile", "wait_reconcile"}
    BY <2>2 DEF ResetInv
  <2>3. CASE NewBody
    BY <2>3 DEF NewBody, Answered, ResetInv
  <2>4. CASE \E k \in Key : ApplyErr(k)
    BY <1>2, <2>4 DEF ApplyErr, NextToApply, ResetInv
  <2> QED
    BY <1>2, <2>1, <2>2, <2>3, <2>4
       DEF Next, vars, Controller, Environment, Poll, Wait, FetchErr, NotModified, MatchedDigest,
         ApplyPass, Apply, SweepPass, SweepList, SweepListErr, SweepDelete, SweepDeleteErr,
         ReconcileOk, TimerFires, PollCancelled, WaitCancelled, Crash, Exit, Restart, Signal,
         ServeNext, Drift, CalmDown
<1>3. ResetInv => FailedPassRetriesSoon
  BY DEF ResetInv, FailedPassRetriesSoon
<1> QED
  BY <1>1, <1>2, <1>3, PTL DEF ControllerSpec

\* The delay is at most the bound, but for the first second, and never nothing
\* unless the bound is.
BackoffBounded ==
  /\ backoff = 1 \/ backoff <= MaxBackoff
  /\ backoff = 0 => MaxBackoff = 0

BackoffInv == TypeInv /\ BackoffBounded

(***************************************************************************)
(* The delay is doubled, cut down to the bound, or reset.                  *)
(***************************************************************************)
LEMMA NextBackoffInv == BackoffInv /\ [Next]_vars => BackoffInv'
<1> SUFFICES ASSUME BackoffInv, [Next]_vars
             PROVE  BackoffBounded'
  BY NextTypeInv DEF BackoffInv
<1> USE DEF BackoffInv, BackoffBounded, TypeInv, TypeOK
<1>1. backoff' \in {backoff, 1} => BackoffBounded'
  OBVIOUS
<1>2. CASE TimerFires
  BY <1>2, ConstantAssumption DEF TimerFires, Doubled
<1>3. backoff' \in {backoff, 1} \/ TimerFires
  BY DEF Next, Controller, Environment, Poll, ApplyPass, SweepPass, Wait, FetchErr, NotModified,
       MatchedDigest, NewBody, Answered, PollCancelled, WaitCancelled, Crash, Exit, Restart,
       Signal, Apply, ApplyErr, SweepList, SweepListErr, SweepDelete, SweepDeleteErr, ReconcileOk,
       ServeNext, Drift, CalmDown, vars
<1> QED
  BY <1>1, <1>2, <1>3

Outage == pc \in {"poll", "wait_fetch"}

\* While only fetches fail, each delay waited out makes the next one longer,
\* until it is the longest, which it then stays.
BackoffClimbs ==
  Outage /\ Outage' =>
    /\ backoff' \in {backoff, MaxBackoff} \/ backoff' > backoff
    /\ backoff = MaxBackoff => backoff' = MaxBackoff
    /\ pc = "wait_fetch" /\ pc' = "poll" => backoff' = MaxBackoff \/ backoff' > backoff

(***************************************************************************)
(* For every CONFIG_MAX_BACKOFF, zero included, the delay never passes it  *)
(* once it has grown, and an outage of pangolin only ever lengthens it     *)
(* (src/reconcile.rs:37, 47-56, 90-93).                                    *)
(***************************************************************************)
THEOREM OutageLengthensBackoff ==
  ControllerSpec => []BackoffBounded /\ [][BackoffClimbs]_vars
<1>1. Init => BackoffInv
  BY InitFaultyInv DEF FaultyInv, BackoffInv, BackoffBounded, Init
<1>2. ASSUME BackoffInv, [Next]_vars, Outage, Outage'
      PROVE  BackoffClimbs
  <2> USE DEF BackoffInv, BackoffBounded, TypeInv, TypeOK, Outage
  <2>1. TimerFires \/ UNCHANGED <<pc, backoff>> \/ FetchErr
    BY <1>2
       DEF Next, Controller, Environment, Poll, ApplyPass, SweepPass, Wait, NotModified,
         MatchedDigest, NewBody, Answered, PollCancelled, WaitCancelled, Crash, Exit, Restart,
         Signal, Apply, ApplyErr, NextToApply, SweepList, SweepListErr, NextToSweep, SweepDelete,
         SweepDeleteErr, ReconcileOk, ServeNext, Drift, CalmDown, vars
  <2>2. CASE TimerFires
    <3>1. pc = "wait_fetch" /\ backoff' = Doubled
      BY <1>2, <2>2 DEF TimerFires
    <3>2. Doubled = MaxBackoff \/ Doubled > backoff
      BY <1>2, ConstantAssumption DEF Doubled
    <3>3. backoff = MaxBackoff => Doubled = MaxBackoff
      BY <1>2, ConstantAssumption DEF Doubled
    <3> QED
      BY <3>1, <3>2, <3>3 DEF BackoffClimbs
  <2>3. CASE UNCHANGED <<pc, backoff>> \/ FetchErr
    BY <2>3 DEF FetchErr, BackoffClimbs
  <2> QED
    BY <2>1, <2>2, <2>3
<1>3. BackoffInv /\ [Next]_vars => [BackoffClimbs]_vars
  BY <1>2 DEF BackoffClimbs
<1>4. BackoffInv => BackoffBounded
  BY DEF BackoffInv
<1> QED
  BY <1>1, <1>3, <1>4, NextBackoffInv, PTL DEF ControllerSpec

(***************************************************************************)
(* Under CONFIG_READ_ONLY the controller changes nothing in the namespace, *)
(* whatever failed before and whichever settings it had before a restart:  *)
(* nothing listed for deletion outlives the process that could delete it   *)
(* (src/apply.rs:73-76, src/gc.rs:32-35).                                  *)
(***************************************************************************)
THEOREM ReadOnlyWritesNothing ==
  ControllerSpec => [][Controller /\ cfg.read_only => cluster' = cluster]_vars
<1>1. ASSUME FaultyInv, Controller, cfg.read_only
      PROVE  cluster' = cluster
  BY <1>1
     DEF FaultyInv, VictimsUnwanted, Controller, Poll, ApplyPass, SweepPass, Wait, FetchErr,
       NotModified, MatchedDigest, NewBody, PollCancelled, WaitCancelled, Exit, Restart, Apply,
       ApplyErr, SweepList, SweepListErr, SweepDelete, SweepDeleteErr, ReconcileOk, TimerFires
<1>2. FaultyInv /\ [Next]_vars => [Controller /\ cfg.read_only => cluster' = cluster]_vars
  BY <1>1
<1> QED
  BY <1>2, InitFaultyInv, NextFaultyInv, PTL DEF ControllerSpec
=============================================================================
