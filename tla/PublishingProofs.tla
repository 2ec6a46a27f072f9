-------------------------- MODULE PublishingProofs --------------------------
(***************************************************************************)
(* The controller implements the Publisher: its initial states are initial *)
(* states of the Publisher, and each of its steps is a step of the         *)
(* Publisher or changes nothing there.                                     *)
(***************************************************************************)
EXTENDS Publishing, ControllerProofs

\* A process that has ended has forgotten what it published.
DownForgot == pc = "down" => last_digest = None

PublishInv == SafeInv /\ DownForgot

PublisherVars == <<cluster, plan, published>>

(***************************************************************************)
(* Only the end of the process leads to a process that is down, and the    *)
(* memory goes with it (src/main.rs:31-61).                                *)
(***************************************************************************)
LEMMA NextDownForgot == DownForgot /\ [Next]_vars => DownForgot'
  BY DEF DownForgot, Next, vars, memory, Controller, Environment, Poll, ApplyPass, SweepPass, Wait,
         FetchErr, NotModified, MatchedDigest, NewBody, Answered, PollCancelled, WaitCancelled,
         Crash, Exit, Restart, Signal, Apply, ApplyErr, SweepList, SweepListErr, SweepDelete,
         SweepDeleteErr, ReconcileOk, TimerFires, ServeNext, Drift, CalmDown

(***************************************************************************)
(* During a pass the plan is the response under the settings in force.     *)
(***************************************************************************)
LEMMA PlanOfPass ==
  ASSUME TypeOK, pc = "reconcile", ~cfg.read_only
  PROVE  /\ plan = <<cfg, fetched.body>> /\ plan # None
         /\ \A k \in Key : Wants(plan)[k] = Wanted(k)
         /\ \A k \in Key : P!Planned(plan, k) = Applied(k)
         /\ Kinds(plan) = SweptKinds(cfg)
<1>1. plan = <<cfg, fetched.body>>
  BY DEF plan
<1>2. plan # None
  BY <1>1, PlanAssumption DEF TypeOK
<1>3. plan[1] = cfg /\ plan[2] = fetched.body
  BY <1>1
<1> HIDE DEF plan
<1>4. \A k \in Key : Wants(plan)[k] = Wanted(k)
  BY <1>3 DEF Wants, Wanted
<1> QED
  BY <1>1, <1>2, <1>3, <1>4 DEF P!Planned, Applied, Kinds

(***************************************************************************)
(* A step that leaves the namespace, the pass, the settings and the digest *)
(* alone is none of the Publisher.                                         *)
(***************************************************************************)
LEMMA Stutters ==
  ASSUME UNCHANGED <<cluster, cfg, last_digest>>,
         \/ pc' = pc /\ UNCHANGED fetched
         \/ pc # "reconcile" /\ pc' # "reconcile"
  PROVE  UNCHANGED PublisherVars
  BY DEF PublisherVars, plan, published

(***************************************************************************)
(* The start of a pass begins a plan that is not the published one: the    *)
(* digest differs (src/reconcile.rs:72-88).                                *)
(***************************************************************************)
LEMMA NewBodyBegins ==
  ASSUME TypeOK, NewBody
  PROVE  P!Begin \/ UNCHANGED PublisherVars
<1>1. /\ UNCHANGED <<cluster, cfg, last_digest>>
      /\ pc = "poll" /\ pc' = "reconcile" /\ fetched'.body = served /\ last_digest # served
  BY DEF NewBody, Answered, memory
<1>2. published' = published /\ plan = None
  BY <1>1 DEF published, plan
<1>3. CASE cfg.read_only
  BY <1>1, <1>2, <1>3 DEF PublisherVars, plan
<1>4. CASE ~cfg.read_only
  <2>1. plan' = <<cfg, served>> /\ plan' \in Setting \X Body
    BY <1>1, <1>4 DEF plan, TypeOK
  <2>2. plan' # published
    BY <1>1, <1>4, <2>1, PlanAssumption DEF published, TypeOK
  <2> QED
    BY <1>1, <1>2, <2>1, <2>2 DEF P!Begin
<1> QED
  BY <1>3, <1>4

(***************************************************************************)
(* What a route of the pass refers to was written before it.               *)
(***************************************************************************)
LEMMA RefsInPlace ==
  ASSUME SafeInv, NEW k \in Key, NextToApply(k), ~cfg.read_only, k.kind = "HTTPRoute",
         NEW r \in Wanted(k).refs
  PROVE  r \in Key /\ cluster[r] = Applied(r)
<1> USE DEF SafeInv, TypeInv, TypeOK, NextToApply
<1>1. Wanted(k) # None /\ Wanted(k) \in Spec
  BY DesiredAssumption DEF ToApplyWanted, Wanted
<1>2. r \in Key /\ r.kind \in {"Service", "Backend", "ListenerSet"} /\ Wanted(r) # None
  BY <1>1, DesiredAssumption, ConstantAssumption DEF Wanted
<1>3. r \notin toApply
  <2>1. ApplyRank[k.kind] = 6
    BY DEF ApplyRank, Kind
  <2>2. ApplyRank[r.kind] \in 1..5
    BY <1>2 DEF ApplyRank, Kind
  <2> QED
    BY <2>1, <2>2
<1> QED
  BY <1>2, <1>3 DEF Written

(***************************************************************************)
(* A write of the pass, its answer received or lost (src/apply.rs:60-88).  *)
(***************************************************************************)
LEMMA WritePuts ==
  ASSUME SafeInv, NEW k \in Key, NextToApply(k), ~cfg.read_only,
         cluster' = [cluster EXCEPT ![k] = Applied(k)],
         UNCHANGED <<cfg, last_digest>>,
         (pc' = pc /\ UNCHANGED fetched) \/ pc' # "reconcile"
  PROVE  P!Put(k)
<1> USE DEF SafeInv, TypeInv
<1>1. pc = "reconcile" /\ Wanted(k) # None
  BY DEF NextToApply, ToApplyWanted
<1>2. /\ plan # None /\ Wants(plan)[k] = Wanted(k) /\ P!Planned(plan, k) = Applied(k)
      /\ \A r \in Key : P!Planned(plan, r) = Applied(r)
  BY <1>1, PlanOfPass
<1>3. published' = published /\ (plan' = plan \/ plan' = None)
  BY <1>1 DEF published, plan
<1>4. ASSUME k.kind = "HTTPRoute", NEW r \in Wanted(k).refs
      PROVE  P!InPlace(plan, r)
  BY <1>2, <1>4, RefsInPlace DEF P!InPlace
<1> QED
  BY <1>1, <1>2, <1>3, <1>4 DEF P!Put

(***************************************************************************)
(* A deletion: the pass has written everything it wants, and no route that *)
(* is left uses what goes (src/gc.rs:36-48).                               *)
(***************************************************************************)
LEMMA DeletionTakes ==
  ASSUME SafeInv, NEW v \in Key, SweepDelete(v)
  PROVE  P!Take(v) \/ UNCHANGED PublisherVars
<1> USE DEF SafeInv, TypeInv, TypeOK
<1>1. /\ pc = "reconcile" /\ v \in victims /\ cluster' = [cluster EXCEPT ![v] = None]
      /\ UNCHANGED <<pc, cfg, fetched, last_digest>>
  BY DEF SweepDelete, memory
<1>2. Wanted(v) = None /\ ~cfg.read_only /\ toApply = {}
  BY <1>1 DEF Condemned, ApplyFirst
<1>3. UNCHANGED <<plan, published>>
  BY <1>1 DEF plan, published
<1>4. CASE cluster[v] = None
  BY <1>1, <1>3, <1>4 DEF PublisherVars
<1>5. CASE cluster[v] # None
  <2>1. plan # None /\ \A k \in Key : Wants(plan)[k] = Wanted(k) /\ P!Planned(plan, k) = Applied(k)
    BY <1>1, <1>2, PlanOfPass
  <2>2. P!Ours(v)
    BY <1>1, <1>5 DEF Condemned, Owned, Mine, P!Ours
  <2>3. \A j \in Key : Wants(plan)[j] # None => P!InPlace(plan, j)
    BY <1>1, <1>2, <2>1 DEF Written, P!InPlace
  <2>4. ASSUME NEW r \in Key, r.kind = "HTTPRoute", P!Ours(r)
        PROVE  v \notin cluster[r].spec.refs \cup cluster[r].spec.guards
    <3>1. Owned(r)
      BY <2>4 DEF P!Ours, Owned, Mine
    <3>2. CASE v.kind = "HTTPRoute"
      BY <2>4, <3>1, <3>2 DEF RouteRefs
    <3>3. CASE v.kind # "HTTPRoute"
      <4>1. Wanted(r) # None
        BY <1>1, <2>4, <3>1, <3>3 DEF Condemned
      <4>2. cluster[r].spec = Wanted(r)
        BY <1>1, <1>2, <4>1 DEF Written, Applied
      <4> QED
        BY <1>1, <1>2, <4>1, <4>2, DesiredAssumption DEF Wanted
    <3> QED
      BY <3>2, <3>3
  <2>5. P!Users(v) = {}
    BY <2>4 DEF P!Users
  <2> QED
    BY <1>1, <1>2, <1>3, <2>1, <2>2, <2>3, <2>5 DEF P!Take
<1> QED
  BY <1>4, <1>5

(***************************************************************************)
(* The digest is remembered when the namespace shows the plan              *)
(* (src/reconcile.rs:96-101).                                              *)
(***************************************************************************)
LEMMA SuccessFinishes ==
  ASSUME SafeInv, ReconcileOk
  PROVE  P!Finish \/ UNCHANGED PublisherVars
<1> USE DEF SafeInv, TypeInv, TypeOK
<1>1. /\ pc = "reconcile" /\ pc' = "wait_poll" /\ UNCHANGED <<cluster, cfg>>
      /\ last_digest' = fetched.body /\ fetched.body # None
      /\ toApply = {} /\ toSweep = {} /\ victims = {}
  BY ConstantAssumption DEF ReconcileOk
<1>2. plan' = None
  BY <1>1 DEF plan
<1>3. CASE cfg.read_only
  BY <1>1, <1>2, <1>3 DEF PublisherVars, plan, published
<1>4. CASE ~cfg.read_only
  <2>1. /\ plan = <<cfg, fetched.body>> /\ plan # None /\ Kinds(plan) = SweptKinds(cfg)
        /\ \A k \in Key : Wants(plan)[k] = Wanted(k) /\ P!Planned(plan, k) = Applied(k)
    BY <1>1, <1>4, PlanOfPass
  <2>2. published' = plan
    BY <1>1, <1>4, <2>1 DEF published
  <2>3. ASSUME NEW k \in Key, k.kind \in Kinds(plan), Wants(plan)[k] # None
        PROVE  P!InPlace(plan, k)
    BY <1>1, <1>4, <2>1, <2>3 DEF Written, P!InPlace
  <2>4. ASSUME NEW k \in Key, k.kind \in Kinds(plan), Wants(plan)[k] = None
        PROVE  ~P!Ours(k)
    BY <1>1, <1>4, <2>1, <2>4 DEF Swept, P!Ours, Owned, Mine
  <2> QED
    BY <1>1, <1>2, <2>1, <2>2, <2>3, <2>4 DEF P!Finish
<1> QED
  BY <1>3, <1>4

(***************************************************************************)
(* The end of the process and a pass that failed give the plan up.         *)
(***************************************************************************)
LEMMA EndAbandons ==
  ASSUME UNCHANGED cluster, pc' # "reconcile",
         (UNCHANGED <<cfg, last_digest>>) \/ last_digest' = None
  PROVE  P!Abandon
  BY DEF P!Abandon, plan, published

(***************************************************************************)
(* Every step of the controller is a step of the Publisher or a stutter.   *)
(***************************************************************************)
LEMMA NextPublishes ==
  ASSUME NoSweepFault, PublishInv, [Next]_vars
  PROVE  [P!Next]_PublisherVars
<1> USE DEF PublishInv, SafeInv, TypeInv
<1>1. \A f \in {"list", "delete", "drift"} : ~Fault(f)
  BY DEF NoSweepFault, Fault
<1>2. CASE FetchErr \/ NotModified \/ MatchedDigest \/ TimerFires
  BY <1>2, Stutters
     DEF FetchErr, NotModified, MatchedDigest, TimerFires, Answered, memory
<1>3. CASE Signal \/ ServeNext \/ CalmDown \/ UNCHANGED vars
  BY <1>3, Stutters DEF Signal, ServeNext, CalmDown, vars, work, memory
<1>4. CASE NewBody
  BY <1>4, NewBodyBegins DEF P!Next
<1>5. ASSUME NEW k \in Key, Apply(k)
      PROVE  [P!Next]_PublisherVars
  <2>1. CASE cfg.read_only
    <3>1. pc = "reconcile" /\ pc' = pc /\ UNCHANGED <<cluster, cfg, last_digest, fetched>>
      BY <1>5, <2>1 DEF Apply, NextToApply, memory
    <3> QED
      BY <3>1, Stutters
  <2>2. CASE ~cfg.read_only
    <3>1. P!Put(k)
      BY <1>5, <2>2, WritePuts DEF Apply, memory
    <3> QED
      BY <3>1 DEF P!Next
  <2> QED
    BY <2>1, <2>2
<1>6. ASSUME NEW k \in Key, ApplyErr(k)
      PROVE  [P!Next]_PublisherVars
  <2>1. /\ NextToApply(k) /\ ~cfg.read_only /\ pc' # "reconcile"
        /\ UNCHANGED <<cfg, last_digest>>
    BY <1>6 DEF ApplyErr, memory
  <2>2. CASE cluster' = cluster
    BY <2>1, <2>2, EndAbandons DEF P!Next
  <2>3. CASE cluster' = [cluster EXCEPT ![k] = Applied(k)]
    <3>1. P!Put(k)
      BY <2>1, <2>3, WritePuts
    <3> QED
      BY <3>1 DEF P!Next
  <2> QED
    BY <1>6, <2>2, <2>3 DEF ApplyErr
<1>7. ASSUME NEW kind \in Kind, SweepList(kind)
      PROVE  [P!Next]_PublisherVars
  BY <1>7, Stutters DEF SweepList, memory
<1>8. ASSUME NEW v \in Key, SweepDelete(v)
      PROVE  [P!Next]_PublisherVars
  BY <1>8, DeletionTakes DEF P!Next
<1>9. CASE ReconcileOk
  BY <1>9, SuccessFinishes DEF P!Next
<1>10. CASE PollCancelled \/ WaitCancelled \/ Crash
  BY <1>10, EndAbandons DEF PollCancelled, WaitCancelled, Crash, Exit, P!Next
<1>11. CASE Restart
  <2>1. pc' = "poll" /\ last_digest' = None /\ UNCHANGED cluster
    BY <1>11 DEF Restart, DownForgot, memory
  <2> QED
    BY <2>1, EndAbandons DEF P!Next
<1>12. CASE SweepPass
  BY <1>1, <1>7, <1>8, <1>12 DEF SweepPass, SweepListErr, SweepDeleteErr
<1>13. ASSUME NEW k \in Key, Drift(k)
       PROVE  FALSE
  BY <1>1, <1>13 DEF Drift
<1> QED
  BY <1>2, <1>3, <1>4, <1>5, <1>6, <1>9, <1>10, <1>11, <1>12, <1>13
     DEF Next, Controller, Environment, Poll, ApplyPass, Wait

(***************************************************************************)
(* The controller implements the Publisher, through failed writes, lost    *)
(* answers, crashes, restarts under other settings and any bodies, while   *)
(* no listing and no deletion fails and nobody else deletes its objects    *)
(* (src/reconcile.rs:28-206).                                              *)
(***************************************************************************)
THEOREM ControllerPublishes ==
  ASSUME NoSweepFault
  PROVE  ControllerSpec => ImplementsPublisher
<1>1. Init => PublishInv
  BY InitSafeInv DEF PublishInv, DownForgot, Init
<1>2. PublishInv /\ [Next]_vars => PublishInv'
  BY NextSafeInv, NextDownForgot DEF PublishInv
<1>3. Init => P!Init
  BY DEF Init, P!Init, plan, published
<1>4. PublishInv /\ [Next]_vars => [P!Next]_PublisherVars
  BY NextPublishes
<1> QED
  BY <1>1, <1>2, <1>3, <1>4, PTL DEF ControllerSpec, ImplementsPublisher, P!PublisherSpec, PublisherVars
=============================================================================
