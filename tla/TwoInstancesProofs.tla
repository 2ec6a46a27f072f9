-------------------------- MODULE TwoInstancesProofs --------------------------
(***************************************************************************)
(* Two instances whose labels differ and whose configurations never call   *)
(* for the same object do not get in each other's way.  The label alone    *)
(* does not do it: an apply is forced on whatever has the name, so the     *)
(* names are a hypothesis.                                                 *)
(***************************************************************************)
EXTENDS TwoInstances, TLAPS

\* The objects that an instance may ever want.
Claims1 == {k \in Key : \E s \in Setting, b \in Body : BuildDesired1(s, b)[k] # None}
Claims2 == {k \in Key : \E s \in Setting, b \in Body : BuildDesired2(s, b)[k] # None}

OwnedBy(self, ns, k) == ns[k] # None /\ ns[k].owner = self

\* What an instance does to the namespace ns and to its victims v in one step:
\* write an object it claims, delete a victim, or list what has its label.
Effect(self, claims, ns, ns2, v, v2) ==
  \/ /\ v2 \subseteq v
     /\ \E k \in claims : \E o : o.owner = self /\ ns2 = [ns EXCEPT ![k] = o]
  \/ /\ v2 \subseteq v
     /\ \E k \in v : ns2 = [ns EXCEPT ![k] = None]
  \/ /\ ns2 = ns
     /\ \A k \in v2 : k \in v \/ (k \in Key /\ OwnedBy(self, ns, k))

\* Nothing with the label self, and no victim of that instance, is claimed by
\* the other one, and no victim has the label of the other.
Held(self, other, claims, ns, v) ==
  /\ \A k \in Key : OwnedBy(self, ns, k) => k \notin claims
  /\ \A k \in v : k \in Key /\ k \notin claims /\ ~OwnedBy(other, ns, k)

(***************************************************************************)
(* A step of one instance leaves the objects of the other, and what the    *)
(* other claims, as they are (src/apply.rs:78-79, src/gc.rs:19-37).        *)
(***************************************************************************)
LEMMA EffectKeepsApart ==
  ASSUME NEW a, NEW b, a # b, NEW ca, ca \subseteq Key, NEW cb, ca \cap cb = {},
         NEW ns, NEW ns2, NEW va, NEW va2, NEW vb, DOMAIN ns = Key,
         Held(a, b, cb, ns, va), Held(b, a, ca, ns, vb), Effect(a, ca, ns, ns2, va, va2)
  PROVE  /\ DOMAIN ns2 = Key /\ Held(a, b, cb, ns2, va2) /\ Held(b, a, ca, ns2, vb)
         /\ \A k \in Key :
              ns2[k] # ns[k] => /\ k \notin cb
                               /\ ~OwnedBy(b, ns, k) /\ ~OwnedBy(b, ns2, k)
<1>1. ASSUME va2 \subseteq va, NEW k \in ca, NEW o, o.owner = a, ns2 = [ns EXCEPT ![k] = o]
      PROVE  /\ DOMAIN ns2 = Key /\ Held(a, b, cb, ns2, va2) /\ Held(b, a, ca, ns2, vb)
             /\ \A j \in Key :
                  ns2[j] # ns[j] => /\ j \notin cb
                                   /\ ~OwnedBy(b, ns, j) /\ ~OwnedBy(b, ns2, j)
  <2>1. k \in Key /\ DOMAIN ns2 = Key /\ ns2[k] = o /\ \A j \in Key : j # k => ns2[j] = ns[j]
    BY <1>1
  <2> QED
    BY <1>1, <2>1 DEF Held, OwnedBy
<1>2. ASSUME va2 \subseteq va, NEW k \in va, ns2 = [ns EXCEPT ![k] = None]
      PROVE  /\ DOMAIN ns2 = Key /\ Held(a, b, cb, ns2, va2) /\ Held(b, a, ca, ns2, vb)
             /\ \A j \in Key :
                  ns2[j] # ns[j] => /\ j \notin cb
                                   /\ ~OwnedBy(b, ns, j) /\ ~OwnedBy(b, ns2, j)
  <2>1. k \in Key /\ k \notin cb /\ ~OwnedBy(b, ns, k)
    BY DEF Held
  <2>2. DOMAIN ns2 = Key /\ ns2[k] = None /\ \A j \in Key : j # k => ns2[j] = ns[j]
    BY <1>2, <2>1
  <2> QED
    BY <1>2, <2>1, <2>2 DEF Held, OwnedBy
<1>3. CASE /\ ns2 = ns
           /\ \A k \in va2 : k \in va \/ (k \in Key /\ OwnedBy(a, ns, k))
  <2>1. Held(a, b, cb, ns, va2)
    BY <1>3 DEF Held, OwnedBy
  <2> QED
    BY <1>3, <2>1
<1> QED
  BY <1>1, <1>2, <1>3 DEF Effect

-----------------------------------------------------------------------------
(* The state of one instance.                                              *)

Local1 ==
  /\ served1 \in Body /\ cfg1 \in Setting
  /\ toApply1 \subseteq Claims1

Local2 ==
  /\ served2 \in Body /\ cfg2 \in Setting
  /\ toApply2 \subseteq Claims2

(***************************************************************************)
(* A step of the first instance changes one object, and its own state, or     *)
(* none.                                                                   *)
(***************************************************************************)
LEMMA FirstStep ==
  ASSUME "drift" \notin Faults, Local1, First!Next
  PROVE  /\ Local1'
         /\ Effect(Self1, Claims1, cluster, cluster', victims1, victims1')
         /\ cluster' # cluster => local1' # local1
<1> USE DEF Local1, First!outside, First!memory, First!work
<1> DEFINE Done == /\ Local1'
                   /\ Effect(Self1, Claims1, cluster, cluster', victims1, victims1')
                   /\ cluster' # cluster => local1' # local1
<1> SUFFICES Done
  OBVIOUS
<1>1. ASSUME cluster' = cluster, Local1', victims1' \subseteq victims1
      PROVE  Done
  BY <1>1 DEF Effect
<1>2. CASE \/ First!FetchErr \/ First!NotModified \/ First!MatchedDigest \/ First!TimerFires
           \/ First!Signal \/ First!CalmDown \/ First!ServeNext \/ First!Restart
  BY <1>1, <1>2 DEF First!FetchErr, First!NotModified, First!MatchedDigest, First!TimerFires, First!Signal,
     First!CalmDown, First!ServeNext, First!Restart, First!Answered
<1>3. CASE First!PollCancelled \/ First!WaitCancelled \/ First!Crash \/ First!ReconcileOk
  BY <1>1, <1>3 DEF First!PollCancelled, First!WaitCancelled, First!Crash, First!Exit, First!ReconcileOk
<1>4. CASE First!NewBody
  <2>1. toApply1' \subseteq Claims1
    BY <1>4 DEF First!NewBody, Claims1
  <2> QED
    BY <1>1, <1>4, <2>1 DEF First!NewBody
<1>5. ASSUME NEW k \in Key, First!Apply(k)
      PROVE  Done
  <2>1. k \in toApply1 /\ k \in Claims1 /\ First!Applied(k).owner = Self1
    BY <1>5 DEF First!Apply, First!NextToApply, First!Applied
  <2>2. Local1' /\ victims1' = victims1 /\ toApply1' # toApply1
    BY <1>5, <2>1 DEF First!Apply
  <2>3. local1' # local1
    BY <2>2 DEF local1
  <2>4. cluster' = cluster \/ cluster' = [cluster EXCEPT ![k] = First!Applied(k)]
    BY <1>5 DEF First!Apply
  <2> QED
    BY <2>1, <2>2, <2>3, <2>4 DEF Effect
<1>6. ASSUME NEW k \in Key, First!ApplyErr(k)
      PROVE  Done
  <2>1. k \in toApply1 /\ k \in Claims1 /\ First!Applied(k).owner = Self1
    BY <1>6 DEF First!ApplyErr, First!NextToApply, First!Applied
  <2>2. Local1' /\ victims1' = victims1 /\ toApply1' # toApply1
    BY <1>6, <2>1 DEF First!ApplyErr
  <2>3. local1' # local1
    BY <2>2 DEF local1
  <2>4. cluster' = cluster \/ cluster' = [cluster EXCEPT ![k] = First!Applied(k)]
    BY <1>6 DEF First!ApplyErr
  <2> QED
    BY <2>1, <2>2, <2>3, <2>4 DEF Effect
<1>7. ASSUME NEW kind, First!SweepList(kind)
      PROVE  Done
  <2>1. cluster' = cluster /\ \A k \in victims1' : k \in Key /\ OwnedBy(Self1, cluster, k)
    BY <1>7 DEF First!SweepList, First!Orphans, First!Owned, First!Mine, OwnedBy
  <2>2. Local1'
    BY <1>7, <2>1 DEF First!SweepList
  <2> QED
    BY <2>1, <2>2 DEF Effect
<1>8. ASSUME NEW kind, First!SweepListErr(kind)
      PROVE  Done
  BY <1>1, <1>8 DEF First!SweepListErr
<1>9. ASSUME NEW k \in Key, First!SweepDelete(k)
      PROVE  Done
  <2>1. k \in victims1 /\ victims1' = victims1 \ {k} /\ cluster' = [cluster EXCEPT ![k] = None]
    BY <1>9 DEF First!SweepDelete
  <2>2. Local1'
    BY <1>9 DEF First!SweepDelete
  <2>3. local1' # local1
    BY <2>1 DEF local1
  <2> QED
    BY <2>1, <2>2, <2>3 DEF Effect
<1>10. ASSUME NEW k \in Key, First!SweepDeleteErr(k)
       PROVE  Done
  BY <1>1, <1>10 DEF First!SweepDeleteErr
<1>11. ASSUME NEW k \in Key, First!Drift(k)
       PROVE  Done
  BY <1>11 DEF First!Drift, First!Fault
<1> HIDE DEF Done
<1>12. CASE First!Controller
  <2>1. CASE First!ApplyPass
    BY <1>5, <1>6, <2>1 DEF First!ApplyPass
  <2>2. CASE First!SweepPass
    BY <1>7, <1>8, <1>9, <1>10, <2>2 DEF First!SweepPass
  <2> QED
    BY <1>2, <1>3, <1>4, <1>12, <2>1, <2>2 DEF First!Controller, First!Poll, First!Wait
<1>13. CASE First!Environment
  BY <1>2, <1>3, <1>11, <1>13 DEF First!Environment
<1> QED
  BY <1>12, <1>13 DEF First!Next

(***************************************************************************)
(* A step of the second instance changes one object, and its own state, or     *)
(* none.                                                                   *)
(***************************************************************************)
LEMMA SecondStep ==
  ASSUME "drift" \notin Faults, Local2, Second!Next
  PROVE  /\ Local2'
         /\ Effect(Self2, Claims2, cluster, cluster', victims2, victims2')
         /\ cluster' # cluster => local2' # local2
<1> USE DEF Local2, Second!outside, Second!memory, Second!work
<1> DEFINE Done == /\ Local2'
                   /\ Effect(Self2, Claims2, cluster, cluster', victims2, victims2')
                   /\ cluster' # cluster => local2' # local2
<1> SUFFICES Done
  OBVIOUS
<1>1. ASSUME cluster' = cluster, Local2', victims2' \subseteq victims2
      PROVE  Done
  BY <1>1 DEF Effect
<1>2. CASE \/ Second!FetchErr \/ Second!NotModified \/ Second!MatchedDigest \/ Second!TimerFires
           \/ Second!Signal \/ Second!CalmDown \/ Second!ServeNext \/ Second!Restart
  BY <1>1, <1>2 DEF Second!FetchErr, Second!NotModified, Second!MatchedDigest, Second!TimerFires, Second!Signal,
     Second!CalmDown, Second!ServeNext, Second!Restart, Second!Answered
<1>3. CASE Second!PollCancelled \/ Second!WaitCancelled \/ Second!Crash \/ Second!ReconcileOk
  BY <1>1, <1>3 DEF Second!PollCancelled, Second!WaitCancelled, Second!Crash, Second!Exit, Second!ReconcileOk
<1>4. CASE Second!NewBody
  <2>1. toApply2' \subseteq Claims2
    BY <1>4 DEF Second!NewBody, Claims2
  <2> QED
    BY <1>1, <1>4, <2>1 DEF Second!NewBody
<1>5. ASSUME NEW k \in Key, Second!Apply(k)
      PROVE  Done
  <2>1. k \in toApply2 /\ k \in Claims2 /\ Second!Applied(k).owner = Self2
    BY <1>5 DEF Second!Apply, Second!NextToApply, Second!Applied
  <2>2. Local2' /\ victims2' = victims2 /\ toApply2' # toApply2
    BY <1>5, <2>1 DEF Second!Apply
  <2>3. local2' # local2
    BY <2>2 DEF local2
  <2>4. cluster' = cluster \/ cluster' = [cluster EXCEPT ![k] = Second!Applied(k)]
    BY <1>5 DEF Second!Apply
  <2> QED
    BY <2>1, <2>2, <2>3, <2>4 DEF Effect
<1>6. ASSUME NEW k \in Key, Second!ApplyErr(k)
      PROVE  Done
  <2>1. k \in toApply2 /\ k \in Claims2 /\ Second!Applied(k).owner = Self2
    BY <1>6 DEF Second!ApplyErr, Second!NextToApply, Second!Applied
  <2>2. Local2' /\ victims2' = victims2 /\ toApply2' # toApply2
    BY <1>6, <2>1 DEF Second!ApplyErr
  <2>3. local2' # local2
    BY <2>2 DEF local2
  <2>4. cluster' = cluster \/ cluster' = [cluster EXCEPT ![k] = Second!Applied(k)]
    BY <1>6 DEF Second!ApplyErr
  <2> QED
    BY <2>1, <2>2, <2>3, <2>4 DEF Effect
<1>7. ASSUME NEW kind, Second!SweepList(kind)
      PROVE  Done
  <2>1. cluster' = cluster /\ \A k \in victims2' : k \in Key /\ OwnedBy(Self2, cluster, k)
    BY <1>7 DEF Second!SweepList, Second!Orphans, Second!Owned, Second!Mine, OwnedBy
  <2>2. Local2'
    BY <1>7, <2>1 DEF Second!SweepList
  <2> QED
    BY <2>1, <2>2 DEF Effect
<1>8. ASSUME NEW kind, Second!SweepListErr(kind)
      PROVE  Done
  BY <1>1, <1>8 DEF Second!SweepListErr
<1>9. ASSUME NEW k \in Key, Second!SweepDelete(k)
      PROVE  Done
  <2>1. k \in victims2 /\ victims2' = victims2 \ {k} /\ cluster' = [cluster EXCEPT ![k] = None]
    BY <1>9 DEF Second!SweepDelete
  <2>2. Local2'
    BY <1>9 DEF Second!SweepDelete
  <2>3. local2' # local2
    BY <2>1 DEF local2
  <2> QED
    BY <2>1, <2>2, <2>3 DEF Effect
<1>10. ASSUME NEW k \in Key, Second!SweepDeleteErr(k)
       PROVE  Done
  BY <1>1, <1>10 DEF Second!SweepDeleteErr
<1>11. ASSUME NEW k \in Key, Second!Drift(k)
       PROVE  Done
  BY <1>11 DEF Second!Drift, Second!Fault
<1> HIDE DEF Done
<1>12. CASE Second!Controller
  <2>1. CASE Second!ApplyPass
    BY <1>5, <1>6, <2>1 DEF Second!ApplyPass
  <2>2. CASE Second!SweepPass
    BY <1>7, <1>8, <1>9, <1>10, <2>2 DEF Second!SweepPass
  <2> QED
    BY <1>2, <1>3, <1>4, <1>12, <2>1, <2>2 DEF Second!Controller, Second!Poll, Second!Wait
<1>13. CASE Second!Environment
  BY <1>2, <1>3, <1>11, <1>13 DEF Second!Environment
<1> QED
  BY <1>12, <1>13 DEF Second!Next

-----------------------------------------------------------------------------
(* The two side by side.                                                   *)

\* The labels differ, and no object is ever wanted by both.
Separate == Self1 # Self2 /\ Claims1 \cap Claims2 = {}

ApartInv ==
  /\ DOMAIN cluster = Key
  /\ Local1 /\ Local2
  /\ Held(Self1, Self2, Claims2, cluster, victims1)
  /\ Held(Self2, Self1, Claims1, cluster, victims2)

everything == <<cluster, calm, local1, local2>>

\* One instance moves, and what it changes is nothing of the other.
Considerate(self, claims) ==
  \A k \in Key :
    cluster'[k] # cluster[k] =>
      k \notin claims /\ ~OwnedBy(self, cluster, k) /\ ~OwnedBy(self, cluster', k)

(***************************************************************************)
(* The start: nothing in the namespace belongs to either of them.          *)
(***************************************************************************)
LEMMA InitApart == Init => ApartInv
<1> SUFFICES ASSUME Init PROVE ApartInv
  OBVIOUS
<1>1. cluster = InitialCluster /\ victims1 = {} /\ victims2 = {}
  BY DEF Init, First!Init, Second!Init
<1>2. Local1 /\ Local2
  BY DEF Init, First!Init, Second!Init, Local1, Local2
<1>3. \A k \in Key : ~OwnedBy(Self1, cluster, k) /\ ~OwnedBy(Self2, cluster, k)
  BY <1>1, FreshAssumption DEF OwnedBy
<1> QED
  BY <1>1, <1>2, <1>3, FreshAssumption DEF ApartInv, Held

(***************************************************************************)
(* A step of the first instance.                                           *)
(***************************************************************************)
LEMMA FirstApart ==
  ASSUME Separate, "drift" \notin Faults, ApartInv, FirstMoves
  PROVE  ApartInv' /\ Considerate(Self2, Claims2) /\ (cluster' # cluster => local1' # local1)
<1>1. /\ Local1' /\ Effect(Self1, Claims1, cluster, cluster', victims1, victims1')
      /\ cluster' # cluster => local1' # local1
  BY FirstStep DEF ApartInv, FirstMoves
<1>2. Local2' /\ victims2' = victims2
  BY DEF ApartInv, FirstMoves, local2, Local2
<1>3. Claims1 \subseteq Key
  BY DEF Claims1
<1>4. Self1 # Self2 /\ Claims1 \cap Claims2 = {} /\ DOMAIN cluster = Key
      /\ Held(Self1, Self2, Claims2, cluster, victims1)
      /\ Held(Self2, Self1, Claims1, cluster, victims2)
  BY DEF Separate, ApartInv
<1>5. /\ DOMAIN cluster' = Key
      /\ Held(Self1, Self2, Claims2, cluster', victims1')
      /\ Held(Self2, Self1, Claims1, cluster', victims2)
      /\ Considerate(Self2, Claims2)
  BY <1>1, <1>3, <1>4, EffectKeepsApart DEF Considerate
<1>6. /\ Held(Self1, Self2, Claims2, cluster, victims1)'
      /\ Held(Self2, Self1, Claims1, cluster, victims2)'
  BY <1>2, <1>5 DEF Held, OwnedBy
<1> QED
  BY <1>1, <1>2, <1>5, <1>6 DEF ApartInv

(***************************************************************************)
(* A step of the second instance.                                          *)
(***************************************************************************)
LEMMA SecondApart ==
  ASSUME Separate, "drift" \notin Faults, ApartInv, SecondMoves
  PROVE  ApartInv' /\ Considerate(Self1, Claims1) /\ (cluster' # cluster => local2' # local2)
<1>1. /\ Local2' /\ Effect(Self2, Claims2, cluster, cluster', victims2, victims2')
      /\ cluster' # cluster => local2' # local2
  BY SecondStep DEF ApartInv, SecondMoves
<1>2. Local1' /\ victims1' = victims1
  BY DEF ApartInv, SecondMoves, local1, Local1
<1>3. Claims2 \subseteq Key
  BY DEF Claims2
<1>4. Self2 # Self1 /\ Claims2 \cap Claims1 = {} /\ DOMAIN cluster = Key
      /\ Held(Self1, Self2, Claims2, cluster, victims1)
      /\ Held(Self2, Self1, Claims1, cluster, victims2)
  BY DEF Separate, ApartInv
<1>5. /\ DOMAIN cluster' = Key
      /\ Held(Self2, Self1, Claims1, cluster', victims2')
      /\ Held(Self1, Self2, Claims2, cluster', victims1)
      /\ Considerate(Self1, Claims1)
  <2> DEFINE ns2 == cluster'
             va2 == victims2'
  <2>1. Effect(Self2, Claims2, cluster, ns2, victims2, va2)
    BY <1>1
  <2> HIDE DEF ns2, va2
  <2>2. /\ DOMAIN ns2 = Key
        /\ Held(Self2, Self1, Claims1, ns2, va2)
        /\ Held(Self1, Self2, Claims2, ns2, victims1)
        /\ \A k \in Key :
             ns2[k] # cluster[k] => /\ k \notin Claims1
                                    /\ ~OwnedBy(Self1, cluster, k) /\ ~OwnedBy(Self1, ns2, k)
    BY <1>3, <1>4, <2>1, EffectKeepsApart
  <2> QED
    BY <2>2 DEF ns2, va2, Considerate
<1>6. /\ Held(Self1, Self2, Claims2, cluster, victims1)'
      /\ Held(Self2, Self1, Claims1, cluster, victims2)'
  BY <1>2, <1>5 DEF Held, OwnedBy
<1> QED
  BY <1>1, <1>2, <1>5, <1>6 DEF ApartInv

(***************************************************************************)
(* The two stay apart.                                                     *)
(***************************************************************************)
LEMMA NextApart ==
  ASSUME Separate, "drift" \notin Faults, ApartInv, [Next]_everything
  PROVE  ApartInv'
<1>1. CASE UNCHANGED everything
  BY <1>1 DEF everything, local1, local2, ApartInv, Local1, Local2, Held, OwnedBy
<1> QED
  BY <1>1, FirstApart, SecondApart DEF Next

(***************************************************************************)
(* Instances with labels and names of their own do not trample each other, *)
(* through failed passes, stale listings, crashes and restarts of both,    *)
(* as long as nobody else deletes objects: NoTrampling of README.md.       *)
(***************************************************************************)
THEOREM InstancesCoexist ==
  ASSUME Separate, "drift" \notin Faults
  PROVE  TwoSpec => NoTrampling
<1> DEFINE Fair == \A k \in Key :
                     cluster'[k] # cluster[k] =>
                       /\ First!Owned(k) => local1' # local1
                       /\ Second!Owned(k) => local2' # local2
<1>1. ASSUME ApartInv, [Next]_everything
      PROVE  [Fair]_<<cluster, local1, local2>>
  <2>1. CASE FirstMoves
    <3>1. Considerate(Self2, Claims2) /\ (cluster' # cluster => local1' # local1)
      BY <1>1, <2>1, FirstApart
    <3> QED
      BY <3>1 DEF Considerate, Second!Owned, Second!Mine, OwnedBy
  <2>2. CASE SecondMoves
    <3>1. Considerate(Self1, Claims1) /\ (cluster' # cluster => local2' # local2)
      BY <1>1, <2>2, SecondApart
    <3> QED
      BY <3>1 DEF Considerate, First!Owned, First!Mine, OwnedBy
  <2>3. CASE UNCHANGED everything
    BY <2>3 DEF everything
  <2> QED
    BY <1>1, <2>1, <2>2, <2>3 DEF Next
<1>2. ApartInv /\ [Next]_everything => ApartInv'
  BY NextApart
<1>3. ApartInv /\ [Next]_everything => [Fair]_<<cluster, local1, local2>>
  BY <1>1
<1> HIDE DEF Fair
<1>4. TwoSpec => [][Fair]_<<cluster, local1, local2>>
  BY <1>2, <1>3, InitApart, PTL DEF TwoSpec, everything
<1> QED
  BY <1>4 DEF NoTrampling, Fair

-----------------------------------------------------------------------------
(* A pass of the first instance next to the second one.                    *)

\* Outside a pass nothing is left to do, and sweeping comes after applying.
Ordered ==
  /\ pc1 = "reconcile" => fetched1.body \in Body
  /\ pc1 # "reconcile" => toApply1 = {} /\ toSweep1 = {} /\ victims1 = {}
  /\ toApply1 # {} => toSweep1 = First!SweptKinds(cfg1) /\ victims1 = {}

\* What is wanted and no longer to be applied is in place.
InPlace ==
  pc1 = "reconcile" /\ ~cfg1.read_only =>
    \A k \in Key :
      First!Wanted(k) # None /\ k \notin toApply1 => cluster[k] = First!Applied(k)

\* An orphan of a kind no longer to be swept is about to be deleted.
Cleaned ==
  pc1 = "reconcile" /\ ~cfg1.read_only =>
    \A k \in Key :
      /\ k.kind \in First!SweptKinds(cfg1) \ toSweep1
      /\ OwnedBy(Self1, cluster, k) /\ First!Wanted(k) = None
      => k \in victims1

Unwanted == \A v \in victims1 : ~cfg1.read_only /\ First!Wanted(v) = None

PassInv == Ordered /\ InPlace /\ Cleaned /\ Unwanted

(***************************************************************************)
(* A step that leaves the pass and the namespace as they are.              *)
(***************************************************************************)
LEMMA PassGoesOn ==
  ASSUME PassInv, UNCHANGED <<pc1, cfg1, fetched1, toApply1, toSweep1, victims1, cluster>>
  PROVE  PassInv'
  BY DEF PassInv, Ordered, InPlace, Cleaned, Unwanted, OwnedBy, First!Wanted, First!Applied,
         First!SweptKinds

(***************************************************************************)
(* A step that ends the pass, or happens outside of one.                   *)
(***************************************************************************)
LEMMA PassIsOver ==
  ASSUME pc1' # "reconcile", toApply1' = {}, toSweep1' = {}, victims1' = {}
  PROVE  PassInv'
  BY DEF PassInv, Ordered, InPlace, Cleaned, Unwanted

(***************************************************************************)
(* A step of the second instance, in the middle of a pass of the first:    *)
(* nothing that the first has written or listed is touched.                *)
(***************************************************************************)
LEMMA OtherMoves ==
  ASSUME ApartInv, PassInv, Considerate(Self1, Claims1), UNCHANGED local1
  PROVE  PassInv'
<1>1. UNCHANGED <<pc1, cfg1, fetched1, toApply1, toSweep1, victims1>>
  BY DEF local1
<1>2. \A k \in Key : First!Wanted(k)' = First!Wanted(k) /\ First!Applied(k)' = First!Applied(k)
  BY <1>1 DEF First!Wanted, First!Applied
<1>3. Ordered' /\ Unwanted'
  BY <1>1 DEF PassInv, Ordered, Unwanted, First!SweptKinds, First!Wanted
<1>4. ASSUME pc1 = "reconcile", NEW k \in Key, First!Wanted(k) # None
      PROVE  cluster'[k] = cluster[k]
  <2>1. k \in Claims1
    BY <1>4 DEF PassInv, Ordered, ApartInv, Local1, Claims1, First!Wanted
  <2> QED
    BY <2>1 DEF Considerate
<1>5. InPlace'
  BY <1>1, <1>2, <1>4 DEF PassInv, InPlace
<1>6. \A k \in Key : OwnedBy(Self1, cluster, k)' => OwnedBy(Self1, cluster, k)
  BY DEF Considerate, OwnedBy
<1>7. Cleaned'
  BY <1>1, <1>2, <1>6 DEF PassInv, Cleaned, First!SweptKinds
<1> QED
  BY <1>3, <1>5, <1>7 DEF PassInv

(***************************************************************************)
(* A step of the first instance itself.                                    *)
(***************************************************************************)
LEMMA OwnMoves ==
  ASSUME Faults \cap {"list", "delete", "drift"} = {}, ApartInv, PassInv, First!Next
  PROVE  PassInv'
<1> USE DEF First!outside, First!memory, First!work
<1>1. \A f \in {"list", "delete", "drift"} : ~First!Fault(f)
  BY DEF First!Fault
<1>2. CASE First!Signal \/ First!CalmDown \/ First!ServeNext
  BY <1>2, PassGoesOn DEF First!Signal, First!CalmDown, First!ServeNext
<1>3. CASE \/ First!FetchErr \/ First!NotModified \/ First!MatchedDigest \/ First!TimerFires
           \/ First!Restart \/ First!ReconcileOk
  BY <1>3, PassIsOver DEF First!FetchErr, First!NotModified, First!MatchedDigest, First!TimerFires,
     First!Restart, First!ReconcileOk, First!Answered, PassInv, Ordered
<1>4. CASE First!PollCancelled \/ First!WaitCancelled \/ First!Crash
  BY <1>4, PassIsOver DEF First!PollCancelled, First!WaitCancelled, First!Crash, First!Exit
<1>5. CASE First!NewBody
  <2>1. /\ victims1' = {} /\ toSweep1' = First!SweptKinds(cfg1)' /\ UNCHANGED <<cluster, cfg1>>
        /\ fetched1'.body \in Body
    BY <1>5 DEF First!NewBody, First!Answered, PassInv, Ordered, First!SweptKinds, ApartInv, Local1
  <2>2. toApply1' = {k \in Key : First!Wanted(k)' # None} /\ pc1' = "reconcile"
    BY <1>5 DEF First!NewBody, First!Wanted
  <2> QED
    BY <2>1, <2>2 DEF PassInv, Ordered, InPlace, Cleaned, Unwanted
<1>6. ASSUME NEW k \in Key, First!Apply(k)
      PROVE  PassInv'
  <2>1. /\ toApply1 # {} /\ toSweep1 = First!SweptKinds(cfg1) /\ victims1 = {}
        /\ toApply1' = toApply1 \ {k} /\ UNCHANGED <<pc1, cfg1, fetched1, toSweep1, victims1>>
    BY <1>6 DEF First!Apply, First!NextToApply, PassInv, Ordered
  <2>2. \A j \in Key : First!Wanted(j)' = First!Wanted(j) /\ First!Applied(j)' = First!Applied(j)
    BY <2>1 DEF First!Wanted, First!Applied
  <2>3. First!SweptKinds(cfg1)' = First!SweptKinds(cfg1)
    BY <2>1 DEF First!SweptKinds
  <2>4. Ordered' /\ Cleaned' /\ Unwanted'
    BY <2>1, <2>3 DEF PassInv, Ordered, Cleaned, Unwanted
  <2>5. ~cfg1.read_only => cluster'[k] = First!Applied(k)
          /\ \A j \in Key : j # k => cluster'[j] = cluster[j]
    BY <1>6 DEF First!Apply, ApartInv
  <2>6. InPlace'
    BY <2>1, <2>2, <2>5 DEF PassInv, InPlace
  <2> QED
    BY <2>4, <2>6 DEF PassInv
<1>7. ASSUME NEW k \in Key, First!ApplyErr(k)
      PROVE  PassInv'
  <2>1. pc1' # "reconcile" /\ toApply1' = {} /\ toSweep1' = {} /\ victims1' = {}
    BY <1>7 DEF First!ApplyErr, First!NextToApply, PassInv, Ordered
  <2> QED
    BY <2>1, PassIsOver
<1>8. ASSUME NEW kind, First!SweepList(kind)
      PROVE  PassInv'
  <2>1. /\ toApply1 = {} /\ victims1 = {} /\ toSweep1' = toSweep1 \ {kind}
        /\ UNCHANGED <<pc1, cfg1, fetched1, toApply1, cluster>> /\ pc1 = "reconcile"
    BY <1>8 DEF First!SweepList, First!NextToSweep
  <2>2. \A j : First!Wanted(j)' = First!Wanted(j) /\ First!Applied(j)' = First!Applied(j)
    BY <2>1 DEF First!Wanted, First!Applied
  <2>3. First!SweptKinds(cfg1)' = First!SweptKinds(cfg1)
    BY <2>1 DEF First!SweptKinds
  <2>4. victims1' = IF cfg1.read_only THEN {}
                    ELSE {k \in Key : k.kind = kind /\ OwnedBy(Self1, cluster, k) /\ First!Wanted(k) = None}
    BY <1>8 DEF First!SweepList, First!Orphans, First!Owned, First!Mine, OwnedBy
  <2>5. Ordered' /\ InPlace'
    BY <2>1, <2>2 DEF PassInv, Ordered, InPlace
  <2>6. Cleaned'
    BY <2>1, <2>2, <2>3, <2>4 DEF PassInv, Cleaned, OwnedBy
  <2>7. Unwanted'
    BY <2>1, <2>2, <2>4 DEF Unwanted
  <2> QED
    BY <2>5, <2>6, <2>7 DEF PassInv
<1>9. ASSUME NEW v \in Key, First!SweepDelete(v)
      PROVE  PassInv'
  <2>1. /\ v \in victims1 /\ victims1' = victims1 \ {v} /\ pc1 = "reconcile"
        /\ UNCHANGED <<pc1, cfg1, fetched1, toApply1, toSweep1>>
    BY <1>9 DEF First!SweepDelete
  <2>2. \A j : First!Wanted(j)' = First!Wanted(j) /\ First!Applied(j)' = First!Applied(j)
    BY <2>1 DEF First!Wanted, First!Applied
  <2>3. First!SweptKinds(cfg1)' = First!SweptKinds(cfg1)
    BY <2>1 DEF First!SweptKinds
  <2>4. First!Wanted(v) = None
    BY <2>1 DEF PassInv, Unwanted
  <2>5. cluster'[v] = None /\ \A j \in Key : j # v => cluster'[j] = cluster[j]
    BY <1>9 DEF First!SweepDelete, ApartInv
  <2>6. Ordered' /\ Unwanted'
    BY <2>1, <2>2, <2>3 DEF PassInv, Ordered, Unwanted
  <2>7. InPlace'
    BY <2>1, <2>2, <2>4, <2>5 DEF PassInv, InPlace
  <2>8. Cleaned'
    BY <2>1, <2>2, <2>3, <2>5 DEF PassInv, Cleaned, OwnedBy
  <2> QED
    BY <2>6, <2>7, <2>8 DEF PassInv
<1>10. CASE First!ApplyPass
  BY <1>6, <1>7, <1>10 DEF First!ApplyPass
<1>11. CASE First!SweepPass
  BY <1>1, <1>8, <1>9, <1>11 DEF First!SweepPass, First!SweepListErr, First!SweepDeleteErr
<1>12. ASSUME NEW k \in Key, First!Drift(k)
       PROVE  FALSE
  BY <1>1, <1>12 DEF First!Drift
<1>13. CASE First!Controller
  BY <1>3, <1>4, <1>5, <1>10, <1>11, <1>13 DEF First!Controller, First!Poll, First!Wait
<1>14. CASE First!Environment
  BY <1>2, <1>4, <1>12, <1>14 DEF First!Environment
<1> QED
  BY <1>13, <1>14 DEF First!Next

(***************************************************************************)
(* A pass of the first instance that succeeds leaves exactly the wanted    *)
(* objects among its own, whatever the second one has written, listed and  *)
(* deleted since the pass began, provided that listing and deleting do not *)
(* fail and nobody else deletes objects (src/reconcile.rs:109-261).        *)
(***************************************************************************)
THEOREM SuccessNextToAnother ==
  ASSUME Separate, Faults \cap {"list", "delete", "drift"} = {}
  PROVE  TwoSpec => FirstSuccessMirrors
<1> DEFINE Inv == ApartInv /\ PassInv
           Good == First!Succeeds => First!Mirrors(cluster', fetched1.body, First!SweptKinds(cfg1))
<1>1. Init => Inv
  <2>1. Init => PassInv
    BY DEF Init, First!Init, PassInv, Ordered, InPlace, Cleaned, Unwanted
  <2> QED
    BY <2>1, InitApart
<1>2. ASSUME Inv, [Next]_everything
      PROVE  Inv'
  <2>1. "drift" \notin Faults
    OBVIOUS
  <2>2. ApartInv'
    BY <1>2, <2>1, NextApart
  <2>3. CASE FirstMoves
    BY <1>2, <2>2, <2>3, OwnMoves DEF FirstMoves
  <2>4. CASE SecondMoves
    <3>1. Considerate(Self1, Claims1) /\ UNCHANGED local1
      BY <1>2, <2>1, <2>4, SecondApart DEF SecondMoves
    <3> QED
      BY <1>2, <2>2, <3>1, OtherMoves
  <2>5. CASE UNCHANGED everything
    BY <1>2, <2>2, <2>5, PassGoesOn DEF everything, local1
  <2> QED
    BY <1>2, <2>2, <2>3, <2>4, <2>5 DEF Next
<1>3. ASSUME Inv, [Next]_everything, First!Succeeds
      PROVE  First!Mirrors(cluster', fetched1.body, First!SweptKinds(cfg1))
  <2>1. First!Next
    BY <1>3 DEF First!Succeeds, Next, FirstMoves, SecondMoves, local1, everything
  <2>2. cluster' = cluster /\ toApply1 = {} /\ toSweep1 = {} /\ victims1 = {}
    BY <1>3, <2>1 DEF First!Succeeds, First!Next, First!Controller, First!Environment, First!Poll,
       First!ApplyPass, First!SweepPass, First!Wait, First!FetchErr, First!NotModified,
       First!MatchedDigest, First!NewBody, First!Answered, First!PollCancelled,
       First!WaitCancelled, First!Crash, First!Exit, First!Restart, First!Signal, First!Apply,
       First!ApplyErr, First!SweepList, First!SweepListErr, First!SweepDelete,
       First!SweepDeleteErr, First!ReconcileOk, First!TimerFires, First!ServeNext, First!Drift,
       First!CalmDown
  <2> QED
    BY <1>3, <2>2 DEF PassInv, InPlace, Cleaned, OwnedBy, First!Succeeds, First!Mirrors,
       First!Mine, First!Wanted, First!Applied
<1>4. Inv /\ [Next]_everything => Inv'
  BY <1>2
<1>5. Inv /\ [Next]_everything => [Good]_First!vars
  BY <1>3
<1> HIDE DEF Inv, Good
<1>6. TwoSpec => [][Good]_First!vars
  BY <1>1, <1>4, <1>5, PTL DEF TwoSpec, everything
<1> QED
  BY <1>6 DEF FirstSuccessMirrors, First!SuccessMirrors, Good
==============================================================================
