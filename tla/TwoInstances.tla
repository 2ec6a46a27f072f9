---------------------------- MODULE TwoInstances ----------------------------
(***************************************************************************)
(* Two controllers in one namespace, each with its own pangolin and its    *)
(* own value of the instance label.  They share nothing but the objects.   *)
(* The label is all that keeps them apart: an apply is forced on whatever  *)
(* has the name, and a deletion is by name (src/apply.rs:78-79,            *)
(* src/gc.rs:37).                                                          *)
(***************************************************************************)
EXTENDS Naturals, FiniteSets

CONSTANTS Body, Key, Spec, Owner, Self1, Self2, None, Setting, BuildDesired1(_, _),
          BuildDesired2(_, _), InitialCluster, MayFollow, EtagSent, Faults, MaxBackoff

\* The namespace has no object of either instance before they start.
ASSUME FreshAssumption ==
  /\ DOMAIN InitialCluster = Key
  /\ \A k \in Key : InitialCluster[k] # None => InitialCluster[k].owner \notin {Self1, Self2}

VARIABLES cluster, calm,
          served1, pc1, cfg1, shutdown1, last_etag1, last_digest1, backoff1, ready1,
          fetched1, toApply1, toSweep1, victims1,
          served2, pc2, cfg2, shutdown2, last_etag2, last_digest2, backoff2, ready2,
          fetched2, toApply2, toSweep2, victims2

local1 == <<served1, pc1, cfg1, shutdown1, last_etag1, last_digest1, backoff1, ready1,
            fetched1, toApply1, toSweep1, victims1>>
local2 == <<served2, pc2, cfg2, shutdown2, last_etag2, last_digest2, backoff2, ready2,
            fetched2, toApply2, toSweep2, victims2>>

First == INSTANCE Controller WITH
  Self <- Self1, BuildDesired <- BuildDesired1, served <- served1, pc <- pc1, cfg <- cfg1,
  shutdown <- shutdown1, last_etag <- last_etag1, last_digest <- last_digest1,
  backoff <- backoff1, ready <- ready1, fetched <- fetched1, toApply <- toApply1,
  toSweep <- toSweep1, victims <- victims1

Second == INSTANCE Controller WITH
  Self <- Self2, BuildDesired <- BuildDesired2, served <- served2, pc <- pc2, cfg <- cfg2,
  shutdown <- shutdown2, last_etag <- last_etag2, last_digest <- last_digest2,
  backoff <- backoff2, ready <- ready2, fetched <- fetched2, toApply <- toApply2,
  toSweep <- toSweep2, victims <- victims2

Init == First!Init /\ Second!Init

FirstMoves  == First!Next /\ UNCHANGED local2
SecondMoves == Second!Next /\ UNCHANGED local1

Next == FirstMoves \/ SecondMoves

TwoSpec == Init /\ [][Next]_<<cluster, calm, local1, local2>>

(***************************************************************************)
(* What one instance has put in the namespace is changed and deleted by    *)
(* that instance only: README.md says that the instance label "lets        *)
(* multiple controller instances coexist without trampling each other".    *)
(***************************************************************************)
NoTrampling ==
  [][\A k \in Key :
       cluster'[k] # cluster[k] =>
         /\ First!Owned(k) => local1' # local1
         /\ Second!Owned(k) => local2' # local2]_<<cluster, local1, local2>>

(***************************************************************************)
(* Next to another instance a successful pass of the first still ends with *)
(* exactly the wanted objects among its own: nothing that the other wrote  *)
(* or deleted meanwhile was among them (src/reconcile.rs:109-261).         *)
(***************************************************************************)
FirstSuccessMirrors == First!SuccessMirrors
=============================================================================
