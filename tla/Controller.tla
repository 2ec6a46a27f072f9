----------------------------- MODULE Controller -----------------------------
(***************************************************************************)
(* The reconciliation loop of the gateway controller: it polls pangolin    *)
(* for the Traefik configuration, translates it into the Kubernetes        *)
(* objects the configuration calls for, applies them one by one, and       *)
(* deletes the objects it owns that are no longer wanted.  The controller  *)
(* is one sequential task, so every await of src/reconcile.rs, src/gc.rs   *)
(* and src/apply.rs (an HTTP exchange with pangolin, one request to the    *)
(* Kubernetes API, a sleep) is one step.  Around it the model has          *)
(* pangolin, the cluster, the pod's life cycle, and the failures of each.  *)
(*                                                                         *)
(* The translation (build_desired) is a parameter, and so is the content   *)
(* of an object.  Of the content the model keeps only the objects it       *)
(* refers to.                                                              *)
(***************************************************************************)
EXTENDS Naturals, FiniteSets

CONSTANTS
  Body,            \* response bodies pangolin may serve; body, sha256 and ETag are one-to-one
  Key,             \* identities of objects in the namespace: records [kind, name]
  Spec,            \* contents of an object: records with at least refs and guards
  Owner,           \* values of the managed-by and instance labels
  Self,            \* this controller's value of those labels
  None,            \* an absent object, tag, digest or body
  Setting,         \* the controller's settings that reach this module
  BuildDesired(_, _), \* build_desired: the content wanted for each key, or None
  InitialCluster,  \* what is in the namespace before the first start
  MayFollow,       \* pairs of bodies: pangolin may replace the first with the second
  EtagSent,        \* {TRUE}: every response has an ETag, {FALSE}: none, BOOLEAN: some
  Faults,          \* the failures of this instance
  MaxBackoff       \* CONFIG_MAX_BACKOFF in seconds; bounds the counter backoff

Kind == {"Service", "EndpointSlice", "Backend", "BackendTLSPolicy", "ListenerSet",
         "HTTPRoute", "TCPRoute", "UDPRoute", "SecurityPolicy"}

Object == [owner : Owner, spec : Spec]

(***************************************************************************)
(* build_routes gives an HTTPRoute a reference to its backend and to its   *)
(* parent ListenerSet and, when it is protected, a SecurityPolicy that     *)
(* guards it; all of these are in the same desired set as the route.       *)
(***************************************************************************)
ASSUME ConstantAssumption ==
  /\ \A k \in Key : k.kind \in Kind
  /\ \A s \in Spec : s.refs \subseteq Key /\ s.guards \subseteq Key
  /\ Self \in Owner
  /\ None \notin Body /\ None \notin Spec /\ None \notin Object
  /\ InitialCluster \in [Key -> Object \cup {None}]
  /\ \A k \in Key : InitialCluster[k] # None => InitialCluster[k].owner # Self
  /\ EtagSent \subseteq BOOLEAN
  /\ MaxBackoff \in Nat

ASSUME SettingAssumption ==
  /\ Setting # {}
  /\ Setting \subseteq [backend_kind : {"service", "envoy-backend"}, enable_tcp_routes : BOOLEAN,
                        enable_udp_routes : BOOLEAN, ext_authz : BOOLEAN, read_only : BOOLEAN]

ASSUME DesiredAssumption ==
  \A s \in Setting, b \in Body :
    /\ BuildDesired(s, b) \in [Key -> Spec \cup {None}]
    /\ \A k \in Key :
         BuildDesired(s, b)[k] # None =>
           /\ \A r \in BuildDesired(s, b)[k].refs \cup BuildDesired(s, b)[k].guards :
                BuildDesired(s, b)[r] # None
           /\ k.kind = "HTTPRoute" =>
                /\ \A r \in BuildDesired(s, b)[k].refs : r.kind \in {"Service", "Backend", "ListenerSet"}
                /\ \A g \in BuildDesired(s, b)[k].guards : g.kind = "SecurityPolicy"

VARIABLES
  served,       \* the body pangolin serves now
  cluster,      \* the namespace: for each key an object or None
  calm,         \* no fault, no change of the body and no signal happens any more
  pc,           \* where the controller is: an await of run_loop, or "down"
  cfg,          \* settings of the running process
  shutdown,     \* the cancellation token
  last_etag,    \* locals of run_loop ...
  last_digest,
  backoff,
  ready,        \* Readiness, read by the probe /readyz
  fetched,      \* the response being reconciled: its body and ETag
  toApply,      \* keys still to be applied by reconcile_once
  toSweep,      \* kinds still to be swept by reconcile_once
  victims       \* orphans of the kind being swept, listed and not yet deleted

vars == <<served, cluster, calm, pc, cfg, shutdown, last_etag, last_digest, backoff, ready,
          fetched, toApply, toSweep, victims>>

memory  == <<last_etag, last_digest, ready>>
work    == <<fetched, toApply, toSweep, victims>>
outside == <<served, calm>>

NoFetch == [body |-> None, etag |-> None]

TypeOK ==
  /\ served \in Body
  /\ cluster \in [Key -> Object \cup {None}]
  /\ calm \in BOOLEAN
  /\ pc \in {"poll", "reconcile", "wait_fetch", "wait_reconcile", "wait_poll", "down"}
  /\ cfg \in Setting
  /\ shutdown \in BOOLEAN
  /\ last_etag \in Body \cup {None}
  /\ last_digest \in Body \cup {None}
  /\ backoff \in Nat
  /\ ready \in BOOLEAN
  /\ fetched \in [body : Body \cup {None}, etag : Body \cup {None}]
  /\ pc = "reconcile" => fetched.body \in Body
  /\ toApply \subseteq Key
  /\ toSweep \subseteq Kind
  /\ victims \subseteq Key

-----------------------------------------------------------------------------
(* The order of the passes in reconcile_once, and what each concerns.      *)

\* Mutant: routes are applied before the ListenerSet they attach to.
RoutesBeforeListeners == [kind \in Kind |->
  CASE kind = "Service" -> 1          [] kind = "EndpointSlice" -> 2 [] kind = "Backend" -> 3
    [] kind = "BackendTLSPolicy" -> 4 [] kind = "HTTPRoute" -> 5   [] kind = "ListenerSet" -> 6
    [] kind = "TCPRoute" -> 7         [] kind = "UDPRoute" -> 8      [] OTHER -> 9]

ApplyRank == [kind \in Kind |->
  CASE kind = "Service" -> 1          [] kind = "EndpointSlice" -> 2 [] kind = "Backend" -> 3
    [] kind = "BackendTLSPolicy" -> 4 [] kind = "ListenerSet" -> 5   [] kind = "HTTPRoute" -> 6
    [] kind = "TCPRoute" -> 7         [] kind = "UDPRoute" -> 8      [] OTHER -> 9]

\* Mutant: policies are swept before the routes that need them.
PoliciesSweptFirst == [kind \in Kind |->
  CASE kind = "SecurityPolicy" -> 1 [] kind = "HTTPRoute" -> 2 [] OTHER -> 3]

SweepRank == [kind \in Kind |->
  CASE kind = "HTTPRoute" -> 1 [] kind = "ListenerSet" -> 2 [] kind = "EndpointSlice" -> 3
    [] kind = "Service" -> 4   [] kind = "Backend" -> 5     [] kind = "TCPRoute" -> 6
    [] kind = "UDPRoute" -> 7  [] kind = "SecurityPolicy" -> 8 [] OTHER -> 9]

\* Kinds whose CRD may be missing are listed only when their feature is on.
SweptKinds(setting) ==
  {"HTTPRoute", "ListenerSet", "EndpointSlice", "Service", "BackendTLSPolicy"}
    \cup (IF setting.backend_kind = "envoy-backend" THEN {"Backend"} ELSE {})
    \cup (IF setting.enable_tcp_routes THEN {"TCPRoute"} ELSE {})
    \cup (IF setting.enable_udp_routes THEN {"UDPRoute"} ELSE {})
    \cup (IF setting.ext_authz THEN {"SecurityPolicy"} ELSE {})

Wanted(k) == BuildDesired(cfg, fetched.body)[k]

Mine(object) == object # None /\ object.owner = Self

Owned(k) == Mine(cluster[k])

\* Mutant: objects are written without the labels.
AppliedUnlabelled(k) == [owner |-> None, spec |-> Wanted(k)]

\* A forced server-side apply sets the content and both owner labels,
\* whoever the object belonged to.
Applied(k) == [owner |-> Self, spec |-> Wanted(k)]

\* Mutant: a delay that would pass the bound is not cut down to it.
DoubledBelowMax == IF 2 * backoff < MaxBackoff THEN 2 * backoff ELSE backoff

Doubled == IF 2 * backoff < MaxBackoff THEN 2 * backoff ELSE MaxBackoff

-----------------------------------------------------------------------------
(* The process.  Exit loses everything held in memory.                     *)

Init ==
  /\ served \in Body
  /\ cluster = InitialCluster
  /\ calm = FALSE
  /\ pc = "poll"
  /\ cfg \in Setting
  /\ shutdown = FALSE
  /\ last_etag = None /\ last_digest = None
  /\ backoff = 1
  /\ ready = FALSE
  /\ fetched = NoFetch
  /\ toApply = {} /\ toSweep = {} /\ victims = {}

Fault(f) == f \in Faults /\ ~calm

\* Mutant: what the process remembers survives it.
ExitKeepsMemory ==
  /\ pc' = "down"
  /\ shutdown' = FALSE
  /\ backoff' = 1
  /\ fetched' = NoFetch
  /\ toApply' = {} /\ toSweep' = {} /\ victims' = {}
  /\ UNCHANGED <<outside, cluster, cfg, memory>>

Exit ==
  /\ pc' = "down"
  /\ shutdown' = FALSE
  /\ last_etag' = None /\ last_digest' = None
  /\ backoff' = 1
  /\ ready' = FALSE
  /\ fetched' = NoFetch
  /\ toApply' = {} /\ toSweep' = {} /\ victims' = {}
  /\ UNCHANGED <<outside, cluster, cfg>>

\* Mutant: the head of the loop sleeps once more instead of returning.
PollCancelledSleeps ==
  /\ pc = "poll" /\ shutdown
  /\ pc' = "wait_poll"
  /\ UNCHANGED <<outside, cluster, cfg, shutdown, memory, backoff, work>>

PollCancelled == pc = "poll" /\ shutdown /\ Exit

WaitCancelled == pc \in {"wait_fetch", "wait_reconcile", "wait_poll"} /\ shutdown /\ Exit

Crash == pc # "down" /\ Fault("crash") /\ Exit

Restart ==
  /\ pc = "down"
  /\ pc' = "poll"
  /\ cfg' \in Setting
  /\ UNCHANGED <<outside, cluster, shutdown, memory, backoff, work>>

Signal ==
  /\ Fault("signal")
  /\ pc # "down"
  /\ ~shutdown
  /\ shutdown' = TRUE
  /\ UNCHANGED <<outside, cluster, pc, cfg, memory, backoff, work>>

-----------------------------------------------------------------------------
(* The poll: one conditional GET and what run_loop does with its outcome.  *)

Tags == {tag \in {served, None} : (tag # None) \in EtagSent}

Answered == pc = "poll" /\ ~shutdown /\ backoff' = 1

FetchErr ==
  /\ pc = "poll" /\ ~shutdown
  /\ Fault("fetch")
  /\ pc' = "wait_fetch"
  /\ UNCHANGED <<outside, cluster, cfg, shutdown, memory, backoff, work>>

NotModified ==
  /\ Answered
  /\ last_etag = served
  /\ TRUE \in EtagSent
  /\ ready' = TRUE
  /\ pc' = "wait_poll"
  /\ UNCHANGED <<outside, cluster, cfg, shutdown, last_etag, last_digest, work>>

\* last_etag = etag.or(last_etag)
Remember(etag) == last_etag' = IF etag # None THEN etag ELSE last_etag

MatchedDigest ==
  /\ Answered
  /\ last_digest = served
  /\ \E tag \in Tags : Remember(tag)
  /\ ready' = TRUE
  /\ pc' = "wait_poll"
  /\ UNCHANGED <<outside, cluster, cfg, shutdown, last_digest, work>>

\* Mutant: the tag is remembered when the response comes in.
NewBodyRemembersTag ==
  /\ Answered
  /\ last_digest # served
  /\ \E tag \in Tags : fetched' = [body |-> served, etag |-> tag] /\ Remember(tag)
  /\ toApply' = {k \in Key : BuildDesired(cfg, served)[k] # None}
  /\ toSweep' = SweptKinds(cfg)
  /\ pc' = "reconcile"
  /\ UNCHANGED <<outside, cluster, cfg, shutdown, last_digest, ready, victims>>

\* Mutant: a fetch that succeeds leaves the delay as it is.
NewBodyKeepsBackoff ==
  /\ pc = "poll" /\ ~shutdown
  /\ last_digest # served
  /\ \E tag \in Tags : fetched' = [body |-> served, etag |-> tag]
  /\ toApply' = {k \in Key : BuildDesired(cfg, served)[k] # None}
  /\ toSweep' = SweptKinds(cfg)
  /\ pc' = "reconcile"
  /\ UNCHANGED <<outside, cluster, cfg, shutdown, memory, backoff, victims>>

NewBody ==
  /\ Answered
  /\ last_digest # served
  /\ \E tag \in Tags : fetched' = [body |-> served, etag |-> tag]
  /\ toApply' = {k \in Key : BuildDesired(cfg, served)[k] # None}
  /\ toSweep' = SweptKinds(cfg)
  /\ pc' = "reconcile"
  /\ UNCHANGED <<outside, cluster, cfg, shutdown, memory, victims>>

-----------------------------------------------------------------------------
(* reconcile_once: apply everything wanted, then sweep kind by kind.       *)

NextToApply(k) ==
  /\ pc = "reconcile"
  /\ k \in toApply
  /\ \A j \in toApply : ApplyRank[k.kind] <= ApplyRank[j.kind]

\* Mutant: what is already there is not written again.
ApplyIfMissing(k) ==
  /\ NextToApply(k)
  /\ cluster' = IF Owned(k) THEN cluster ELSE [cluster EXCEPT ![k] = Applied(k)]
  /\ toApply' = toApply \ {k}
  /\ UNCHANGED <<outside, pc, cfg, shutdown, memory, backoff, fetched, toSweep, victims>>

Apply(k) ==
  /\ NextToApply(k)
  /\ cluster' = IF cfg.read_only THEN cluster ELSE [cluster EXCEPT ![k] = Applied(k)]
  /\ toApply' = toApply \ {k}
  /\ UNCHANGED <<outside, pc, cfg, shutdown, memory, backoff, fetched, toSweep, victims>>

\* Mutant: a failed write is logged and the pass goes on.
ApplyErrGoesOn(k) ==
  /\ NextToApply(k)
  /\ Fault("apply")
  /\ toApply' = toApply \ {k}
  /\ UNCHANGED <<outside, cluster, pc, cfg, shutdown, memory, backoff, fetched, toSweep, victims>>

\* The request fails, or it succeeds and its answer is lost.  Either way the
\* rest of the pass, and the sweep, are given up.
ApplyErr(k) ==
  /\ NextToApply(k)
  /\ Fault("apply")
  /\ ~cfg.read_only
  /\ cluster' \in {cluster, [cluster EXCEPT ![k] = Applied(k)]}
  /\ pc' = "wait_reconcile"
  /\ fetched' = NoFetch
  /\ toApply' = {}
  /\ toSweep' = {}
  /\ UNCHANGED <<outside, cfg, shutdown, memory, backoff, victims>>

\* Mutant: a kind is swept as soon as its own objects were applied.
SweptEarly(kind) ==
  /\ pc = "reconcile"
  /\ \A k \in toApply : k.kind # kind
  /\ victims = {}
  /\ kind \in toSweep
  /\ \A other \in toSweep : SweepRank[kind] <= SweepRank[other]

NextToSweep(kind) ==
  /\ pc = "reconcile"
  /\ toApply = {}
  /\ victims = {}
  /\ kind \in toSweep
  /\ \A other \in toSweep : SweepRank[kind] <= SweepRank[other]

\* Mutant: orphans of anybody.
OrphansOfAnybody(kind) == {k \in Key : k.kind = kind /\ cluster[k] # None /\ Wanted(k) = None}

\* Mutant: the names to keep are those of the body before.
OrphansOfBefore(kind) ==
  {k \in Key : k.kind = kind /\ Owned(k) /\ (last_digest = None \/ BuildDesired(cfg, last_digest)[k] = None)}

\* Objects of this kind with our labels and a name that is not wanted.
Orphans(kind) == {k \in Key : k.kind = kind /\ Owned(k) /\ Wanted(k) = None}

\* Mutant: a kind is listed again until it has no orphans left.
SweepUntilClean(kind) ==
  /\ NextToSweep(kind)
  /\ victims' = IF cfg.read_only THEN {} ELSE Orphans(kind)
  /\ toSweep' = IF victims' = {} THEN toSweep \ {kind} ELSE toSweep
  /\ UNCHANGED <<outside, cluster, pc, cfg, shutdown, memory, backoff, fetched, toApply>>

SweepList(kind) ==
  /\ NextToSweep(kind)
  /\ victims' = IF cfg.read_only THEN {} ELSE Orphans(kind)
  /\ toSweep' = toSweep \ {kind}
  /\ UNCHANGED <<outside, cluster, pc, cfg, shutdown, memory, backoff, fetched, toApply>>

\* A kind that cannot be listed is skipped with a warning.
SweepListErr(kind) ==
  /\ NextToSweep(kind)
  /\ Fault("list")
  /\ toSweep' = toSweep \ {kind}
  /\ UNCHANGED <<outside, cluster, pc, cfg, shutdown, memory, backoff, fetched, toApply, victims>>

\* Deletion is by name; deleting what is already gone is not an error.
SweepDelete(k) ==
  /\ pc = "reconcile"
  /\ k \in victims
  /\ cluster' = [cluster EXCEPT ![k] = None]
  /\ victims' = victims \ {k}
  /\ UNCHANGED <<outside, pc, cfg, shutdown, memory, backoff, fetched, toApply, toSweep>>

\* A failed deletion is logged and the sweep goes on.
SweepDeleteErr(k) ==
  /\ pc = "reconcile"
  /\ k \in victims
  /\ Fault("delete")
  /\ victims' = victims \ {k}
  /\ UNCHANGED <<outside, cluster, pc, cfg, shutdown, memory, backoff, fetched, toApply, toSweep>>

ReconcileOk ==
  /\ pc = "reconcile"
  /\ toApply = {} /\ toSweep = {} /\ victims = {}
  /\ last_digest' = fetched.body
  /\ Remember(fetched.etag)
  /\ ready' = TRUE
  /\ pc' = "wait_poll"
  /\ fetched' = NoFetch
  /\ UNCHANGED <<outside, cluster, cfg, shutdown, backoff, toApply, toSweep, victims>>

-----------------------------------------------------------------------------
(* The sleeps of run_loop.  The backoff grows after it was waited out.     *)

TimerFires ==
  /\ pc \in {"wait_fetch", "wait_reconcile", "wait_poll"}
  /\ pc' = "poll"
  /\ backoff' = IF pc = "wait_poll" THEN backoff ELSE Doubled
  /\ UNCHANGED <<outside, cluster, cfg, shutdown, memory, work>>

-----------------------------------------------------------------------------
(* Pangolin, other writers of the namespace, and the end of all trouble.   *)

ServeNext ==
  /\ ~calm
  /\ \E b \in Body : <<served, b>> \in MayFollow /\ served' = b
  /\ UNCHANGED <<cluster, calm, pc, cfg, shutdown, memory, backoff, work>>

\* Someone else deletes an object of the controller.
Drift(k) ==
  /\ Fault("drift")
  /\ Owned(k)
  /\ cluster' = [cluster EXCEPT ![k] = None]
  /\ UNCHANGED <<outside, pc, cfg, shutdown, memory, backoff, work>>

CalmDown ==
  /\ ~calm
  /\ calm' = TRUE
  /\ UNCHANGED <<served, cluster, pc, cfg, shutdown, memory, backoff, work>>

-----------------------------------------------------------------------------
Poll == FetchErr \/ NotModified \/ MatchedDigest \/ NewBody

ApplyPass == \E k \in Key : Apply(k) \/ ApplyErr(k)

SweepPass ==
  \/ \E kind \in Kind : SweepList(kind) \/ SweepListErr(kind)
  \/ \E k \in Key : SweepDelete(k) \/ SweepDeleteErr(k)

Wait == TimerFires \/ WaitCancelled

\* What the controller's task and the Deployment that restarts it do.
Controller ==
  Poll \/ PollCancelled \/ ApplyPass \/ SweepPass \/ ReconcileOk \/ Wait \/ Restart

Environment == Signal \/ Crash \/ ServeNext \/ CalmDown \/ \E k \in Key : Drift(k)

Next == Controller \/ Environment

(***************************************************************************)
(* Fairness.  Every await of the task ends: the fetch and the requests to  *)
(* the API have timeouts, and the sleeps end.  The Deployment restarts a   *)
(* process that has ended.  Nothing is assumed of the environment, which   *)
(* need never become calm, nor of which way a step goes.                   *)
(***************************************************************************)
Fairness == WF_vars(Controller)

ControllerSpec == Init /\ [][Next]_vars /\ Fairness

-----------------------------------------------------------------------------
(* Properties.                                                             *)

\* In namespace ns the owned part is, for these kinds, what body b calls for.
Mirrors(ns, b, kinds) ==
  \A k \in Key :
    k.kind \in kinds =>
      IF BuildDesired(cfg, b)[k] = None
        THEN ~Mine(ns[k])
        ELSE ns[k] = [owner |-> Self, spec |-> BuildDesired(cfg, b)[k]]

Covered(k) == Owned(k) /\ \A g \in cluster[k].spec.guards : Owned(g)

\* The body of the running poll.
Polled == IF pc = "poll" THEN served ELSE fetched.body

Succeeds == pc = "reconcile" /\ pc' = "wait_poll" /\ ~cfg.read_only

(***************************************************************************)
(* Every HTTPRoute the controller has put in the namespace refers to       *)
(* backends and to a ListenerSet that exist, at every moment: in the       *)
(* middle of a pass, after a pass that failed, after a crash.  It is what  *)
(* the order of the passes in reconcile_once is for (lines 121 to 176).    *)
(***************************************************************************)
NoDanglingRoute ==
  \A k \in Key :
    k.kind = "HTTPRoute" /\ Owned(k) => \A r \in cluster[k].spec.refs : cluster[r] # None

(***************************************************************************)
(* A reconciliation that succeeds leaves exactly the wanted objects among  *)
(* those it owns, for each kind that it sweeps, whatever earlier failed    *)
(* passes and other settings had left behind (src/reconcile.rs:109-261).   *)
(***************************************************************************)
SuccessMirrors ==
  [][Succeeds => Mirrors(cluster', fetched.body, SweptKinds(cfg))]_vars

(***************************************************************************)
(* Every poll that ends well leaves the namespace as the polled body asks, *)
(* the short cuts for an unchanged tag or digest included: what README.md  *)
(* says of a stateless controller that diffs on every poll.                *)
(***************************************************************************)
EveryPollMirrors ==
  [][pc # pc' /\ pc' = "wait_poll" =>
       Mirrors(cluster', Polled, SweptKinds(cfg))]_vars

(***************************************************************************)
(* A route that has the policies guarding it never loses one while it      *)
(* stays as it is: garbage collection takes the route first.  This is the  *)
(* lockstep that src/transform/ext_authz.rs:20-21 speaks of.               *)
(***************************************************************************)
CoverNeverLost ==
  [][\A k \in Key :
       k.kind = "HTTPRoute" /\ Covered(k) /\ cluster'[k] = cluster[k] => Covered(k)']_vars

(***************************************************************************)
(* When listings and deletions fail, a pass may take the policy of a route *)
(* that it meant to delete and could not.  It never takes one from a route *)
(* that the body wants, whatever failed before and whatever others have    *)
(* deleted meanwhile (src/reconcile.rs:163-206).                           *)
(***************************************************************************)
WantedKeepCover ==
  [][\A k \in Key :
       k.kind = "HTTPRoute" /\ Covered(k) /\ cluster'[k] = cluster[k] /\ ~Covered(k)'
         => victims' = victims \/ Wanted(k) = None]_vars

(***************************************************************************)
(* Whenever no pass is running, every protected route has its policies     *)
(* (src/transform/route.rs:54-58: it "must be covered").                   *)
(***************************************************************************)
ProtectedAtRest ==
  pc # "reconcile" => \A k \in Key : k.kind = "HTTPRoute" /\ Owned(k) => Covered(k)

(***************************************************************************)
(* An object of somebody else is only ever touched to become a wanted      *)
(* object of ours: the sweeps select by label (src/gc.rs:19).              *)
(***************************************************************************)
ForeignUntouched ==
  [][\A k \in Key :
       cluster[k] # None /\ ~Owned(k) /\ cluster'[k] # cluster[k]
         => pc = "reconcile" /\ Wanted(k) # None /\ cluster'[k] = Applied(k)]_vars

(***************************************************************************)
(* The probe reports ready only when this process has brought the          *)
(* namespace into the state of some body, so not after a restart, and not  *)
(* because of a 304 alone (src/reconcile.rs:61-63, 98; src/health.rs).     *)
(* The digest is remembered no later than the tag, so a tag sent with a    *)
(* request stands for a body that was reconciled.                          *)
(***************************************************************************)
ReadyMeansReconciled ==
  /\ ready => last_digest # None
  /\ last_etag # None => ready

(***************************************************************************)
(* A pass that fails is tried again after one second, however long the     *)
(* delay was that failing fetches, or failing passes, had built up: the    *)
(* two share one delay, and the fetch before the pass has reset it         *)
(* (src/reconcile.rs:45-49, 87-95).                                        *)
(***************************************************************************)
FailedPassRetriesSoon == pc = "wait_reconcile" => backoff = 1

(***************************************************************************)
(* When every response has a tag, the tag of the next request names the    *)
(* body reconciled last (src/reconcile.rs:96-99).                          *)
(***************************************************************************)
TagNamesDigest == last_etag = last_digest

(***************************************************************************)
(* Once trouble ends the namespace becomes, and stays, what pangolin       *)
(* serves (src/reconcile.rs:39-106).                                       *)
(***************************************************************************)
Converges == calm ~> [](Mirrors(cluster, served, SweptKinds(cfg)))

(***************************************************************************)
(* The same from any state of the namespace and any memory of the process, *)
(* when the polled body is neither the one reconciled last nor the one     *)
(* that the remembered tag names.                                          *)
(***************************************************************************)
FreshBodyConverges ==
  (calm /\ pc = "poll" /\ ~shutdown /\ served \notin {last_digest, last_etag})
    ~> [](Mirrors(cluster, served, SweptKinds(cfg)))

(***************************************************************************)
(* A termination signal ends the process, from every await and in the      *)
(* middle of a pass (src/reconcile.rs:40-42, 296-301).                     *)
(***************************************************************************)
ShutdownStops == shutdown ~> pc = "down"

(***************************************************************************)
(* The task never stays in one place for good and no pass lasts for ever,  *)
(* whatever fails in it: a failed write gives the pass up, a failed        *)
(* listing or deletion is not tried again in it (src/reconcile.rs:109-261, *)
(* src/gc.rs:15-44).                                                       *)
(***************************************************************************)
Progress == []<><<Controller>>_vars /\ []<>(pc # "reconcile")

(***************************************************************************)
(* When polls fail for ever because pangolin does not answer, the delay    *)
(* between them grows to CONFIG_MAX_BACKOFF (src/reconcile.rs:50-57).      *)
(***************************************************************************)
FetchBackoffSaturates ==
  <>[](pc \in {"poll", "wait_fetch"}) => <>[](backoff = MaxBackoff)
=============================================================================
