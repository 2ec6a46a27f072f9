# Verification of pangolin-gateway-api

TLA+ models of the controller that turns pangolin's Traefik configuration into
Gateway API objects, and of the ext-authz shim that protects its routes. TLC
checks them on small instances, and TLAPS proves the safety results, and what
follows from steady progress, for all values of the constants.

Paths such as `src/reconcile.rs:72` are relative to the repository's root.

## 1. The system

One `pangolin-gateway-controller` runs in a namespace. It polls pangolin for the
Traefik dynamic configuration, computes the objects that the configuration calls
for, applies each of them to the Kubernetes API by forced server-side apply, and
deletes the objects that carry its labels and are no longer wanted. Envoy Gateway
acts on the objects. A second binary, the badger ext-authz shim, answers Envoy's
question whether a request to a protected route may pass; it asks pangolin.

### Inventory

| Component | State | Operations | What makes it correct |
|---|---|---|---|
| reconciliation loop, `src/reconcile.rs` | `last_etag`, `last_digest`, `backoff`; within a pass the response and how far the pass has got | poll, short cuts on an unchanged tag or digest, apply pass by pass, sweep kind by kind, sleep, shut down | routes never refer to what is missing; a good pass leaves exactly what is wanted; once trouble ends the namespace becomes what pangolin serves; a signal ends it |
| server-side apply, `src/apply.rs` | none; writes the namespace | forced apply of one object with both owner labels | a lost answer is harmless; foreign objects are taken only when their name is wanted |
| garbage collection, `src/gc.rs` | the names listed and not yet deleted | list by label, delete by name | only own and unwanted objects go; routes go before what they need |
| pangolin client, `src/pangolin/client.rs` | none | conditional GET: 304, body with or without `ETag`, error | a tag that is sent names a body that was reconciled |
| process life cycle, `src/main.rs`; health, `src/health.rs` | cancellation token, readiness flag | start, signal, exit, `/readyz` | not ready before this process has reconciled |
| several instances, labels of `src/config.rs` and `src/apply.rs` | the shared namespace | the loop, twice | they do not touch each other's objects |
| translation, `src/transform/mod.rs` and `route.rs`, `ext_authz.rs`, `listener.rs`, `l4.rs` | maps keyed by sanitized names, the backend index, hosts, claimed ports | one loop per family over services, then over routers; the ListenerSet last | references resolve; protected routers are guarded or dropped; ports are not shared |
| backends and names, `src/transform/backend.rs`, `naming.rs` | none | classify the servers of a service, emit objects | a route leads to the servers of its own service |
| rules, `src/transform/rule.rs` | parser state | parse a rule, decide whether it is usable | a rule is dropped or keeps its meaning |
| middlewares, `src/transform/middleware.rs` | filters being merged | map each middleware to filters | a backend is sent what Traefik would send it; a rewrite and a header modifier of each side at most once, one redirect per middleware that asks for it |
| shim, `src/shim.rs` | none between requests | `check`, `exchange_session`, `verify_session` | what is served was authorized and is the page asked for; a user can always log in |
| configuration, wire types, shim binary, manifests | - | parsing, I/O, static data | - |

Interaction. The loop is one task and awaits pangolin, the Kubernetes API and
timers in turn; the only state shared with others is the namespace, the
cancellation token and the readiness flag. The translation is a pure function
called between two awaits. The shim serves requests concurrently, its handlers
share nothing but pangolin and the cookie jar of the browser, and each awaits
pangolin once or twice.

What is hard here:

- failure and crashes in the middle of a pass of many single writes, with the
  namespace left between two configurations and the memory at neither;
- memory (`last_etag`, `last_digest`) that describes the last good pass and is
  used as though it described the namespace;
- errors that end a pass (apply) next to errors that do not (sweep);
- ordering between kinds, in both directions (apply and delete);
- other writers: instances, people, and deletions by name after a list by label;
- maps keyed by names that several inputs may share after sanitizing;
- merging of middlewares into the few filters an HTTPRoute may have, whose effect
  depends on the rule they stand under;
- one-time tokens whose exchange succeeds while its answer is lost, and tabs
  that replace each other's cookie.

`PROJECT.json` lists the hazards one by one with the line where each bites and
the properties that cover it.

## 2. Modules

| Module | Models | Extends or instantiates |
|---|---|---|
| `Controller` | the loop, apply, garbage collection, client, life cycle, readiness | |
| `Publisher` | abstract: what the controller promises to whoever reads the namespace | |
| `Publishing` | the refinement mapping from `Controller` to `Publisher` | `Controller`; an instance of `Publisher` |
| `MCController` | three bodies, settings, a foreign object | `Publishing` |
| `ControllerProofs` | theorems about `Controller` | `Controller` |
| `PublishingProofs` | `Controller` implements `Publisher` | `Publishing`, `ControllerProofs` |
| `TwoInstances`, `MCTwoInstances` | two controllers in one namespace | two instances of `Controller` |
| `TwoInstancesProofs` | theorems about `TwoInstances` | `TwoInstances` |
| `Rule` | `rule.rs`: the parser, and what a rule means to Traefik and to an HTTPRoute | |
| `Backends` | `backend.rs`, `naming.rs`: classification, emitters, labels | |
| `Middleware` | `middleware.rs`: filters and their merging, and what both sides do to a request | |
| `Translate` | `build_desired` | `Backends`, `Rule`, `Middleware` |
| `MCTranslate` | families of responses | `Translate` |
| `TranslateProofs` | protection and references in the desired set | `Translate` |
| `RoutingProofs` | no router is lost, and each leads to its own backend | `TranslateProofs` |
| `ListenerProofs` | listeners, ports and types | `TranslateProofs` |
| `MeaningProofs` | what rules and middlewares mean on both sides | `ListenerProofs` |
| `Shim`, `MCShim` | the handler `check`, with browser, portal and pangolin | |
| `ShimProofs` | theorems about `Shim` | `Shim` |

### Controller

Every await is a step, since that is where the task can be interrupted, where a
call can fail and where others act on the namespace.

| Model | Code |
|---|---|
| `pc = "poll"`, `FetchErr`, `NotModified`, `MatchedDigest`, `NewBody` | the fetch and the match on its outcome, `reconcile.rs:39-88` |
| `pc = "reconcile"` with `toApply`, `Apply`, `ApplyErr` | the loops of applies in `reconcile_once`, `:121-150`, in the order `ApplyRank`; `ApplyErr` covers both a refused request and one that took effect |
| `toSweep`, `victims`, `SweepList`, `SweepListErr`, `SweepDelete`, `SweepDeleteErr` | the sweeps `:163-206` in the order `SweepRank`, and `gc.rs`; failures are logged and the pass goes on |
| `ReconcileOk` | `:96-101`: digest, tag and readiness are set |
| `wait_fetch`, `wait_reconcile`, `wait_poll`, `TimerFires`, `WaitCancelled` | the three calls of `wait_or_shutdown`, with the doubling of the delay after it was waited out |
| `Signal`, `PollCancelled`, `Exit`, `Crash`, `Restart` | `main.rs` and the Deployment; `Exit` loses all memory, and `Restart` may come with other settings |
| `cluster` | the namespace: for each key no object, or an owner and a content |
| `ServeNext`, `Drift`, `CalmDown` | pangolin changes its answer, somebody deletes an object of ours, and the moment after which nothing of the kind happens |

The translation is the parameter `BuildDesired`, constrained by
`DesiredAssumption`: what a route refers to is wanted along with it. That the
code's translation does this is `RefsResolve` of `Translate`, which is proved.

Abstractions. A body stands for its digest and its tag. The order of applies
within one kind is arbitrary, which includes the name order of the code.
Oversized and undecodable answers are fetch failures. A signal during the fetch
is a signal right after it, as `run_loop` looks at the token only at its head
and in its sleeps. `report_status` only logs. `CONFIG_MAX_BACKOFF` is counted in
whole seconds, so a bound below the first delay of one second is left out. A 304
to a request without a tag is left out.

### Publisher and Publishing

`Publisher` has three variables: the namespace, the plan being brought about and
the plan published last. It writes objects of the plan only, a route after what
it refers to; it takes an object away only when the whole plan is in place and no
route uses the object; it calls a plan published when the namespace shows it. It
may give a plan up at any time and forget what it has published.

`Publishing` maps `Controller` to it: the namespace is `cluster`, `plan` is the
settings and the body of the running pass, `published` is the settings with
`last_digest`. A read-only process has no plan. A failed write whose request took
effect is a `Put` that ends the plan; polls, lists, sleeps and signals stutter.

### Translate, Backends, Rule, Middleware

`build_desired` runs without awaits; the model takes one name of one loop per
step because replacement by a later object of the same key is the behaviour that
matters, and so that each early return is an action. `stage` is the loop,
`todo` its remaining names, `Takes` the order of the `BTreeMap`. `Inserted` is
insertion into the maps: last one wins.

A label is the sequence of its parts between dashes, so `a_b` and `a-b` become
one and an infix can collide with a name (`tcp-x`). A label of more than
`MaxParts` parts is cut and ends with a hash of the input, which is written as
the input itself: hashes are taken to differ. Ports are symbols. Servers are host
kind, name, port and scheme, or unreadable (`None`). A rule is a sequence of
tokens.

A middleware is its kind (its first top-level key), the fields of that kind, and
whether it has the badger plugin. `translate` and `merge_filters` turn a chain
into filters; positions in the chain stand for their order. `RoutedPath`,
`RoutedHeaders` and `RoutedHosts` say what a gateway makes of a request with the
filters, `MeantPath` and `MeantHeaders` what Traefik makes of it with the chain.

Left out: the names of TLS secrets, SNI and host names inside TLS policies,
annotations, the port of a redirect. Both readings of a rule share `Fits`, which
says what a single predicate matches. So the difference between Traefik's string
prefix and Gateway API's prefix by path element is not visible, nor is one between
the dialects of regular expressions; what is compared is which predicates are read
and how they are joined. A header that is set to nothing counts as set on both
sides (`MeantHeaders`); Traefik takes such a header away.

### Shim

Each tab of one browser has at most one request under way, at one of the two
awaits of its handler. The tabs share `jar`. Pangolin keeps `live` sessions and
`valid` tokens and may have taken a token although its answer is lost. A path is
the sequence of its segments: Envoy puts `Prefix` before it, and the shim takes
it away again for pangolin, for the portal and for the redirect after an
exchange. Two variables are history: `want` is the page the user went to, and
`begun` says whether the request was to be let through when it came in.

The portal is assumed to replace the token in the URL it is given; the shim hands
it the URL with a rejected token still in it and reads the first value of the
parameter. `SHIM_PATH_PREFIX` is taken to be the controller's
`CONFIG_EXT_AUTHZ_PATH`. The parsing of headers, host names, cookies and query
strings is abstracted to the session and the token that come out of it, and the
`/healthz` route keeps no state. Of `strip_path_prefix` (`src/shim.rs:449-467`)
what is below the segments of a path is left out: the slash that a prefix may end
with, a match that ends within a segment, and a query right after the prefix. A
path without segments is `/`, so an empty rest is `/` by construction, and the
empty prefix stands for `/` too.

## 3. Runs

### Passing

| Run | Properties | Instance | States |
|---|---|---|---|
| `core` | `TypeOK`, `NoDanglingRoute`, `ReadyMeansReconciled`, `FailedPassRetriesSoon`, `SuccessMirrors`, `CoverNeverLost`, `ForeignUntouched`, `ImplementsPublisher` | two bodies in any order, tags present or not, three settings (one with the Envoy backend and without ext-authz, one read-only); failing fetches and writes, crashes; `MaxBackoff` 3 | 918,908 |
| `any_state` | `FreshBodyConverges`, `WantedKeepCover`, `Progress` | two bodies; failing writes, lists and deletions, deletions by others, crashes | 191,584 |
| `returning` | `TagNamesDigest`, `EveryPollMirrors`, `Converges`, `ShutdownStops`, `FetchBackoffSaturates` | three bodies in any order, every response tagged, no failing write; failing fetches, crashes, signals; `MaxBackoff` 3, no power of two | 34,242 |
| `apart` | `NoTrampling`, `FirstSuccessMirrors` | two instances with different names, failing writes | 75,272 |
| `shim` | `TypeOK`, `ServedWasAuthorized`, `PageKept`, `LoginCompletes`, `TabsGoOn` | two tabs, four sessions, three tokens, two pages of which one is the other under the prefix, all faults | 266,888 |
| `translation` | `TypeOK`, `RefsResolve`, `Guarded`, `RoutedToOwnBackend`, `PortsExclusive`, `RuleExact`, `EveryRouterKept`, `ForwardedAsMeant` | six families of responses under four settings | 348,112 |

What they show, and where their limits are:

- `core`: the order of the passes does what it is for. Whichever fetches and
  writes fail, wherever the process dies, and whatever settings the next process
  has, no HTTPRoute refers to a missing object, no route that stays loses its
  policy, and the next pass that succeeds leaves exactly what it should. The
  condition is that lists and deletions do not fail and nobody else deletes
  objects of the controller (`NoSweepFault` of section 4). `ImplementsPublisher`
  says the same of every single write. `FailedPassRetriesSoon` says that a failed
  pass waits one second, however far an outage of pangolin had stretched the delay
  that both share. TCPRoutes and UDPRoutes are not covered by
  `NoDanglingRoute`: they are swept after the Services and the ListenerSet.
- `any_state`: any mess is cleaned up by a body that is new to the process. The
  condition is needed; see the findings. When sweeps fail, `CoverNeverLost` does
  not hold, and `WantedKeepCover` says what is left of it: only a route that is
  not wanted any more can lose its policy. `Progress` says that the task never
  stays in one place for good and that every pass ends, although lists and
  deletions may fail any number of times.
- `returning` marks the condition under which the short cuts are right: no failed
  write.
- `apart` needs different names. With the default `CONFIG_LISTENERSET_NAME` in
  both instances they apply the ListenerSet over each other for ever.
- `shim`: an outage, a malformed or a lost answer never lets a request pass, a
  spent token does not lock anyone out, and no redirect changes the page, not
  even when its path begins with the prefix. `TabsGoOn` says that no await of a
  handler leads nowhere.
- `translation`: all rules of up to three predicates with negation and both
  connectors; every mix of protected and open routers under names that become
  one; services of all kinds under names shared by the families; TCP and UDP
  routers that want the same ports, or those of HTTP; every pair of middlewares
  and some triples under three kinds of path; long names that differ in their
  ends only. `RefsResolve` is stated for a `CONFIG_LISTENERSET_NAME` that
  `dns_label` leaves alone, `RoutedToOwnBackend` for services whose names stay
  different, `RuleExact` for rules with at most one `Host` and one path predicate
  of one path. `ForwardedAsMeant` counts the filters of each type for every chain,
  and says that the backend is sent the same for chains in which no two
  middlewares change the path or the same header, but for the host, and the path
  change is one that a filter can express.

### Violated: what the repository says and the code does not

| Run | Property | Finding |
|---|---|---|
| `revert_after_failure` | `EveryPollMirrors` | a pass that fails midway keeps digest and tag of the body before it. When pangolin returns to that body, the poll is short-cut and the half-applied objects stay |
| `failed_sweep` | `Converges` | a failed deletion does not fail the pass, so it is not tried again while the body stays |
| `unguarded` | `ProtectedAtRest` | policies are applied after all routes. A failure in between leaves a new protected route without its policy until a later pass succeeds |
| `rival_routes` | `NoRivals` | entry points are compared with `https` only, so the service router on `websecure` and the redirect on `web` of one resource become routes that compete on all listeners |
| `misrouted` | `NeverMisrouted` | `addPrefix` replaces the prefix that the rule has matched instead of adding to it, so the backend is asked for another path |
| `tls_to_plain` | `TlsOnlyToHttps` | a `BackendTLSPolicy` targets a whole Service, also for a resource that uses another of its ports in plain text |

### Bounds

Two bodies are enough for a pass that replaces another one, three for a return
after a skip. The bodies add and remove a route, change a route's backend,
protect it and remove its protection, move a policy, add and remove a TCPRoute,
and want a name that belongs to somebody else. Faults are not counted: each may
happen at every step at which it can, any number of times. The only unbounded
counter of the code, the delay, is bounded by the code itself (`MaxBackoff`).

A label has at most four parts, so that a prefix and a name of five parts are cut
where two names are still equal. Chains have two or three middlewares: the merge
looks at one type of filter at a time, and its rules (first path, last host name,
all headers) show with two of a type and one of another.

For the shim, three tokens mean one per tab and one to issue, and four sessions
one per request, one in the jar and one to issue, so neither runs out. The two
pages are the smallest pair in which taking the prefix away once too often, or
not at all, leads to another page.

### Fairness

- `Controller`: weak fairness of the controller's task as a whole, including its
  restart. It is one sequential task; its HTTP requests have timeouts, its sleeps
  end, and a Deployment restarts it. Nothing is assumed of which way a step goes,
  and the environment need never calm down.
- `Shim`: weak fairness per tab: calls to pangolin have a timeout, and the user
  follows redirects, logs in and reloads a refused page.
- `Translate` and `TwoInstances` state safety only and assume nothing.

Deadlock is checked in all runs. `Translate` ends in a stuttering step of its own
(`Returned`).

## 4. Proofs

`ControllerProofs` is about every set of bodies, keys, settings and owners and
every translation that meets `ConstantAssumption`, `SettingAssumption` and
`DesiredAssumption`.

| Theorem | States | Under |
|---|---|---|
| `TypeCorrect` | `TypeOK` | every fault |
| `ReadyIsEarned` | `ReadyMeansReconciled` | every fault |
| `FailedPassesRetrySoon` | `FailedPassRetriesSoon` | every fault |
| `ForeignIsUntouched` | `ForeignUntouched` | every fault |
| `WantedCoverIsKept` | `WantedKeepCover` | every fault |
| `TagIsDigest` | `TagNamesDigest` | every fault, every response tagged |
| `RoutesNeverDangle` | `NoDanglingRoute` | `NoSweepFault` |
| `SuccessfulPassMirrors` | `SuccessMirrors` | `NoSweepFault` |
| `CoverIsKept` | `CoverNeverLost` | `NoSweepFault` |
| `ShortCutsAreRight` | `EveryPollMirrors` | `NoWriteFault`, no process read-only, every response tagged |
| `ControllerPublishes` (`PublishingProofs`) | `ImplementsPublisher` | `NoSweepFault` |
| `SettledStays` | once calm and mirrored, mirrored for ever | every fault |
| `FreshBodyIsPublished` | `FreshBodyConverges` | `Progress`, every fault, no process read-only |
| `SignalEndsProcess` | `ShutdownStops` | `Progress`, every fault |
| `ControllerConverges` | `Converges` | `Progress`, `NoWriteFault`, no process read-only, every response tagged |
| `PassesDescend` | each request takes away from what a pass has left to do | every fault |
| `OutageLengthensBackoff` | the delay is bounded, and an outage only lengthens it | every fault |
| `ReadOnlyWritesNothing` | a read-only controller changes nothing | every fault |

`NoSweepFault` says that no list or deletion fails and that nobody else deletes
objects of the controller; without it the four statements are false, since a
failed sweep of routes does not stop the sweep of what they refer to. Failing
fetches and writes, lost answers, crashes, signals and restarts are all allowed.
`NoWriteFault` says in addition that no write fails; the run
`revert_after_failure` shows why.

The argument. `NoDanglingRoute` is not inductive: that a deletion leaves no route
behind depends on what the pass has done before. The inductive invariant
`SafeInv` adds to the types

- `RouteRefs`: routes refer to existing objects of the kinds swept after them;
- `Written`: what is wanted and no longer to be applied is in place;
- `Swept`: an orphan of a kind that has been listed is among the victims;
- `Condemned`: a victim is ours or gone and is not wanted, and if it is no route
  then every route left is wanted.

So a victim that is no route is unwanted while all remaining routes are wanted
and written, and by `DesiredAssumption` none of them refers to it. At the end of
a pass `Written` and `Swept` give `SuccessMirrors`. `CoverNeverLost` is an action
property of the same invariant, one case per action that changes the namespace.
`ForeignUntouched` rests on `VictimsOurs` alone, which holds even when sweeps
fail.

`ControllerPublishes` uses `SafeInv` with one more fact, that a process that is
down remembers nothing (`DownForgot`). Each action is shown to be one step of the
`Publisher` or a stutter: `Apply` is a `Put` because `Written` has the references
of a route in place when the routes' turn comes, `SweepDelete` is a `Take` by
`Written` and `Condemned`, `ReconcileOk` is a `Finish` by `Written` and `Swept`.

When sweeps fail and others delete, `Swept` and `Condemned` are lost. What is left
is `FaultyInv`: what was applied in this pass is in place or gone
(`WrittenOrGone`), and victims are not wanted (`VictimsUnwanted`). It is enough
for `WantedKeepCover`, as the policies of a wanted route are wanted.

`ShortCutsAreRight` adds `ShownAtRest` to `SafeInv` and the tag's invariant: as
long as no pass is under way, the namespace shows the body whose digest is
remembered. It is what the short cuts rely on, and a pass that fails midway is
exactly what breaks it.

Liveness is proved up to the use of fairness. `ControllerSpec => Progress` is
where fairness and the finiteness of a pass come in, and TLC checks it; the
theorems prove `ControllerSpec /\ Progress => ...`. They go along a chain of
conditions, for each of which one lemma shows that any step stays in it or
reaches the next one and that a step of the controller does reach it, and the
temporal prover puts the chain together:

- calm and being stopped, then down, then `Up` (`CalmStep`, `StoppingStep`);
- `Up`, in an old pass, asleep, at the head of the loop (`UpGoesOn`). There a
  short cut finds the namespace as it should be, by `ShownAtRest`, or a pass
  begins;
- `CleanPass`: a pass that began when calm. It has `Written` and `Swept` whatever
  came before, since every fault is over (`CleanPassStep`). It can only end in
- `Settled`, which no step leaves (`SettledStep`). A pass that is still under way
  then writes what is there already; this needs that it is about the served body.

`FreshBodyIsPublished` needs the last two only, and so nothing about what failed
before. Of `Progress`, `PassesDescend` proves the measure: what is left to apply,
to sweep and to delete shrinks, in that order of weight, with every request. For
`FetchBackoffSaturates`, `OutageLengthensBackoff` proves that each delay waited
out in an outage is longer than the one before or the longest, and that the
longest stays, for a `CONFIG_MAX_BACKOFF` of zero too.

`TwoInstancesProofs` is about two instances under any settings and bodies, with
`Separate` as hypothesis: their labels differ, and no object is ever wanted by
both. The code does not see to the second part, the operator has to.

| Theorem | States | Under |
|---|---|---|
| `InstancesCoexist` | `NoTrampling` | `Separate`, nobody else deletes |
| `SuccessNextToAnother` | `FirstSuccessMirrors` | `Separate`, no list or deletion fails, nobody else deletes |

A step of either instance is first reduced to its `Effect`: it writes an object
the instance claims, deletes one of its victims, or lists what has its label. The
invariant `ApartInv` says of each instance that neither its objects nor its
victims are claimed by the other, and that a victim does not have the other's
label. The part about victims is needed because a deletion is by name and its
list is stale by then. `EffectKeepsApart` proves once, for both sides, that an
effect keeps this and touches nothing of the other. So what a pass of the first
has written and listed (`PassInv`) survives the moves of the second.

The proofs about `Translate` are about every response, all settings and all label
functions, from these assumptions, each of which TLC evaluates on the instance:

- `PartsAssumption`, `SanitizedAssumption`: labels are sequences of strings, and
  what `dns_label` makes of an input is a function of the input;
- `NameAssumption`: `Name` has all names of services, routers and hosts;
- `RuleAssumption`: rules are finite sequences of tokens;
- `MiddlewareAssumption`: chains are finite, the fields of middlewares are
  strings or absent, and `Absent` is no string;
- `PathAssumption`: what a `PathPrefix` matches starts with the segments of its
  prefix. It is where the two readings of a prefix are taken to be one.

| Theorem | States | Under |
|---|---|---|
| `ProtectedRoutersAreGuarded` (`TranslateProofs`) | `Guarded` | |
| `DesiredSetIsClosed` (`TranslateProofs`) | `RefsResolve` | |
| `NoRouterIsLost` (`RoutingProofs`) | `EveryRouterKept` | |
| `RoutesLeadHome` (`RoutingProofs`) | `RoutedToOwnBackend` | |
| `TranslateTypes` (`ListenerProofs`) | `TypeOK` | |
| `ListenersStandSideBySide` (`ListenerProofs`) | `PortsExclusive` | HTTP and HTTPS ports differ |
| `RulesMeanTheSame` (`MeaningProofs`) | `RuleExact` | |
| `FiltersMeanTheSame` (`MeaningProofs`) | `ForwardedAsMeant` | |

The arguments:

- `Guarded`. The invariant `GuardInv` is stronger: each protected route is the
  target of the policy *named after it*. A step that replaces one route by
  another of the same name replaces the policy as well or leaves one that still
  targets that name; a step for another route cannot touch the policy, because
  policies of different routes have different names, cut or not
  (`PolicyNamesDiffer`); and the backend loops write no routes or policies
  (`EmittedKinds`).
- `RefsResolve` speaks of the end only. The invariant `RefInv` says of every
  moment that an indexed service has its backend in the set or is somebody else's
  Service (`EmissionResolves`), and that each route has everything but the
  ListenerSet, and its hosts and sections are recorded. Objects are replaced but
  never removed, so this stays.
- `EveryRouterKept`. `KeptInv` says it of the routers the loop has come to; a
  later router of other parts has another label, since a label that is cut ends
  with the hash of its input.
- `RoutedToOwnBackend`. `OwnInv` says that each service emitted so far still has
  the objects that were emitted for it: a later service with another label never
  writes one of its keys (`KeysApart`). The label of a service may begin with the
  name of a family, so keys of different families are told apart by the whole
  sequence and not by the infix.
- `PortsExclusive`. `ListenerInv` ties each TCP or UDP route to the ports its
  router claimed (`RouteClaims`) and keeps their sections apart. An HTTP listener
  has a name that starts with another word than those of TCP and UDP, and a port
  that they leave out.
- `RuleExact`. A usable rule has no token but predicates and `&&`, so the parser
  has come to all of it (`UsableIsConjunction`), and Traefik wants all of its
  predicates to hold (`ConjunctionMeans`). No induction is needed.
- `ForwardedAsMeant`. Types: only a redirectScheme middleware gives a redirect
  (`RawRedirects`), the merge passes it on (`RedirectsPassedOn`) and makes
  one filter of the others of a type (`MergedOnce`). Headers: merging keeps all of them (`MergedHeadersKept`),
  and when none is set twice so does Traefik. Host: the last one of the merge is
  the last one of the chain (`SameHosts`). Path: `MeantPath` is defined by
  recursion along the chain. It equals the end of a run (`MeantPathIsRun`), which
  stays where it is along middlewares that leave paths alone (`RunStays`), so only
  the one that changes the path counts (`SameStep`). Both facts about runs are by
  the least position that would break them (`LeastNatural`), which does without
  the induction theorems.

The proofs sharpened two statements and found a condition for a third.
`RuleExact` now asks for one path in a path predicate: of several the code reads
the first, and older versions of Traefik's rule language allow more.
`ForwardedAsMeant` now allows only the host to be set by several middlewares,
and a middleware to set a header once. `PortsExclusive` needs different ports
for HTTP and HTTPS, which the configuration does not check.

`ShimProofs` is about any number of tabs, sessions, tokens and pages and every
prefix. `ServedIsAuthorized` and `PageIsKept` rest on one invariant, `AuthInv`:
a request under way whose session is live now, or whose page is public, was to
be let through when it came in (`UnderWay`); a session that pangolin opens
meanwhile is one that no request carries. The two properties need each other,
because pangolin judges the page with the prefix taken away, which is the page
itself (`StripUndoesPrefix`). `TypeCorrect` gives the types.

`LoginsComplete` proves `ShimSpec /\ TabsGoOn => LoginCompletes`. Without faults a
step of a tab has one outcome at each await (`OwnStep`), and a step of another tab
harms neither the token in its URL nor the session that its request carries
(`OtherStep`); the first needs `TokensApart`, that a token is in one URL only. The
chain: refused, asking, a spent token rejected, the portal, a new token that is
still valid when it is exchanged, a cookie that pangolin accepts and that other
tabs can only replace by another such cookie, served. It has no cycle, so no
measure is needed, and it is the same for any number of tabs.

Only model-checked: `Progress` and `TabsGoOn`, that is, that fairness makes the
task, the handlers and the users go on (it takes `ENABLED`) and that a descending
pass ends (it takes induction); and `FetchBackoffSaturates`, for the induction on
the delay. The prover does neither. Every invariant and every action property of
a passing run is stated by a theorem, and every other liveness property follows
from `Progress` or `TabsGoOn` by one. What the proofs do not reach is below the
models: how text becomes tokens, parts and segments.

## 5. Seen, and not a run of its own

- When a response has no `ETag` the tag may be older than the digest, and a later
  304 for it is taken as "unchanged" (`reconcile.rs:99`). `any_state` excludes
  the tagged body for this reason.
- An object deleted by somebody else is not restored while the body is unchanged.
- When the sweep of HTTPRoutes fails and that of SecurityPolicies does not, an
  orphaned protected route loses its policy. Wanted routes do not
  (`WantedKeepCover`).
- An object that the API server rejects every time ends every pass at that
  object: what comes after it is neither applied nor collected.
- Kinds that a former setting wrote are not listed when the setting is off, so
  their objects stay.
- The delay after a failed reconciliation is doubled and then reset by the next
  good fetch, so a failing Kubernetes API is retried every second.
- Two `Host` predicates joined by `&&` are united, and the later of two path
  predicates counts.
- Of two middlewares that change the path the first counts, and a header that two
  middlewares set is listed twice. Two redirects become two filters of one type,
  which the API rejects.
- `ReplacePrefixMatch` under a rule with an exact or regular-expression path is
  rejected by the API.
- `deploy/README.md:71,77` says that `CONFIG_NAMESPACE` is required and
  `CONFIG_ENABLE_HTTPS_LISTENERS` is off by default; `src/config.rs:162,170` has
  `default` and on.
- A deletion is by name, after a list by label. If somebody else takes the name
  over in between, the new object is deleted. No run has such a writer.
- The ListenerSet is written under `dns_label` of `CONFIG_LISTENERSET_NAME` and
  referred to by the name as it is; with a name that `dns_label` changes no route
  is attached.
- Hosts such as `a.b` and `a-b` give two listeners of one name, and an IPv6
  target gives an EndpointSlice of type IPv4; the API server rejects both.

## 6. Not modelled

- Headers and the query in the shim beyond session and token: they are passed on.
- Reading the environment (`config.rs`): the settings that matter are constants
  (`Setting`, `Config`, `Prefix`, `MaxBackoff`); what is left is parsing.
- Wire types (`types.rs`, `envoy_gateway.rs`), the health server's HTTP side, the
  shim's binary, manifests and examples: I/O or static data without state of
  their own.
- Envoy Gateway and the validation rules of the Kubernetes API.

## 7. Plan

Done: `Controller`, its abstraction `Publisher` and the proof that the one
implements the other; `TwoInstances`; the shim with its paths; the translation
with names, middlewares and all families; theorems for every invariant and action
property of the passing runs, with `DesiredSetIsClosed` the link between
translation and loop, and convergence, shutdown and login from progress.

Left: `EdgeAuth`, that is, `Shim` behind the routes and policies that `Controller`
has put into the namespace; what a request can reach at each moment of a pass. The
`unguarded` run and `CoverIsKept` show its two sides separately.
