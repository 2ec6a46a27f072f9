--------------------------- MODULE TranslateProofs ---------------------------
(***************************************************************************)
(* What build_desired guarantees for every response and all settings.      *)
(***************************************************************************)
EXTENDS Translate, SequenceTheorems, TLAPS

BackendKinds == {"Service", "EndpointSlice", "Backend", "BackendTLSPolicy"}

(***************************************************************************)
(* A classification has one of the four classes that emit_backend knows    *)
(* (src/transform/backend.rs:402-437).                                     *)
(***************************************************************************)
LEMMA ClassKnown ==
  ASSUME NEW servers, NEW kind
  PROVE  classify_entries(servers, kind).class \in {"Ips", "ClusterDns", "Fqdn", "Empty"}
  BY DEF classify_entries, Classification, Empty

(***************************************************************************)
(* The emitters write backends and their policies only                     *)
(* (src/transform/backend.rs:178-770).                                     *)
(***************************************************************************)
LEMMA EmittedKinds ==
  ASSUME NEW name, NEW infix, NEW c, NEW skip_verify, NEW settings,
         c.class \in {"Ips", "ClusterDns", "Fqdn", "Empty"}
  PROVE  \A o \in emit_backend(name, infix, c, skip_verify, settings).objects :
           o[1].kind \in BackendKinds
<1> DEFINE Fine(e) == \A o \in e.objects : o[1].kind \in BackendKinds
<1>1. Fine(emit_envoy_backend(name, infix, c, skip_verify))
  BY DEF emit_envoy_backend, Emission, Own, Key, BackendKinds
<1>2. Fine(emit_synthesized_service(name, infix, c))
  BY DEF emit_synthesized_service, Emission, Own, Key, BackendKinds
<1>3. \A target : BackendTlsPolicy(name, infix, target)[1].kind \in BackendKinds
  BY DEF BackendTlsPolicy, Own, Key, BackendKinds
<1>4. Fine(emit_ip_backend(name, infix, c, skip_verify, settings))
  <2>1. CASE settings.backend_kind = "envoy-backend"
    BY <1>1, <2>1 DEF emit_ip_backend
  <2>2. CASE settings.backend_kind # "envoy-backend"
    BY <1>2, <1>3, <2>2 DEF emit_ip_backend, Emission
  <2> QED
    BY <2>1, <2>2
<1>5. Fine(emit_cluster_dns_backend(name, infix, c, skip_verify, settings))
  BY <1>1, <1>3 DEF emit_cluster_dns_backend, Emission
<1> QED
  BY <1>1, <1>4, <1>5 DEF emit_backend, Emission

(***************************************************************************)
(* Inserting objects leaves everything under other keys as it was.         *)
(***************************************************************************)
LEMMA InsertedElsewhere ==
  ASSUME NEW objects, NEW k, \A o \in objects : o[1] # k
  PROVE  /\ k \in DOMAIN Inserted(objects) <=> k \in DOMAIN desired
         /\ k \in DOMAIN desired => Inserted(objects)[k] = desired[k]
  BY DEF Inserted

(***************************************************************************)
(* ... and under a key given once, the object given.                       *)
(***************************************************************************)
LEMMA InsertedThere ==
  ASSUME NEW objects, NEW k, NEW content, <<k, content>> \in objects,
         \A o \in objects : o[1] = k => o = <<k, content>>
  PROVE  k \in DOMAIN Inserted(objects) /\ Inserted(objects)[k] = content
<1>1. \E o \in objects : o[1] = k
  OBVIOUS
<1>2. (CHOOSE o \in objects : o[1] = k) = <<k, content>>
  BY <1>1
<1> QED
  BY <1>1, <1>2 DEF Inserted

-----------------------------------------------------------------------------
(* Names.  Two inputs of dns_label become one label only when they are of  *)
(* the same parts: the hash keeps long ones apart.                         *)

(***************************************************************************)
(* What dns_label returns is a sequence of parts, cut or not               *)
(* (src/transform/naming.rs:28-42).                                        *)
(***************************************************************************)
LEMMA LabelIsSequence ==
  ASSUME NEW S, NEW parts \in Seq(S), NEW input \in Seq(S)
  PROVE  dns_label(parts, input) \in Seq(S)
<1>1. CASE Len(parts) <= MaxParts
  BY <1>1 DEF dns_label
<1>2. CASE Len(parts) > MaxParts
  <2>1. MaxParts \in Nat /\ SubSeq(parts, 1, MaxParts) \in Seq(S)
    BY <1>2, PartsAssumption
  <2> QED
    BY <1>2, <2>1, ConcatProperties DEF dns_label
<1> QED
  BY <1>1, <1>2, PartsAssumption

(***************************************************************************)
(* A label that is cut starts with what is kept and ends with the input.   *)
(***************************************************************************)
LEMMA CutLabel ==
  ASSUME NEW S, NEW parts \in Seq(S), NEW input \in Seq(S), Len(parts) > MaxParts
  PROVE  /\ Len(dns_label(parts, input)) = MaxParts + Len(input)
         /\ \A i \in 1 .. Len(input) : dns_label(parts, input)[MaxParts + i] = input[i]
<1> DEFINE kept == SubSeq(parts, 1, MaxParts)
<1>1. dns_label(parts, input) = kept \o input
  BY PartsAssumption DEF dns_label
<1>2. kept \in Seq(S) /\ Len(kept) = MaxParts
  BY PartsAssumption
<1> HIDE DEF kept
<1>3. Len(kept \o input) = MaxParts + Len(input)
  BY <1>2, ConcatProperties
<1>4. ASSUME NEW i \in 1 .. Len(input)
      PROVE  (kept \o input)[MaxParts + i] = input[i]
  BY <1>2, ConcatProperties
<1> QED
  BY <1>1, <1>3, <1>4

(***************************************************************************)
(* Labels that are the same are made of the same parts, cut or not, when   *)
(* the parts are a function of the input (src/transform/naming.rs:28-42).  *)
(***************************************************************************)
LEMMA LabelsDiffer ==
  ASSUME NEW S, NEW a \in Seq(S), NEW b \in Seq(S), NEW x \in Seq(S), NEW y \in Seq(S),
         Len(x) > 0, Len(y) > 0, x = y => a = b, dns_label(a, x) = dns_label(b, y)
  PROVE  a = b
<1>1. CASE Len(a) > MaxParts /\ Len(b) > MaxParts
  <2>1. Len(x) = Len(y)
    BY <1>1, CutLabel, PartsAssumption
  <2>2. \A i \in 1 .. Len(x) : x[i] = y[i]
    BY <1>1, <2>1, CutLabel
  <2> QED
    BY <2>1, <2>2
<1>2. CASE Len(a) <= MaxParts /\ Len(b) <= MaxParts
  BY <1>2 DEF dns_label
<1>3. CASE Len(a) > MaxParts /\ Len(b) <= MaxParts
  <2>1. dns_label(b, y) = b
    BY <1>3 DEF dns_label
  <2>2. Len(dns_label(a, x)) = MaxParts + Len(x)
    BY <1>3, CutLabel
  <2>3. Len(b) = MaxParts + Len(x)
    BY <2>1, <2>2
  <2> QED
    BY <1>3, <2>3, PartsAssumption
<1>4. CASE Len(a) <= MaxParts /\ Len(b) > MaxParts
  <2>1. dns_label(a, x) = a
    BY <1>4 DEF dns_label
  <2>2. Len(dns_label(b, y)) = MaxParts + Len(y)
    BY <1>4, CutLabel
  <2>3. Len(a) = MaxParts + Len(y)
    BY <2>1, <2>2
  <2> QED
    BY <1>4, <2>3, PartsAssumption
<1> QED
  BY <1>1, <1>2, <1>3, <1>4, PartsAssumption

(***************************************************************************)
(* A sequence can be told from the sequence that it ends.                  *)
(***************************************************************************)
LEMMA SameTail ==
  ASSUME NEW S, NEW p \in Seq(S), NEW a \in Seq(S), NEW b \in Seq(S), p \o a = p \o b
  PROVE  a = b
<1>1. Len(a) = Len(b)
  BY ConcatProperties
<1>2. \A i \in 1 .. Len(a) : a[i] = (p \o a)[Len(p) + i] /\ b[i] = (p \o b)[Len(p) + i]
  BY <1>1, ConcatProperties
<1> QED
  BY <1>1, <1>2

(***************************************************************************)
(* The same of labels that start with the same prefix.                     *)
(***************************************************************************)
LEMMA PrefixedLabelsDiffer ==
  ASSUME NEW S, NEW prefix \in Seq(S), Len(prefix) > 0,
         NEW a \in Seq(S), NEW b \in Seq(S), NEW x \in Seq(S), NEW y \in Seq(S),
         x = y => a = b,
         dns_label(prefix \o a, prefix \o x) = dns_label(prefix \o b, prefix \o y)
  PROVE  a = b
<1>1. ASSUME NEW s \in Seq(S)
      PROVE  prefix \o s \in Seq(S) /\ Len(prefix \o s) > 0
  <2>1. prefix \o s \in Seq(S) /\ Len(prefix \o s) = Len(prefix) + Len(s)
    BY ConcatProperties
  <2> QED
    BY <2>1
<1>2. ASSUME prefix \o x = prefix \o y
      PROVE  prefix \o a = prefix \o b
  <2>1. x = y
    BY <1>2, SameTail
  <2> QED
    BY <2>1
<1> DEFINE pa == prefix \o a
           pb == prefix \o b
           px == prefix \o x
           py == prefix \o y
<1>3. /\ pa \in Seq(S) /\ pb \in Seq(S) /\ px \in Seq(S) /\ py \in Seq(S)
      /\ Len(px) > 0 /\ Len(py) > 0 /\ dns_label(pa, px) = dns_label(pb, py)
      /\ px = py => pa = pb
  BY <1>1, <1>2
<1>4. pa = pb
  <2> HIDE DEF pa, pb, px, py
  <2> QED
    BY <1>3, LabelsDiffer
<1> QED
  BY <1>4, SameTail

\* Concatenation under a name that the provers do not look into.
Cat(s, t) == s \o t

(***************************************************************************)
(* Concatenation is associative.                                           *)
(***************************************************************************)
LEMMA CatAssociative ==
  ASSUME NEW S, NEW s \in Seq(S), NEW t \in Seq(S), NEW u \in Seq(S)
  PROVE  Cat(s, t) \in Seq(S) /\ Cat(Cat(s, t), u) = Cat(s, Cat(t, u))
  BY ConcatAssociative, ConcatProperties, SMT DEF Cat

(***************************************************************************)
(* The same of labels with an infix after the prefix.                      *)
(***************************************************************************)
LEMMA InfixedLabelsDiffer ==
  ASSUME NEW S, NEW prefix \in Seq(S), Len(prefix) > 0, NEW p \in Seq(S), NEW q \in Seq(S),
         NEW a \in Seq(S), NEW b \in Seq(S), NEW x \in Seq(S), NEW y \in Seq(S),
         Cat(p, x) = Cat(q, y) => Cat(p, a) = Cat(q, b),
         dns_label(Cat(Cat(prefix, p), a), Cat(Cat(prefix, p), x))
           = dns_label(Cat(Cat(prefix, q), b), Cat(Cat(prefix, q), y))
  PROVE  Cat(p, a) = Cat(q, b)
<1>1. dns_label(Cat(prefix, Cat(p, a)), Cat(prefix, Cat(p, x)))
        = dns_label(Cat(prefix, Cat(q, b)), Cat(prefix, Cat(q, y)))
  BY CatAssociative
<1>2. /\ Cat(p, a) \in Seq(S) /\ Cat(q, b) \in Seq(S)
      /\ Cat(p, x) \in Seq(S) /\ Cat(q, y) \in Seq(S)
  BY CatAssociative
<1>3. ASSUME NEW c \in Seq(S), NEW d \in Seq(S), NEW u \in Seq(S), NEW v \in Seq(S),
             u = v => c = d,
             dns_label(Cat(prefix, c), Cat(prefix, u)) = dns_label(Cat(prefix, d), Cat(prefix, v))
      PROVE  c = d
  BY <1>3, PrefixedLabelsDiffer DEF Cat
<1> QED
  BY <1>1, <1>2, <1>3

\* What may follow the base of a name: the infix of the family.
Infixes == {<<>>, <<"tcp">>, <<"udp">>}

\* The parts of names, with the literals that the code puts in front.
AnyPart(base) == STRING \cup {base, "tcp", "udp"}

(***************************************************************************)
(* Parts and prefixes are sequences over one set.                          *)
(***************************************************************************)
LEMMA PartsAreSequences ==
  ASSUME NEW base
  PROVE  /\ <<base>> \in Seq(AnyPart(base))
         /\ Infixes \subseteq Seq(AnyPart(base))
         /\ \A n \in Name : Parts[n] \in Seq(AnyPart(base)) /\ Verbatim[n] \in Seq(AnyPart(base))
<1>1. <<base>> \in Seq(AnyPart(base))
  BY DEF AnyPart
<1>2. /\ <<>> \in Seq(AnyPart(base)) /\ <<"tcp">> \in Seq(AnyPart(base))
      /\ <<"udp">> \in Seq(AnyPart(base))
  BY DEF AnyPart
<1>3. ASSUME NEW n \in Name
      PROVE  Parts[n] \in Seq(AnyPart(base)) /\ Verbatim[n] \in Seq(AnyPart(base))
  <2>1. /\ \A i \in 1 .. Len(Parts[n]) : Parts[n][i] \in AnyPart(base)
        /\ \A i \in 1 .. Len(Verbatim[n]) : Verbatim[n][i] \in AnyPart(base)
    BY PartsAssumption DEF AnyPart
  <2> QED
    BY <2>1, PartsAssumption
<1> QED
  BY <1>1, <1>2, <1>3 DEF Infixes

(***************************************************************************)
(* Names that become one label under one base are of the same parts, with  *)
(* the infix of their family in front (src/transform/backend.rs:119-123).  *)
(***************************************************************************)
LEMMA SameLabelSameParts ==
  ASSUME NEW base, NEW p \in Infixes, NEW q \in Infixes, NEW n \in Name, NEW m \in Name,
         Label(<<base>> \o p, n) = Label(<<base>> \o q, m)
  PROVE  p \o Parts[n] = q \o Parts[m]
<1> DEFINE S == AnyPart(base)
           prefix == <<base>>
<1>1. /\ prefix \in Seq(S) /\ p \in Seq(S) /\ q \in Seq(S)
      /\ Parts[n] \in Seq(S) /\ Parts[m] \in Seq(S)
      /\ Verbatim[n] \in Seq(S) /\ Verbatim[m] \in Seq(S)
  BY PartsAreSequences
<1>2. Len(prefix) > 0
  OBVIOUS
<1>3. dns_label(Cat(Cat(prefix, p), Parts[n]), Cat(Cat(prefix, p), Verbatim[n]))
        = dns_label(Cat(Cat(prefix, q), Parts[m]), Cat(Cat(prefix, q), Verbatim[m]))
  BY DEF Label, Cat
<1>4. Cat(p, Verbatim[n]) = Cat(q, Verbatim[m]) => Cat(p, Parts[n]) = Cat(q, Parts[m])
  BY SanitizedAssumption DEF Infixes, Cat
<1>5. Cat(p, Parts[n]) = Cat(q, Parts[m])
  <2> DEFINE a == Parts[n]
             b == Parts[m]
             x == Verbatim[n]
             y == Verbatim[m]
  <2>1. /\ prefix \in Seq(S) /\ p \in Seq(S) /\ q \in Seq(S) /\ Len(prefix) > 0
        /\ a \in Seq(S) /\ b \in Seq(S) /\ x \in Seq(S) /\ y \in Seq(S)
        /\ Cat(p, x) = Cat(q, y) => Cat(p, a) = Cat(q, b)
        /\ dns_label(Cat(Cat(prefix, p), a), Cat(Cat(prefix, p), x))
              = dns_label(Cat(Cat(prefix, q), b), Cat(Cat(prefix, q), y))
    BY <1>1, <1>2, <1>3, <1>4
  <2> HIDE DEF S, prefix, a, b, x, y
  <2>2. Cat(p, a) = Cat(q, b)
    BY <2>1, InfixedLabelsDiffer
  <2> QED
    BY <2>2 DEF a, b
<1> QED
  BY <1>5 DEF Cat

(***************************************************************************)
(* ... and so are two HTTP routers, or two hosts.                          *)
(***************************************************************************)
LEMMA SameLabel ==
  ASSUME NEW base, NEW n \in Name, NEW m \in Name, Label(<<base>>, n) = Label(<<base>>, m)
  PROVE  Parts[n] = Parts[m]
<1> DEFINE S == AnyPart(base)
           prefix == <<base>>
           none == <<>>
<1>1. /\ prefix \in Seq(S) /\ none \in Infixes
      /\ Parts[n] \in Seq(S) /\ Parts[m] \in Seq(S)
  BY PartsAreSequences DEF Infixes
<1>2. Len(prefix) > 0
  OBVIOUS
<1>3. dns_label(prefix \o Parts[n], prefix \o Verbatim[n])
        = dns_label(prefix \o Parts[m], prefix \o Verbatim[m])
  BY DEF Label
<1>4. Verbatim[n] = Verbatim[m] => Parts[n] = Parts[m]
  <2>1. none \o Verbatim[n] = none \o Verbatim[m] => none \o Parts[n] = none \o Parts[m]
    BY SanitizedAssumption
  <2>2. none \o Parts[n] = Parts[n] /\ none \o Parts[m] = Parts[m]
    BY <1>1, ConcatEmptySeq
  <2> QED
    BY <2>1, <2>2
<1>5. Verbatim[n] \in Seq(S) /\ Verbatim[m] \in Seq(S)
  BY PartsAreSequences
<1> HIDE DEF S, prefix
<1> QED
  BY <1>1, <1>2, <1>3, <1>4, <1>5, PrefixedLabelsDiffer

-----------------------------------------------------------------------------
(* Protected routers.  A policy may outlive the router it was written for, *)
(* when a later one takes the name of the route; what has to be excluded   *)
(* is that a policy is taken over by the policy of another route.          *)

\* The parts of the name of a route.  "hr" is named because the provers do
\* not decide whether a literal is a STRING.
Part == STRING \cup {"hr"}

\* The key of a route carries a name that is a sequence.
RouteKeys ==
  \A k \in DOMAIN desired :
    k.kind = "HTTPRoute" => k = Key("HTTPRoute", k.name) /\ k.name \in Seq(Part)

\* Every protected route is the target of the policy named after it.
PolicyInPlace ==
  ~cfg.allow_unauthenticated_routes =>
    \A k \in DOMAIN desired :
      k.kind = "HTTPRoute" /\ requires_badger_auth(conf.http.routers[desired[k].of]) =>
        PolicyOf(k) \in DOMAIN desired /\ desired[PolicyOf(k)].target = k

GuardInv == RouteKeys /\ PolicyInPlace

(***************************************************************************)
(* Different routes have policies of different names                       *)
(* (src/transform/ext_authz.rs:27).                                        *)
(***************************************************************************)
LEMMA PolicyNamesDiffer ==
  ASSUME NEW a \in Seq(Part), NEW b \in Seq(Part),
         dns_label(<<"sp">> \o a, <<"sp">> \o a) = dns_label(<<"sp">> \o b, <<"sp">> \o b)
  PROVE  a = b
<1> DEFINE prefix == <<"sp">>
           P == Part \cup {"sp"}
<1>1. prefix \in Seq(P) /\ Len(prefix) = 1 /\ a \in Seq(P) /\ b \in Seq(P)
  OBVIOUS
<1> HIDE DEF prefix, P
<1>2. ASSUME NEW name \in Seq(P)
      PROVE  prefix \o name \in Seq(P) /\ Len(prefix \o name) > 0
  <2>1. prefix \o name \in Seq(P) /\ Len(prefix \o name) = Len(prefix) + Len(name)
    BY <1>1, ConcatProperties
  <2> QED
    BY <1>1, <2>1
<1>3. prefix \o a = prefix \o b
  BY <1>1, <1>2, LabelsDiffer DEF prefix
<1> QED
  BY <1>1, <1>3, SameTail

(***************************************************************************)
(* A step that writes neither HTTPRoutes nor SecurityPolicies.             *)
(***************************************************************************)
LEMMA OtherKindsStep ==
  ASSUME GuardInv, UNCHANGED <<cfg, conf>>, NEW objects, desired' = Inserted(objects),
         \A o \in objects : o[1].kind \notin {"HTTPRoute", "SecurityPolicy"}
  PROVE  GuardInv'
<1>1. \A k : k.kind \in {"HTTPRoute", "SecurityPolicy"} =>
        /\ k \in DOMAIN desired' <=> k \in DOMAIN desired
        /\ k \in DOMAIN desired => desired'[k] = desired[k]
  BY InsertedElsewhere
<1>2. RouteKeys'
  BY <1>1 DEF GuardInv, RouteKeys
<1>3. \A k : PolicyOf(k).kind = "SecurityPolicy"
  BY DEF PolicyOf, Key
<1>4. ASSUME ~cfg.allow_unauthenticated_routes, NEW k \in DOMAIN desired', k.kind = "HTTPRoute",
             requires_badger_auth(conf.http.routers[desired'[k].of])
      PROVE  PolicyOf(k) \in DOMAIN desired' /\ desired'[PolicyOf(k)].target = k
  <2>1. k \in DOMAIN desired /\ desired'[k] = desired[k]
    BY <1>1, <1>4
  <2>2. PolicyOf(k) \in DOMAIN desired /\ desired[PolicyOf(k)].target = k
    BY <1>4, <2>1 DEF GuardInv, PolicyInPlace
  <2> QED
    BY <1>1, <1>3, <2>2
<1>5. PolicyInPlace'
  BY <1>4 DEF PolicyInPlace, requires_badger_auth, PolicyOf
<1> QED
  BY <1>2, <1>5 DEF GuardInv

(***************************************************************************)
(* build_routes writes the policy with the route it protects, and never    *)
(* another policy of that name (src/transform/route.rs:54-78, 174-180).    *)
(***************************************************************************)
LEMMA BuildRouteStep ==
  ASSUME GuardInv, NEW name \in Name, BuildRoute(name)
  PROVE  GuardInv'
<1> DEFINE router == conf.http.routers[name]
           route  == HttpRoute(name, router)
           key    == RouteKey(name)
           policy == PolicyOf(key)
           objects == {<<key, route>>} \cup {<<p, [target |-> key]>> : p \in route.guards}
<1>1. desired' = Inserted(objects) /\ ~Unwanted(router) /\ UNCHANGED <<cfg, conf>>
  BY DEF BuildRoute
<1>2. route.guards = IF requires_badger_auth(router) /\ cfg.ext_authz THEN {policy} ELSE {}
  BY DEF HttpRoute
<1>3. key = Key("HTTPRoute", key.name) /\ key.name \in Seq(Part) /\ key.kind = "HTTPRoute"
  <2> DEFINE prefix == <<"hr">>
  <2>1. prefix \in Seq(Part)
    <3>1. Len(prefix) = 1 /\ prefix[1] \in Part
      BY DEF Part
    <3>2. prefix = [i \in 1 .. 1 |-> "hr"]
      OBVIOUS
    <3> QED
      BY <3>1, <3>2
  <2>2. Parts[name] \in Seq(Part) /\ Verbatim[name] \in Seq(Part)
    <3>1. /\ \A i \in 1 .. Len(Parts[name]) : Parts[name][i] \in Part
          /\ \A i \in 1 .. Len(Verbatim[name]) : Verbatim[name][i] \in Part
      BY PartsAssumption DEF Part
    <3> QED
      BY <3>1, PartsAssumption
  <2>3. prefix \o Parts[name] \in Seq(Part) /\ prefix \o Verbatim[name] \in Seq(Part)
    <3> HIDE DEF prefix
    <3> QED
      BY <2>1, <2>2, ConcatProperties
  <2>4. Label(prefix, name) \in Seq(Part)
    <3> HIDE DEF prefix
    <3> QED
      BY <2>3, LabelIsSequence DEF Label
  <2> QED
    BY <2>4 DEF RouteKey, Key
<1>4. policy.kind = "SecurityPolicy" /\ policy # key
  BY DEF PolicyOf, Key, RouteKey
<1>5. key \in DOMAIN desired' /\ desired'[key] = route
  <2>1. \A o \in objects : o[1] = key => o = <<key, route>>
    BY <1>2, <1>4
  <2>2. <<key, route>> \in objects
    OBVIOUS
  <2> HIDE DEF objects, route, key
  <2> QED
    BY <1>1, <2>1, <2>2, InsertedThere
<1>6. ASSUME policy \in route.guards
      PROVE  policy \in DOMAIN desired' /\ desired'[policy].target = key
  <2>1. <<policy, [target |-> key]>> \in objects
    BY <1>6
  <2>2. \A o \in objects : o[1] = policy => o = <<policy, [target |-> key]>>
    BY <1>2, <1>4
  <2>3. policy \in DOMAIN desired' /\ desired'[policy] = [target |-> key]
    <3> HIDE DEF objects, route, key, policy
    <3> QED
      BY <1>1, <2>1, <2>2, InsertedThere
  <2> QED
    BY <2>3
<1>7. \A k : k # key /\ k # policy =>
        /\ k \in DOMAIN desired' <=> k \in DOMAIN desired
        /\ k \in DOMAIN desired => desired'[k] = desired[k]
  <2>1. \A o \in objects : o[1] \in {key, policy}
    BY <1>2
  <2> QED
    BY <1>1, <2>1, InsertedElsewhere
<1>8. RouteKeys'
  BY <1>3, <1>4, <1>7 DEF GuardInv, RouteKeys
<1>9. ASSUME ~cfg.allow_unauthenticated_routes, NEW k \in DOMAIN desired', k.kind = "HTTPRoute",
             requires_badger_auth(conf.http.routers[desired'[k].of])
      PROVE  PolicyOf(k) \in DOMAIN desired' /\ desired'[PolicyOf(k)].target = k
  <2>1. CASE k = key
    <3>1. requires_badger_auth(router)
      BY <1>5, <1>9, <2>1 DEF HttpRoute
    <3>2. cfg.ext_authz
      BY <1>1, <1>9, <3>1 DEF Unwanted
    <3> QED
      BY <1>2, <1>6, <2>1, <3>1, <3>2
  <2>2. CASE k # key
    <3>1. k \in DOMAIN desired /\ desired'[k] = desired[k]
      BY <1>4, <1>7, <1>9, <2>2
    <3>2. PolicyOf(k) \in DOMAIN desired /\ desired[PolicyOf(k)].target = k
      BY <1>9, <3>1 DEF GuardInv, PolicyInPlace
    <3>3. PolicyOf(k) # policy
      <4>1. k = Key("HTTPRoute", k.name) /\ k.name \in Seq(Part)
        BY <1>9, <3>1 DEF GuardInv, RouteKeys
      <4>2. ASSUME PolicyOf(k) = policy
            PROVE  k.name = key.name
        <5>1. dns_label(<<"sp">> \o k.name, <<"sp">> \o k.name)
                = dns_label(<<"sp">> \o key.name, <<"sp">> \o key.name)
          BY <4>2 DEF PolicyOf, Key
        <5> QED
          BY <1>3, <4>1, <5>1, PolicyNamesDiffer
      <4> QED
        BY <1>3, <2>2, <4>1, <4>2
    <3>4. PolicyOf(k) # key
      BY DEF PolicyOf, Key, RouteKey
    <3> QED
      BY <1>7, <3>2, <3>3, <3>4
  <2> QED
    BY <2>1, <2>2
<1>10. PolicyInPlace'
  BY <1>1, <1>9 DEF PolicyInPlace, requires_badger_auth, PolicyOf
<1> QED
  BY <1>8, <1>10 DEF GuardInv

(***************************************************************************)
(* Every step of build_desired keeps protected routes guarded.             *)
(***************************************************************************)
LEMMA NextGuardInv == GuardInv /\ [Next]_vars => GuardInv'
<1> SUFFICES ASSUME GuardInv, [Next]_vars
             PROVE  GuardInv'
  OBVIOUS
<1>1. CASE UNCHANGED <<cfg, conf, desired>>
  BY <1>1 DEF GuardInv, RouteKeys, PolicyInPlace, requires_badger_auth, PolicyOf
<1>2. ASSUME NEW name \in Name, BuildBackend(name)
      PROVE  GuardInv'
  <2> DEFINE service == Family.services[name]
             class == classify_entries(service.servers, cfg.backend_kind)
             objects == emit_backend(name, Infix, class, SkipsVerify(service), cfg).objects
  <2>1. desired' = Inserted(objects) /\ UNCHANGED <<cfg, conf>>
    BY <1>2 DEF BuildBackend
  <2>2. \A o \in objects : o[1].kind \in BackendKinds
    BY ClassKnown, EmittedKinds
  <2> QED
    BY <2>1, <2>2, OtherKindsStep DEF BackendKinds
<1>3. ASSUME NEW name \in Name, BuildRoute(name)
      PROVE  GuardInv'
  BY <1>3, BuildRouteStep
<1>4. ASSUME NEW name \in Name, BuildL4Route(name)
      PROVE  GuardInv'
  <2>1. PICK content : desired' = Inserted({<<L4Key(name), content>>}) /\ UNCHANGED <<cfg, conf>>
    BY <1>4 DEF BuildL4Route
  <2>2. L4Key(name).kind \notin {"HTTPRoute", "SecurityPolicy"}
    BY DEF L4Key, Key
  <2> QED
    BY <2>1, <2>2, OtherKindsStep
<1>5. CASE BuildListenerSet
  <2>1. PICK content :
          desired' = Inserted({<<ListenerSetKey, content>>}) /\ UNCHANGED <<cfg, conf>>
    BY <1>5 DEF BuildListenerSet
  <2>2. ListenerSetKey.kind \notin {"HTTPRoute", "SecurityPolicy"}
    BY DEF ListenerSetKey, Key
  <2> QED
    BY <2>1, <2>2, OtherKindsStep
<1> QED
  BY <1>1, <1>2, <1>3, <1>4, <1>5
     DEF Next, vars, NextStage, SkipRoute, SkipL4Route, Returned

(***************************************************************************)
(* For every response and all settings: while                              *)
(* CONFIG_ALLOW_UNAUTHENTICATED_ROUTES is off, a protected router never    *)
(* becomes an HTTPRoute that no SecurityPolicy targets, whatever names     *)
(* collide (src/transform/route.rs:54-78, 174-180).                        *)
(***************************************************************************)
THEOREM ProtectedRoutersAreGuarded == TranslateSpec => []Guarded
<1>1. Init => GuardInv
  <2>1. DOMAIN <<>> = {}
    OBVIOUS
  <2> QED
    BY <2>1 DEF Init, GuardInv, RouteKeys, PolicyInPlace
<1>2. GuardInv => Guarded
  <2> SUFFICES ASSUME GuardInv, ~cfg.allow_unauthenticated_routes, NEW k \in Routes,
                      k.kind = "HTTPRoute",
                      requires_badger_auth(conf.http.routers[desired[k].of])
               PROVE  \E p \in DOMAIN desired : p.kind = "SecurityPolicy" /\ desired[p].target = k
    BY DEF Guarded
  <2>1. PolicyOf(k) \in DOMAIN desired /\ desired[PolicyOf(k)].target = k
    BY DEF GuardInv, PolicyInPlace, Routes
  <2>2. PolicyOf(k).kind = "SecurityPolicy"
    BY DEF PolicyOf, Key
  <2> QED
    BY <2>1, <2>2
<1> QED
  BY <1>1, <1>2, NextGuardInv, PTL DEF TranslateSpec
-----------------------------------------------------------------------------
(* References.  The objects of build_desired only become more, but they    *)
(* are replaced under way, and the ListenerSet comes last.                 *)

\* A route has what it refers to, except for the ListenerSet, which comes last.
RouteResolves(k) ==
  /\ desired[k].refs \subseteq DOMAIN desired \cup {ParentRef}
  /\ k.kind = "HTTPRoute" => /\ desired[k].guards \subseteq DOMAIN desired
                             /\ desired[k].parsed.hosts \subseteq hosts
  /\ k.kind # "HTTPRoute" => desired[k].sections \subseteq {l.name : l \in listeners}

\* The backend of an indexed service is there, or is somebody else's Service.
IndexResolves ==
  \A n \in DOMAIN index : index[n].key.kind # "ExistingService" => index[n].key \in DOMAIN desired

ListenerSetBuilt ==
  stage = "done" => /\ ListenerSetKey \in DOMAIN desired
                    /\ desired[ListenerSetKey].listeners = HttpListeners \cup listeners

RefInv ==
  /\ \E i \in DOMAIN Stages : Stages[i] = stage
  /\ IndexResolves
  /\ \A k \in Routes : RouteResolves(k)
  /\ ListenerSetBuilt

(***************************************************************************)
(* The reference that an emitter returns is to an object it has written or *)
(* to a Service that exists (src/transform/backend.rs:178-770).            *)
(***************************************************************************)
LEMMA EmissionResolves ==
  ASSUME NEW name, NEW infix, NEW c, NEW skip_verify, NEW settings,
         c.class \in {"Ips", "ClusterDns", "Fqdn", "Empty"}
  PROVE  LET e == emit_backend(name, infix, c, skip_verify, settings)
         IN  \/ e.resolved = None
             \/ e.resolved.key.kind = "ExistingService"
             \/ \E o \in e.objects : o[1] = e.resolved.key
<1> DEFINE Fine(e) == \/ e.resolved.key.kind = "ExistingService"
                      \/ \E o \in e.objects : o[1] = e.resolved.key
<1>1. Fine(emit_envoy_backend(name, infix, c, skip_verify))
  BY DEF emit_envoy_backend, Emission, Resolved
<1>2. Fine(emit_synthesized_service(name, infix, c))
  BY DEF emit_synthesized_service, Emission, Resolved
<1>3. Fine(emit_ip_backend(name, infix, c, skip_verify, settings))
  <2>1. CASE settings.backend_kind = "envoy-backend"
    BY <1>1, <2>1 DEF emit_ip_backend
  <2>2. CASE settings.backend_kind # "envoy-backend"
    BY <1>2, <2>2 DEF emit_ip_backend, Emission
  <2> QED
    BY <2>1, <2>2
<1>4. Fine(emit_cluster_dns_backend(name, infix, c, skip_verify, settings))
  BY <1>1 DEF emit_cluster_dns_backend, Emission, Resolved, Key
<1> QED
  BY <1>1, <1>3, <1>4 DEF emit_backend, Emission

(***************************************************************************)
(* Inserting adds the keys of the objects and takes no key away.           *)
(***************************************************************************)
LEMMA InsertedKeys ==
  ASSUME NEW objects
  PROVE  DOMAIN Inserted(objects) = DOMAIN desired \cup {o[1] : o \in objects}
  BY DEF Inserted

(***************************************************************************)
(* ... and of a single object that is its key and content.                 *)
(***************************************************************************)
LEMMA InsertedOne ==
  ASSUME NEW k, NEW content
  PROVE  /\ DOMAIN Inserted({<<k, content>>}) = DOMAIN desired \cup {k}
         /\ Inserted({<<k, content>>})[k] = content
<1> DEFINE one == {<<k, content>>}
<1>1. <<k, content>> \in one /\ \A o \in one : o = <<k, content>> /\ o[1] = k
  OBVIOUS
<1> HIDE DEF one
<1>2. {o[1] : o \in one} = {k}
  BY <1>1
<1>3. DOMAIN Inserted(one) = DOMAIN desired \cup {k}
  BY <1>2, InsertedKeys
<1>4. Inserted(one)[k] = content
  BY <1>1, InsertedThere
<1> QED
  BY <1>3, <1>4 DEF one

(***************************************************************************)
(* A route that is not written again keeps what it refers to, since the    *)
(* maps, the hosts and the listeners only grow.                            *)
(***************************************************************************)
LEMMA RouteStillResolves ==
  ASSUME RefInv, NEW objects, desired' = Inserted(objects), cfg' = cfg,
         hosts \subseteq hosts', listeners \subseteq listeners',
         NEW k \in Routes', \A o \in objects : o[1] # k
  PROVE  RouteResolves(k)'
<1>1. k \in Routes /\ desired'[k] = desired[k]
  BY InsertedElsewhere DEF Routes
<1>2. RouteResolves(k)
  BY <1>1 DEF RefInv
<1>3. DOMAIN desired \subseteq DOMAIN desired' /\ ParentRef' = ParentRef
  BY InsertedKeys DEF ParentRef
<1> QED
  BY <1>1, <1>2, <1>3 DEF RouteResolves

(***************************************************************************)
(* A step that writes no route and leaves hosts and listeners alone.       *)
(***************************************************************************)
LEMMA NoRouteStep ==
  ASSUME RefInv, NEW objects, desired' = Inserted(objects), cfg' = cfg,
         hosts' = hosts, listeners' = listeners,
         \A o \in objects : o[1].kind \notin RouteKinds
  PROVE  \A k \in Routes' : RouteResolves(k)'
<1> SUFFICES ASSUME NEW k \in Routes'
             PROVE  RouteResolves(k)'
  OBVIOUS
<1>1. k.kind \in RouteKinds
  BY DEF Routes
<1> QED
  BY <1>1, RouteStillResolves

(***************************************************************************)
(* build_backends: the index gains a service whose backend was written.    *)
(***************************************************************************)
LEMMA BuildBackendResolves ==
  ASSUME RefInv, NEW name \in Name, BuildBackend(name)
  PROVE  RefInv'
<1> DEFINE service == Family.services[name]
           class == classify_entries(service.servers, cfg.backend_kind)
           e == emit_backend(name, Infix, class, SkipsVerify(service), cfg)
<1>1. /\ desired' = Inserted(e.objects)
      /\ index' = IF e.resolved = None THEN index
                  ELSE [n \in DOMAIN index \cup {name} |->
                          IF n = name THEN e.resolved ELSE index[n]]
      /\ UNCHANGED <<cfg, stage, hosts, listeners>>
      /\ stage # "done"
  BY DEF BuildBackend
<1>2. \A o \in e.objects : o[1].kind \in BackendKinds
  BY ClassKnown, EmittedKinds
<1>3. \/ e.resolved = None
      \/ e.resolved.key.kind = "ExistingService"
      \/ \E o \in e.objects : o[1] = e.resolved.key
  BY ClassKnown, EmissionResolves
<1> HIDE DEF e
<1>4. \A k \in Routes' : RouteResolves(k)'
  BY <1>1, <1>2, NoRouteStep DEF BackendKinds, RouteKinds
<1>5. DOMAIN desired' = DOMAIN desired \cup {o[1] : o \in e.objects}
  BY <1>1, InsertedKeys
<1>6. IndexResolves'
  <2> SUFFICES ASSUME NEW n \in DOMAIN index', index'[n].key.kind # "ExistingService"
               PROVE  index'[n].key \in DOMAIN desired'
    BY DEF IndexResolves
  <2>1. CASE n \in DOMAIN index /\ index'[n] = index[n]
    BY <1>5, <2>1 DEF RefInv, IndexResolves
  <2>2. CASE e.resolved # None /\ index'[n] = e.resolved
    BY <1>3, <1>5, <2>2
  <2> QED
    BY <1>1, <2>1, <2>2
<1> QED
  BY <1>1, <1>4, <1>6 DEF RefInv, ListenerSetBuilt

(***************************************************************************)
(* build_routes: the new route refers to the ListenerSet, to an indexed    *)
(* backend and to the policy written with it, and its hosts are recorded.  *)
(***************************************************************************)
LEMMA BuildRouteResolves ==
  ASSUME RefInv, NEW name \in Name, BuildRoute(name)
  PROVE  RefInv'
<1> DEFINE router == conf.http.routers[name]
           route == HttpRoute(name, router)
           key == RouteKey(name)
           policies == {<<p, [target |-> key]>> : p \in route.guards}
           objects == {<<key, route>>} \cup policies
<1>1. /\ ~Unwanted(router)
      /\ desired' = Inserted(objects)
      /\ hosts' = hosts \cup route.parsed.hosts
      /\ UNCHANGED <<cfg, stage, index, listeners>>
      /\ stage # "done"
  BY DEF BuildRoute
<1>2. key.kind = "HTTPRoute" /\ \A o \in policies : o[1].kind = "SecurityPolicy"
  BY DEF RouteKey, Key, HttpRoute, PolicyOf
<1>3. \A o \in objects : o[1] = key => o = <<key, route>>
  BY <1>2
<1>4. DOMAIN desired' = DOMAIN desired \cup {o[1] : o \in objects}
  BY <1>1, InsertedKeys
<1>5. desired'[key] = route
  <2>1. <<key, route>> \in objects
    OBVIOUS
  <2> HIDE DEF objects, route, key
  <2> QED
    BY <1>1, <1>3, <2>1, InsertedThere
<1>6. RouteResolves(key)'
  <2>1. route.refs \subseteq DOMAIN desired \cup {ParentRef}
    <3>1. router.service \in DOMAIN index
      BY <1>1 DEF Unwanted
    <3>2. Refs(index[router.service]) \subseteq DOMAIN desired
      BY <3>1 DEF RefInv, IndexResolves, Refs
    <3> QED
      BY <3>2 DEF HttpRoute
  <2>2. ASSUME NEW p \in route.guards
        PROVE  p \in DOMAIN desired'
    <3>1. <<p, [target |-> key]>> \in objects /\ <<p, [target |-> key]>>[1] = p
      OBVIOUS
    <3> HIDE DEF objects
    <3> QED
      BY <1>4, <3>1
  <2>3. ParentRef' = ParentRef
    BY <1>1 DEF ParentRef
  <2> HIDE DEF route
  <2> QED
    BY <1>1, <1>2, <1>4, <1>5, <2>1, <2>2, <2>3 DEF RouteResolves
<1>7. ASSUME NEW k \in Routes', k # key
      PROVE  RouteResolves(k)'
  <2>1. k.kind # "SecurityPolicy"
    BY DEF Routes, RouteKinds
  <2>2. \A o \in objects : o[1] # k
    BY <1>2, <1>7, <2>1
  <2> QED
    BY <1>1, <2>2, RouteStillResolves
<1>8. IndexResolves'
  BY <1>1, <1>4 DEF RefInv, IndexResolves
<1> QED
  BY <1>1, <1>6, <1>7, <1>8 DEF RefInv, ListenerSetBuilt

(***************************************************************************)
(* build_l4: the new route refers to the ListenerSet, to an indexed        *)
(* backend and to sections whose listeners are recorded.                   *)
(***************************************************************************)
LEMMA BuildL4RouteResolves ==
  ASSUME RefInv, NEW name \in Name, BuildL4Route(name)
  PROVE  RefInv'
<1> DEFINE router == Family.routers[name]
           sections == {Listener(<<Infix, p>>, Infix, p, None) : p \in UsablePorts(router)}
           key == L4Key(name)
           route == L4Route(name, index[router.service], sections)
           objects == {<<key, route>>}
<1>1. /\ ~UnwantedL4(router)
      /\ desired' = Inserted(objects)
      /\ listeners' = listeners \cup sections
      /\ UNCHANGED <<cfg, stage, index, hosts>>
      /\ stage # "done"
  BY DEF BuildL4Route
<1>2. key.kind # "HTTPRoute"
  BY DEF L4Key, Key
<1>3. DOMAIN desired' = DOMAIN desired \cup {key}
  BY <1>1, InsertedOne
<1>4. desired'[key] = route
  BY <1>1, InsertedOne
<1>5. ASSUME NEW k, k = key
      PROVE  RouteResolves(k)'
  <2>1. route.refs \subseteq DOMAIN desired \cup {ParentRef}
    <3>1. router.service \in DOMAIN index
      BY <1>1 DEF UnwantedL4
    <3>2. Refs(index[router.service]) \subseteq DOMAIN desired
      BY <3>1 DEF RefInv, IndexResolves, Refs
    <3> QED
      BY <3>2 DEF L4Route
  <2>2. route.sections \subseteq {l.name : l \in listeners'}
    BY <1>1 DEF L4Route
  <2>3. ParentRef' = ParentRef
    BY <1>1 DEF ParentRef
  <2> HIDE DEF route
  <2> QED
    BY <1>2, <1>3, <1>4, <1>5, <2>1, <2>2, <2>3 DEF RouteResolves
<1>6. ASSUME NEW k \in Routes', k # key
      PROVE  RouteResolves(k)'
  <2>1. \A o \in objects : o[1] # k
    BY <1>6
  <2> HIDE DEF objects
  <2> QED
    BY <1>1, <2>1, RouteStillResolves
<1>7. IndexResolves'
  BY <1>1, <1>3 DEF RefInv, IndexResolves
<1> QED
  BY <1>1, <1>5, <1>6, <1>7 DEF RefInv, ListenerSetBuilt

(***************************************************************************)
(* build_listener_set: the ListenerSet has all listeners.                  *)
(***************************************************************************)
LEMMA BuildListenerSetResolves == RefInv /\ BuildListenerSet => RefInv'
<1> SUFFICES ASSUME RefInv, BuildListenerSet
             PROVE  RefInv'
  OBVIOUS
<1> DEFINE content == [listeners |-> HttpListeners \cup listeners]
           objects == {<<ListenerSetKey, content>>}
<1>1. /\ desired' = Inserted(objects)
      /\ stage' = "done"
      /\ UNCHANGED <<cfg, index, hosts, https_hosts, listeners>>
  BY DEF BuildListenerSet
<1>2. ListenerSetKey.kind \notin RouteKinds
  BY DEF ListenerSetKey, Key, RouteKinds
<1>3. \A k \in Routes' : RouteResolves(k)'
  BY <1>1, <1>2, NoRouteStep
<1>4. DOMAIN desired' = DOMAIN desired \cup {ListenerSetKey}
  BY <1>1, InsertedOne
<1>5. desired'[ListenerSetKey] = content
  BY <1>1, InsertedOne
<1>6. ListenerSetKey' = ListenerSetKey /\ HttpListeners' = HttpListeners
  BY <1>1 DEF ListenerSetKey, HttpListeners
<1>7. ListenerSetBuilt'
  BY <1>1, <1>4, <1>5, <1>6 DEF ListenerSetBuilt
<1>8. IndexResolves'
  BY <1>1, <1>4 DEF RefInv, IndexResolves
<1>9. 8 \in DOMAIN Stages /\ Stages[8] = stage'
  BY <1>1 DEF Stages
<1> QED
  BY <1>1, <1>3, <1>7, <1>8, <1>9 DEF RefInv

(***************************************************************************)
(* The loops follow one another as in the list of stages.                  *)
(***************************************************************************)
LEMMA StageOrder ==
  ASSUME RefInv, NextStage
  PROVE  \/ stage = "http backends" /\ stage' = "routes"
         \/ stage = "routes" /\ stage' = "tcp backends"
         \/ stage = "tcp backends" /\ stage' = "tcp routes"
         \/ stage = "tcp routes" /\ stage' = "udp backends"
         \/ stage = "udp backends" /\ stage' = "udp routes"
         \/ stage = "udp routes" /\ stage' = "listeners"
<1> DEFINE j == CHOOSE x \in DOMAIN Stages : Stages[x] = stage
<1>1. j \in DOMAIN Stages /\ Stages[j] = stage
  BY DEF RefInv
<1>2. stage' = Stages[j + 1] /\ stage \notin {"listeners", "done"}
  BY DEF NextStage, Advance
<1> HIDE DEF j
<1>3. /\ DOMAIN Stages = 1 .. 8
      /\ Stages[1] = "http backends" /\ Stages[2] = "routes" /\ Stages[3] = "tcp backends"
      /\ Stages[4] = "tcp routes" /\ Stages[5] = "udp backends" /\ Stages[6] = "udp routes"
      /\ Stages[7] = "listeners" /\ Stages[8] = "done"
  BY DEF Stages
<1>4. \/ j = 1 /\ j + 1 = 2
      \/ j = 2 /\ j + 1 = 3
      \/ j = 3 /\ j + 1 = 4
      \/ j = 4 /\ j + 1 = 5
      \/ j = 5 /\ j + 1 = 6
      \/ j = 6 /\ j + 1 = 7
  <2>1. j \in 1 .. 8 /\ j # 7 /\ j # 8
    BY <1>1, <1>2, <1>3
  <2> QED
    BY <2>1
<1> QED
  BY <1>1, <1>2, <1>3, <1>4

(***************************************************************************)
(* The stage after one that is not the last two is not the last.           *)
(***************************************************************************)
LEMMA NextStageResolves == RefInv /\ NextStage => RefInv'
<1> SUFFICES ASSUME RefInv, NextStage
             PROVE  RefInv'
  OBVIOUS
<1>1. stage' # "done" /\ \E i \in DOMAIN Stages : Stages[i] = stage'
  <2>1. /\ 2 \in DOMAIN Stages /\ Stages[2] = "routes" /\ 3 \in DOMAIN Stages /\ Stages[3] = "tcp backends"
        /\ 4 \in DOMAIN Stages /\ Stages[4] = "tcp routes" /\ 5 \in DOMAIN Stages /\ Stages[5] = "udp backends"
        /\ 6 \in DOMAIN Stages /\ Stages[6] = "udp routes" /\ 7 \in DOMAIN Stages /\ Stages[7] = "listeners"
    BY DEF Stages
  <2> QED
    BY <2>1, StageOrder
<1>2. index' = index \/ index' = <<>>
  BY DEF NextStage
<1>3. UNCHANGED <<cfg, desired, hosts, listeners>>
  BY DEF NextStage
<1>4. IndexResolves'
  <2>1. DOMAIN <<>> = {}
    OBVIOUS
  <2> QED
    BY <1>2, <1>3, <2>1 DEF RefInv, IndexResolves
<1>5. \A k \in Routes' : RouteResolves(k)'
  BY <1>3 DEF RefInv, Routes, RouteResolves, ParentRef
<1> QED
  BY <1>1, <1>4, <1>5 DEF RefInv, ListenerSetBuilt

(***************************************************************************)
(* Every step of build_desired keeps the references resolved.              *)
(***************************************************************************)
LEMMA NextRefInv == RefInv /\ [Next]_vars => RefInv'
<1> SUFFICES ASSUME RefInv, [Next]_vars
             PROVE  RefInv'
  OBVIOUS
<1>1. CASE UNCHANGED <<cfg, stage, index, desired, hosts, https_hosts, listeners>>
  BY <1>1 DEF RefInv, IndexResolves, Routes, RouteResolves, ParentRef, ListenerSetBuilt,
              ListenerSetKey, HttpListeners
<1> QED
  BY <1>1, NextStageResolves, BuildBackendResolves, BuildRouteResolves, BuildL4RouteResolves,
     BuildListenerSetResolves
     DEF Next, vars, SkipRoute, SkipL4Route, Returned

(***************************************************************************)
(* The desired set starts empty.                                           *)
(***************************************************************************)
LEMMA InitRefInv == Init => RefInv
<1>1. DOMAIN <<>> = {}
  OBVIOUS
<1>2. 1 \in DOMAIN Stages /\ Stages[1] = "http backends"
  BY DEF Stages
<1> QED
  BY <1>1, <1>2 DEF Init, RefInv, IndexResolves, Routes, ListenerSetBuilt

(***************************************************************************)
(* For every response and all settings whose ListenerSet name is a label:  *)
(* the desired set is closed under references, and each host and section   *)
(* of a route has its listener.  This is what the reconciliation loop      *)
(* takes for granted (DesiredAssumption of Controller).                    *)
(***************************************************************************)
THEOREM DesiredSetIsClosed == TranslateSpec => []RefsResolve
<1>1. RefInv => RefsResolve
  <2> SUFFICES ASSUME RefInv, stage = "done", ParentRef = ListenerSetKey, NEW k \in Routes
               PROVE  /\ desired[k].refs \subseteq DOMAIN desired
                      /\ k.kind = "HTTPRoute" =>
                           /\ desired[k].guards \subseteq DOMAIN desired
                           /\ \A h \in desired[k].parsed.hosts :
                                \E l \in desired[ListenerSetKey].listeners : l.hostname = h
                      /\ k.kind # "HTTPRoute" =>
                           desired[k].sections \subseteq {l.name : l \in desired[ListenerSetKey].listeners}
    BY DEF RefsResolve
  <2>1. RouteResolves(k)
    BY DEF RefInv
  <2>2. ListenerSetKey \in DOMAIN desired /\ desired[ListenerSetKey].listeners = HttpListeners \cup listeners
    BY DEF RefInv, ListenerSetBuilt
  <2>3. \A h \in hosts : \E l \in HttpListeners : l.hostname = h
    <3> SUFFICES ASSUME NEW h \in hosts
                 PROVE  \E l \in HttpListeners : l.hostname = h
      OBVIOUS
    <3> DEFINE l == Listener(Label(<<"http">>, h), "http", cfg.http_port, h)
    <3>1. l \in HttpListeners
      BY DEF HttpListeners
    <3>2. l.hostname = h
      BY DEF Listener
    <3> QED
      BY <3>1, <3>2
  <2> QED
    BY <2>1, <2>2, <2>3 DEF RouteResolves
<1> QED
  BY <1>1, InitRefInv, NextRefInv, PTL DEF TranslateSpec
=============================================================================
