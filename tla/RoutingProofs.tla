---------------------------- MODULE RoutingProofs ----------------------------
(***************************************************************************)
(* Where the routes of build_desired lead, for every response and all      *)
(* settings: no router is lost, and each has the backend it names.         *)
(***************************************************************************)
EXTENDS TranslateProofs

-----------------------------------------------------------------------------
(* Routers that are kept.                                                  *)

\* No other router has a name of the same parts.
OwnParts(name) ==
  \A other \in DOMAIN conf.http.routers : Parts[other] = Parts[name] => other = name

\* The loop has kept every router that it has come to and that it can tell apart.
KeptInv ==
  stage = "routes" =>
    /\ todo \subseteq DOMAIN conf.http.routers
    /\ \A name \in DOMAIN conf.http.routers \ todo :
         /\ name \in Name
         /\ ~Unwanted(conf.http.routers[name]) /\ OwnParts(name) =>
              RouteKey(name) \in DOMAIN desired /\ desired[RouteKey(name)].of = name

(***************************************************************************)
(* What build_routes writes for a router: the route and, for a protected   *)
(* one, its policy (src/transform/route.rs:54-96).                         *)
(***************************************************************************)
LEMMA RouteWritten ==
  ASSUME NEW name \in Name, BuildRoute(name)
  PROVE  /\ RouteKey(name) \in DOMAIN desired'
         /\ desired'[RouteKey(name)] = HttpRoute(name, conf.http.routers[name])
         /\ \A k : k # RouteKey(name) /\ k.kind # "SecurityPolicy" =>
              /\ k \in DOMAIN desired' <=> k \in DOMAIN desired
              /\ k \in DOMAIN desired => desired'[k] = desired[k]
<1> DEFINE key == RouteKey(name)
           route == HttpRoute(name, conf.http.routers[name])
           policies == {<<p, [target |-> key]>> : p \in route.guards}
           objects == {<<key, route>>} \cup policies
<1>1. desired' = Inserted(objects)
  BY DEF BuildRoute
<1>2. key.kind = "HTTPRoute" /\ \A o \in policies : o[1].kind = "SecurityPolicy"
  BY DEF RouteKey, Key, HttpRoute, PolicyOf
<1>3. <<key, route>> \in objects /\ \A o \in objects : o[1] = key => o = <<key, route>>
  BY <1>2
<1>4. ASSUME NEW k, k # key, k.kind # "SecurityPolicy"
      PROVE  \A o \in objects : o[1] # k
  BY <1>2, <1>4
<1> HIDE DEF key, route, objects
<1>5. key \in DOMAIN desired' /\ desired'[key] = route
  BY <1>1, <1>3, InsertedThere
<1>6. \A k : k # key /\ k.kind # "SecurityPolicy" =>
        /\ k \in DOMAIN desired' <=> k \in DOMAIN desired
        /\ k \in DOMAIN desired => desired'[k] = desired[k]
  BY <1>1, <1>4, InsertedElsewhere
<1> QED
  BY <1>5, <1>6 DEF key, route

(***************************************************************************)
(* The route of a router is replaced only by that of a router whose name   *)
(* has the same parts.                                                     *)
(***************************************************************************)
LEMMA BuildRouteKeeps ==
  ASSUME KeptInv, NEW name \in Name, BuildRoute(name)
  PROVE  KeptInv'
<1>1. /\ stage = "routes" /\ todo' = todo \ {name} /\ UNCHANGED <<cfg, conf, stage, index>>
      /\ name \in DOMAIN conf.http.routers /\ todo' \subseteq DOMAIN conf.http.routers
  BY DEF BuildRoute, Takes, KeptInv
<1> SUFFICES ASSUME NEW n \in DOMAIN conf.http.routers \ todo'
             PROVE  /\ n \in Name
                    /\ ~Unwanted(conf.http.routers[n]) /\ OwnParts(n) =>
                         RouteKey(n) \in DOMAIN desired' /\ desired'[RouteKey(n)].of = n
  BY <1>1 DEF KeptInv, Unwanted, OwnParts, RouteKey, requires_badger_auth
<1>2. CASE n = name
  <2>1. HttpRoute(name, conf.http.routers[name]).of = name
    BY DEF HttpRoute
  <2> QED
    BY <1>2, <2>1, RouteWritten
<1>3. CASE n # name
  <2>1. n \in DOMAIN conf.http.routers \ todo /\ n \in Name
    BY <1>1, <1>3 DEF KeptInv
  <2>2. ASSUME ~Unwanted(conf.http.routers[n]), OwnParts(n)
        PROVE  RouteKey(n) \in DOMAIN desired' /\ desired'[RouteKey(n)].of = n
    <3>1. RouteKey(n) \in DOMAIN desired /\ desired[RouteKey(n)].of = n
      BY <1>1, <2>1, <2>2 DEF KeptInv
    <3>2. RouteKey(n) # RouteKey(name)
      <4>1. Parts[n] # Parts[name]
        BY <1>1, <1>3, <2>2 DEF OwnParts
      <4>2. Label(<<"hr">>, n) # Label(<<"hr">>, name)
        BY <2>1, <4>1, SameLabel
      <4> QED
        BY <4>2 DEF RouteKey, Key
    <3>3. RouteKey(n).kind # "SecurityPolicy"
      BY DEF RouteKey, Key
    <3> QED
      BY <3>1, <3>2, <3>3, RouteWritten
  <2> QED
    BY <2>1, <2>2
<1> QED
  BY <1>2, <1>3

(***************************************************************************)
(* The loop over the routers starts with all of them, and no other loop    *)
(* writes HTTPRoutes.                                                      *)
(***************************************************************************)
LEMMA NextKeptInv == KeptInv /\ [Next]_vars => KeptInv'
<1> SUFFICES ASSUME KeptInv, [Next]_vars
             PROVE  KeptInv'
  OBVIOUS
<1>1. CASE stage' # "routes"
  BY <1>1 DEF KeptInv
<1>2. CASE NextStage /\ stage' = "routes"
  <2>1. todo' = Work("routes") /\ conf' = conf
    BY <1>2 DEF NextStage
  <2>2. Work("routes") = DOMAIN conf.http.routers
    BY DEF Work, Enabled
  <2> QED
    BY <2>1, <2>2 DEF KeptInv
<1>3. ASSUME NEW name \in Name, BuildRoute(name)
      PROVE  KeptInv'
  BY <1>3, BuildRouteKeeps
<1>4. ASSUME NEW name \in Name, SkipRoute(name)
      PROVE  KeptInv'
  <2>1. /\ stage = "routes" /\ todo' = todo \ {name} /\ Unwanted(conf.http.routers[name])
        /\ UNCHANGED <<cfg, conf, stage, index, desired>>
    BY <1>4 DEF SkipRoute
  <2> QED
    BY <2>1 DEF KeptInv, Unwanted, OwnParts, RouteKey, requires_badger_auth
<1>5. CASE UNCHANGED vars
  BY <1>5 DEF vars, KeptInv, Unwanted, OwnParts, RouteKey, requires_badger_auth
<1>6. ASSUME NEW name \in Name, BuildBackend(name) \/ BuildL4Route(name) \/ SkipL4Route(name)
      PROVE  stage' # "routes"
  BY <1>6 DEF BuildBackend, BuildL4Route, SkipL4Route
<1>7. BuildListenerSet => stage' # "routes"
  BY DEF BuildListenerSet
<1> QED
  BY <1>1, <1>2, <1>3, <1>4, <1>5, <1>6, <1>7 DEF Next, Returned

(***************************************************************************)
(* For every response and all settings: an HTTP router that can be         *)
(* translated and whose name no other has after sanitizing is there as an  *)
(* HTTPRoute when build_routes returns, however long the names are and     *)
(* wherever they are cut (src/transform/naming.rs:28-42, route.rs:36-96).  *)
(***************************************************************************)
THEOREM NoRouterIsLost == TranslateSpec => []EveryRouterKept
<1>1. Init => KeptInv
  BY DEF Init, KeptInv
<1>2. KeptInv => EveryRouterKept
  BY DEF KeptInv, EveryRouterKept, OwnParts
<1> QED
  BY <1>1, <1>2, NextKeptInv, PTL DEF TranslateSpec
-----------------------------------------------------------------------------
(* Backends.  A service is a pair of the infix of its family and its name. *)

Named(s) == s \in AllServices /\ s[2] \in Name

ServiceAt(s) ==
  IF s[1] = "" THEN conf.http.services[s[2]]
  ELSE IF s[1] = "tcp" THEN conf.tcp.services[s[2]] ELSE conf.udp.services[s[2]]

ClassOf(s) == classify_entries(ServiceAt(s).servers, cfg.backend_kind)

SkipsAt(s) ==
  /\ s[1] = ""
  /\ ServiceAt(s).transport \in DOMAIN conf.http.transports
  /\ conf.http.transports[ServiceAt(s).transport]

\* What is emitted for a service, whenever it is.
EmissionOf(s) == emit_backend(s[2], s[1], ClassOf(s), SkipsAt(s), cfg)

\* The objects of a service are as they were emitted.
InPlace(s) ==
  \A o \in EmissionOf(s).objects : o[1] \in DOMAIN desired /\ desired[o[1]] = o[2]

\* The kinds that are emitted, and how the names of each start.
Bases == {<<"Backend", "be">>, <<"Service", "svc">>, <<"EndpointSlice", "eps">>,
          <<"BackendTLSPolicy", "btp">>}

(***************************************************************************)
(* Every object that is emitted is named after its service, by a base of   *)
(* its kind, and there is one of a kind (src/transform/backend.rs:178-770).*)
(***************************************************************************)
LEMMA EmittedNames ==
  ASSUME NEW name, NEW infix, NEW c, NEW skip_verify, NEW settings,
         c.class \in {"Ips", "ClusterDns", "Fqdn", "Empty"}
  PROVE  LET e == emit_backend(name, infix, c, skip_verify, settings)
         IN  \A o \in e.objects :
               /\ o = <<o[1], o[2]>>
               /\ \E b \in Bases : o[1] = Own(b[1], b[2], infix, name)
               /\ \A p \in e.objects : p[1] = o[1] => p = o
<1> DEFINE Named1(o) == /\ o = <<o[1], o[2]>>
                        /\ \E b \in Bases : o[1] = Own(b[1], b[2], infix, name)
           Fine(e) == \A o \in e.objects : Named1(o) /\ \A p \in e.objects : p[1] = o[1] => p = o
<1>1. \A target : /\ Named1(BackendTlsPolicy(name, infix, target))
                  /\ BackendTlsPolicy(name, infix, target)[1].kind = "BackendTLSPolicy"
  BY DEF BackendTlsPolicy, Own, Key, Bases
<1>2. Fine(emit_envoy_backend(name, infix, c, skip_verify))
  BY DEF emit_envoy_backend, Emission, Bases
<1>3. /\ Fine(emit_synthesized_service(name, infix, c))
      /\ \A o \in emit_synthesized_service(name, infix, c).objects : o[1].kind # "BackendTLSPolicy"
  BY DEF emit_synthesized_service, Emission, Bases, Own, Key
<1>4. Fine(emit_ip_backend(name, infix, c, skip_verify, settings))
  <2>1. CASE settings.backend_kind = "envoy-backend"
    BY <1>2, <2>1 DEF emit_ip_backend
  <2>2. CASE settings.backend_kind # "envoy-backend"
    <3> DEFINE e == emit_synthesized_service(name, infix, c)
               policy == BackendTlsPolicy(name, infix, e.resolved.key)
    <3>1. emit_ip_backend(name, infix, c, skip_verify, settings).objects
            = e.objects \cup (IF c.tls THEN {policy} ELSE {})
      BY <2>2 DEF emit_ip_backend, Emission
    <3>2. Fine(e) /\ Named1(policy) /\ \A o \in e.objects : o[1] # policy[1]
      BY <1>1, <1>3
    <3> HIDE DEF e, policy, Named1
    <3> QED
      BY <3>1, <3>2
  <2> QED
    BY <2>1, <2>2
<1>5. Fine(emit_cluster_dns_backend(name, infix, c, skip_verify, settings))
  <2> HIDE DEF Named1
  <2> QED
    BY <1>1, <1>2 DEF emit_cluster_dns_backend, Emission
<1> QED
  BY <1>2, <1>4, <1>5 DEF emit_backend, Emission

\* What a reference leads to: an object of the service, with the port of the
\* reference, and a slice of servers with that port if it is a Service.
LeadsHome(e, s) ==
  e.resolved.key.kind \in {"Service", "Backend"} =>
    \E o \in e.objects :
      /\ o[1] = e.resolved.key /\ o[2].of = s /\ o[2].port = e.resolved.port
      /\ o[1].kind = "Service" =>
           \E p \in e.objects :
             /\ p[1].kind = "EndpointSlice" /\ p[2].service = o[1] /\ p[2].of = s
             /\ \A server \in p[2].servers : server.port = o[2].port

(***************************************************************************)
(* An emission leads to the service that it is for.  The servers of a      *)
(* slice are those that agree with the first on the port                   *)
(* (src/transform/backend.rs:402-437).                                     *)
(***************************************************************************)
LEMMA EmissionLeadsHome ==
  ASSUME NEW name, NEW infix, NEW servers, NEW kind, NEW skip_verify, NEW settings
  PROVE  LeadsHome(emit_backend(name, infix, classify_entries(servers, kind), skip_verify, settings),
                   <<infix, name>>)
           \/ classify_entries(servers, kind).class = "Empty"
<1> DEFINE c == classify_entries(servers, kind)
           s == <<infix, name>>
<1>1. c.class \in {"Ips", "ClusterDns", "Fqdn", "Empty"}
  BY ClassKnown
<1>2. c.class = "Ips" => \A server \in c.servers : server.port = c.port
  BY DEF classify_entries, Classification, Empty
<1> HIDE DEF c
<1>3. LeadsHome(emit_envoy_backend(name, infix, c, skip_verify), s)
  <2> DEFINE key == Own("Backend", "be", infix, name)
             tls == CASE ~c.tls -> "plain" [] c.tls /\ skip_verify -> "unverified"
                      [] OTHER -> "verified"
             content == [of |-> s, servers |-> c.servers, port |-> c.port, tls |-> tls]
  <2>1. /\ emit_envoy_backend(name, infix, c, skip_verify)
             = Emission({<<key, content>>}, Resolved(key, c.port))
        /\ content.of = s /\ content.port = c.port
    BY DEF emit_envoy_backend
  <2>2. key.kind = "Backend"
    BY DEF Own, Key
  <2> DEFINE e == emit_envoy_backend(name, infix, c, skip_verify)
             one == {<<key, content>>}
  <2>3. <<key, content>> \in one
    OBVIOUS
  <2>4. e.objects = one /\ e.resolved.key = key /\ e.resolved.port = c.port
    BY <2>1 DEF Emission, Resolved
  <2> HIDE DEF key, content, s, e, one
  <2>5. LeadsHome(e, s)
    BY <2>1, <2>2, <2>3, <2>4 DEF LeadsHome
  <2> QED
    BY <2>5 DEF e
<1>4. ASSUME c.class = "Ips"
      PROVE  LeadsHome(emit_synthesized_service(name, infix, c), s)
  <2> DEFINE key == Own("Service", "svc", infix, name)
             slice == Own("EndpointSlice", "eps", infix, name)
             service == [of |-> s, port |-> c.port]
             endpoints == [of |-> s, servers |-> c.servers, service |-> key]
  <2>1. emit_synthesized_service(name, infix, c)
          = Emission({<<key, service>>, <<slice, endpoints>>}, Resolved(key, c.port))
    BY DEF emit_synthesized_service
  <2>2. slice.kind = "EndpointSlice"
    BY DEF Own, Key
  <2>3. /\ service.of = s /\ service.port = c.port
        /\ endpoints.of = s /\ endpoints.service = key /\ endpoints.servers = c.servers
    OBVIOUS
  <2> DEFINE e == emit_synthesized_service(name, infix, c)
  <2>4. /\ e.objects = {<<key, service>>, <<slice, endpoints>>}
        /\ e.resolved.key = key /\ e.resolved.port = c.port
    BY <2>1 DEF Emission, Resolved
  <2> HIDE DEF key, slice, service, endpoints, s, e
  <2>5. LeadsHome(e, s)
    BY <1>2, <1>4, <2>2, <2>3, <2>4 DEF LeadsHome
  <2> QED
    BY <2>5 DEF e
<1>5. ASSUME c.class = "Ips"
      PROVE  LeadsHome(emit_ip_backend(name, infix, c, skip_verify, settings), s)
  <2>1. CASE settings.backend_kind = "envoy-backend"
    BY <1>3, <2>1 DEF emit_ip_backend
  <2>2. CASE settings.backend_kind # "envoy-backend"
    <3> DEFINE e == emit_synthesized_service(name, infix, c)
               f == emit_ip_backend(name, infix, c, skip_verify, settings)
    <3>1. f.resolved = e.resolved /\ e.objects \subseteq f.objects
      BY <2>2 DEF emit_ip_backend, Emission
    <3>2. LeadsHome(e, s)
      BY <1>4, <1>5
    <3> HIDE DEF e, f, s
    <3>3. LeadsHome(f, s)
      BY <3>1, <3>2 DEF LeadsHome
    <3> QED
      BY <3>3 DEF f
  <2> QED
    BY <2>1, <2>2
<1>6. LeadsHome(emit_cluster_dns_backend(name, infix, c, skip_verify, settings), s)
  <2> DEFINE e == emit_cluster_dns_backend(name, infix, c, skip_verify, settings)
  <2>1. e = emit_envoy_backend(name, infix, c, skip_verify) \/ e.resolved.key.kind = "ExistingService"
    BY DEF emit_cluster_dns_backend, Emission, Resolved, Key
  <2> HIDE DEF e, s
  <2>2. LeadsHome(e, s)
    BY <1>3, <2>1 DEF LeadsHome
  <2> QED
    BY <2>2 DEF e
<1> QED
  BY <1>1, <1>3, <1>5, <1>6 DEF emit_backend, c

(***************************************************************************)
(* A prefix of two parts is the base and the infix.                        *)
(***************************************************************************)
LEMMA TwoParts ==
  ASSUME NEW base, NEW infix
  PROVE  <<base>> \o <<infix>> = <<base, infix>>
<1> DEFINE S == {base, infix}
           l == <<base>>
           r == <<infix>>
           both == <<base, infix>>
           joined == l \o r
<1>1. l \in Seq(S) /\ r \in Seq(S) /\ Len(l) = 1 /\ Len(r) = 1 /\ l[1] = base /\ r[1] = infix
  OBVIOUS
<1>2. both \in Seq(S) /\ Len(both) = 2 /\ both[1] = base /\ both[2] = infix
  OBVIOUS
<1> HIDE DEF S, l, r, both
<1>3. joined \in Seq(S) /\ Len(joined) = 2
  BY <1>1, ConcatProperties
<1>4. joined[1] = base
  BY <1>1, ConcatProperties
<1>5. joined[2] = infix
  BY <1>1, ConcatProperties
<1> HIDE DEF joined
<1>6. joined = both
  BY <1>2, <1>3, <1>4, <1>5
<1> QED
  BY <1>6 DEF l, r, both, joined

(***************************************************************************)
(* Objects of different services never have one key, when the services     *)
(* have different labels (src/transform/backend.rs:119-123).               *)
(***************************************************************************)
LEMMA KeysApart ==
  ASSUME DistinctLabels, NEW s, NEW t, Named(s), Named(t), s # t,
         NEW o \in EmissionOf(s).objects, NEW p \in EmissionOf(t).objects
  PROVE  o[1] # p[1]
<1> DEFINE Front(u) == IF u[1] = "" THEN <<>> ELSE <<u[1]>>
<1>1. ASSUME NEW u, Named(u)
      PROVE  /\ u[1] \in {"", "tcp", "udp"} /\ Front(u) \in Infixes /\ u[2] \in Name
             /\ \A base : name_prefix(base, u[1]) = <<base>> \o Front(u)
  <2>1. PICK infix \in {"", "tcp", "udp"} : \E n : u = <<infix, n>>
    BY <1>1 DEF Named, AllServices
  <2>2. u[1] \in {"", "tcp", "udp"} /\ u[2] \in Name
    <3>1. PICK n : u = <<infix, n>>
      BY <2>1
    <3>2. u[1] = infix
      BY <3>1
    <3> QED
      BY <1>1, <3>2 DEF Named
  <2>3. Front(u) \in Infixes
    BY <2>2 DEF Infixes
  <2>4. ASSUME NEW base
        PROVE  name_prefix(base, u[1]) = <<base>> \o Front(u)
    <3>1. CASE u[1] = ""
      <4>1. <<base>> \in Seq(AnyPart(base))
        BY PartsAreSequences
      <4>2. <<base>> \o <<>> = <<base>>
        BY <4>1, ConcatEmptySeq
      <4> QED
        BY <3>1, <4>2 DEF name_prefix
    <3>2. CASE u[1] # ""
      BY <3>2, TwoParts, Zenon DEF name_prefix
    <3> QED
      BY <3>1, <3>2
  <2> QED
    BY <2>2, <2>3, <2>4
<1>2. ASSUME NEW u, NEW x \in EmissionOf(u).objects
      PROVE  \E b \in Bases : x[1] = Key(b[1], Label(name_prefix(b[2], u[1]), u[2]))
  <2>1. ClassOf(u).class \in {"Ips", "ClusterDns", "Fqdn", "Empty"}
    BY ClassKnown DEF ClassOf
  <2> QED
    BY <1>2, <2>1, EmittedNames DEF EmissionOf, Own
<1> SUFFICES ASSUME o[1] = p[1]
             PROVE  FALSE
  OBVIOUS
<1>3. PICK b \in Bases : o[1] = Key(b[1], Label(name_prefix(b[2], s[1]), s[2]))
  BY <1>2
<1>4. PICK d \in Bases : p[1] = Key(d[1], Label(name_prefix(d[2], t[1]), t[2]))
  BY <1>2
<1>5. b[1] = d[1] /\ Label(name_prefix(b[2], s[1]), s[2]) = Label(name_prefix(d[2], t[1]), t[2])
  <2> DEFINE l == Label(name_prefix(b[2], s[1]), s[2])
             m == Label(name_prefix(d[2], t[1]), t[2])
  <2> HIDE DEF l, m
  <2>1. Key(b[1], l) = Key(d[1], m)
    BY <1>3, <1>4 DEF l, m
  <2>2. b[1] = d[1] /\ l = m
    BY <2>1 DEF Key
  <2> QED
    BY <2>2 DEF l, m
<1>6. b[2] = d[2]
  BY <1>5 DEF Bases
<1>7. Label(<<b[2]>> \o Front(s), s[2]) = Label(<<b[2]>> \o Front(t), t[2])
  <2>1. /\ name_prefix(b[2], s[1]) = <<b[2]>> \o Front(s)
        /\ name_prefix(b[2], t[1]) = <<b[2]>> \o Front(t)
    BY <1>1
  <2> HIDE DEF Front
  <2> QED
    BY <1>5, <1>6, <2>1, Zenon
<1>8. Front(s) \o Parts[s[2]] = Front(t) \o Parts[t[2]]
  <2>1. Front(s) \in Infixes /\ Front(t) \in Infixes /\ s[2] \in Name /\ t[2] \in Name
    BY <1>1
  <2> DEFINE f == Front(s)
             g == Front(t)
             n == s[2]
             m == t[2]
             base == b[2]
  <2> HIDE DEF f, g, n, m, base
  <2>2. f \o Parts[n] = g \o Parts[m]
    <3>1. /\ f \in Infixes /\ g \in Infixes /\ n \in Name /\ m \in Name
          /\ Label(<<base>> \o f, n) = Label(<<base>> \o g, m)
      BY <1>7, <2>1 DEF f, g, n, m, base
    <3> QED
      BY <3>1, SameLabelSameParts
  <2> QED
    BY <2>2 DEF f, g, n, m
<1> QED
  BY <1>8 DEF DistinctLabels, Named

-----------------------------------------------------------------------------
\* A service with servers that it can be reached by.
Resolves(s) == Named(s) /\ EmissionOf(s).resolved # None

\* The names that the loop over services still has are names of services.
TodoServices ==
  stage \in {"http backends", "tcp backends", "udp backends"} => todo \subseteq DOMAIN Family.services

\* The index has the backend of each service, and its objects are in place.
IndexOwn ==
  stage \notin {"listeners", "done"} =>
    \A n \in DOMAIN index :
      LET s == <<Infix, n>>
      IN  Resolves(s) /\ index[n] = EmissionOf(s).resolved /\ InPlace(s)

\* A route refers to its ListenerSet and to the backend of its service.
RouteOwn(k) ==
  LET s == <<InfixOf(k.kind), ServiceOf(k)>>
  IN  /\ Resolves(s) /\ InPlace(s)
      /\ \A b \in desired[k].refs :
           \/ b = ParentRef
           \/ desired[k].backend = EmissionOf(s).resolved /\ b = EmissionOf(s).resolved.key

OwnInv == DistinctLabels => TodoServices /\ IndexOwn /\ \A k \in Routes : RouteOwn(k)

(***************************************************************************)
(* What is emitted for a service depends on the response and the settings. *)
(***************************************************************************)
LEMMA EmissionStays ==
  ASSUME UNCHANGED <<cfg, conf>>
  PROVE  \A s : EmissionOf(s)' = EmissionOf(s) /\ Resolves(s)' = Resolves(s)
  BY DEF EmissionOf, ClassOf, SkipsAt, ServiceAt, Resolves, Named, AllServices

(***************************************************************************)
(* A step that writes no backends leaves them in place.                    *)
(***************************************************************************)
LEMMA StaysInPlace ==
  ASSUME NEW objects, desired' = Inserted(objects), UNCHANGED <<cfg, conf>>,
         \A o \in objects : o[1].kind \notin BackendKinds,
         NEW s, InPlace(s)
  PROVE  InPlace(s)'
<1>1. EmissionOf(s)' = EmissionOf(s)
  BY EmissionStays
<1>2. ASSUME NEW o \in EmissionOf(s).objects
      PROVE  o[1] \in DOMAIN desired' /\ desired'[o[1]] = o[2]
  <2>1. o[1].kind \in BackendKinds
    BY ClassKnown, EmittedKinds DEF EmissionOf, ClassOf
  <2>2. \A x \in objects : x[1] # o[1]
    BY <2>1
  <2>3. o[1] \in DOMAIN desired /\ desired[o[1]] = o[2]
    BY DEF InPlace
  <2> QED
    BY <2>2, <2>3, InsertedElsewhere
<1> QED
  BY <1>1, <1>2 DEF InPlace

(***************************************************************************)
(* build_backends leaves those of other services in place, and puts those  *)
(* of this one there (src/transform/backend.rs:68-117).                    *)
(***************************************************************************)
LEMMA BackendInPlace ==
  ASSUME DistinctLabels, UNCHANGED <<cfg, conf>>, NEW t, Named(t),
         desired' = Inserted(EmissionOf(t).objects),
         NEW s, Named(s), s = t \/ InPlace(s)
  PROVE  InPlace(s)'
<1>1. EmissionOf(s)' = EmissionOf(s)
  BY EmissionStays
<1>2. ASSUME NEW o \in EmissionOf(s).objects
      PROVE  o[1] \in DOMAIN desired' /\ desired'[o[1]] = o[2]
  <2>1. CASE s = t
    <3>1. o = <<o[1], o[2]>> /\ \A p \in EmissionOf(t).objects : p[1] = o[1] => p = o
      BY <2>1, ClassKnown, EmittedNames DEF EmissionOf, ClassOf
    <3> QED
      BY <2>1, <3>1, InsertedThere
  <2>2. CASE s # t
    <3>1. o[1] \in DOMAIN desired /\ desired[o[1]] = o[2]
      BY <2>2 DEF InPlace
    <3>2. \A p \in EmissionOf(t).objects : p[1] # o[1]
      BY <2>2, KeysApart
    <3> QED
      BY <3>1, <3>2, InsertedElsewhere
  <2> QED
    BY <2>1, <2>2
<1> QED
  BY <1>1, <1>2 DEF InPlace

(***************************************************************************)
(* A route that is not written again keeps its backend while the objects   *)
(* of its service stay in place.                                           *)
(***************************************************************************)
LEMMA RouteStaysOwn ==
  ASSUME UNCHANGED <<cfg, conf>>, NEW k \in Routes, RouteOwn(k), desired'[k] = desired[k],
         \A s : Resolves(s) /\ InPlace(s) => InPlace(s)'
  PROVE  RouteOwn(k)'
<1> DEFINE s == <<InfixOf(k.kind), ServiceOf(k)>>
<1>1. ServiceOf(k)' = ServiceOf(k) /\ ParentRef' = ParentRef
  BY DEF ServiceOf, ParentRef
<1>2. Resolves(s) /\ InPlace(s)
  BY DEF RouteOwn
<1>3. ASSUME NEW t
      PROVE  EmissionOf(t)' = EmissionOf(t) /\ Resolves(t)' = Resolves(t)
  BY EmissionStays
<1>4. ASSUME NEW t, t = s
      PROVE  /\ Resolves(t)' /\ InPlace(t)'
             /\ \A b \in desired'[k].refs :
                  \/ b = ParentRef
                  \/ desired'[k].backend = EmissionOf(t)'.resolved /\ b = EmissionOf(t)'.resolved.key
  BY <1>2, <1>3, <1>4 DEF RouteOwn
<1> QED
  BY <1>1, <1>4 DEF RouteOwn

(***************************************************************************)
(* build_backends: the index gains a service whose objects are in place.   *)
(***************************************************************************)
LEMMA BuildBackendOwn ==
  ASSUME OwnInv, DistinctLabels, NEW name \in Name, BuildBackend(name)
  PROVE  OwnInv'
<1> DEFINE t == <<Infix, name>>
           e == EmissionOf(t)
<1>1. /\ stage \in {"http backends", "tcp backends", "udp backends"}
      /\ name \in todo /\ todo' = todo \ {name}
      /\ UNCHANGED <<cfg, conf, stage>>
  BY DEF BuildBackend, Takes
<1>2. Infix' = Infix /\ Family' = Family
  BY <1>1 DEF Infix, Family
<1>3. /\ Infix \in {"", "tcp", "udp"}
      /\ Family.services = CASE Infix = "" -> conf.http.services [] Infix = "tcp" -> conf.tcp.services
                             [] OTHER -> conf.udp.services
  BY DEF Infix, Family
<1>4. name \in DOMAIN Family.services
  BY <1>1 DEF OwnInv, TodoServices
<1>5. Named(t)
  BY <1>3, <1>4 DEF Resolves, Named, AllServices
<1>6. Family.services[name] = ServiceAt(t)
  BY <1>3 DEF ServiceAt
<1>7. e = emit_backend(name, Infix, classify_entries(Family.services[name].servers, cfg.backend_kind),
                       SkipsVerify(Family.services[name]), cfg)
  BY <1>6 DEF EmissionOf, ClassOf, SkipsAt, SkipsVerify
<1>8. /\ desired' = Inserted(e.objects)
      /\ index' = IF e.resolved = None THEN index
                  ELSE [n \in DOMAIN index \cup {name} |-> IF n = name THEN e.resolved ELSE index[n]]
  BY <1>7 DEF BuildBackend
<1>9. ASSUME NEW s, Named(s), s = t \/ InPlace(s)
      PROVE  InPlace(s)'
  BY <1>1, <1>5, <1>8, <1>9, BackendInPlace
<1>10. \A s : EmissionOf(s)' = EmissionOf(s) /\ Resolves(s)' = Resolves(s)
  BY <1>1, EmissionStays
<1>11. TodoServices'
  BY <1>1, <1>2 DEF OwnInv, TodoServices
<1>12. IndexOwn'
  <2> SUFFICES ASSUME NEW n \in DOMAIN index', NEW s, s = <<Infix, n>>
               PROVE  Resolves(s)' /\ index'[n] = EmissionOf(s)'.resolved /\ InPlace(s)'
    BY <1>2 DEF IndexOwn
  <2>1. CASE n = name /\ e.resolved # None
    BY <1>5, <1>8, <1>9, <1>10, <2>1 DEF Resolves
  <2>2. CASE n \in DOMAIN index /\ index'[n] = index[n]
    <3>1. Resolves(s) /\ index[n] = EmissionOf(s).resolved /\ InPlace(s)
      BY <1>1, <2>2 DEF OwnInv, IndexOwn
    <3> QED
      BY <1>9, <1>10, <2>2, <3>1 DEF Resolves
  <2> HIDE DEF e
  <2> QED
    BY <1>8, <2>1, <2>2
<1>13. ASSUME NEW k \in Routes'
       PROVE  RouteOwn(k)'
  <2>1. \A o \in e.objects : o[1].kind \in BackendKinds
    BY ClassKnown, EmittedKinds DEF EmissionOf, ClassOf
  <2>2. k.kind \notin BackendKinds
    BY DEF Routes, RouteKinds, BackendKinds
  <2>3. k \in Routes /\ desired'[k] = desired[k]
    BY <1>8, <2>1, <2>2, InsertedElsewhere DEF Routes
  <2> QED
    BY <1>1, <1>9, <2>3, RouteStaysOwn DEF OwnInv, Resolves
<1> QED
  BY <1>11, <1>12, <1>13 DEF OwnInv

(***************************************************************************)
(* A step that writes no backends and at most the one route, which is for  *)
(* its own service.                                                        *)
(***************************************************************************)
LEMMA WriteRouteOwn ==
  ASSUME OwnInv, DistinctLabels, NEW objects, desired' = Inserted(objects),
         UNCHANGED <<cfg, conf, index>>, TodoServices',
         stage' = stage \/ stage' \in {"listeners", "done"},
         \A o \in objects : o[1].kind \notin BackendKinds,
         NEW key, \A o \in objects : o[1] # key => o[1].kind \notin RouteKinds,
         key \in Routes' => RouteOwn(key)'
  PROVE  OwnInv'
<1>1. \A s : InPlace(s) => InPlace(s)'
  BY StaysInPlace
<1>2. \A s : EmissionOf(s)' = EmissionOf(s) /\ Resolves(s)' = Resolves(s)
  BY EmissionStays
<1>3. IndexOwn'
  <2> SUFFICES ASSUME stage' \notin {"listeners", "done"}, NEW n \in DOMAIN index, NEW s, s = <<Infix, n>>
               PROVE  Resolves(s)' /\ index'[n] = EmissionOf(s)'.resolved /\ InPlace(s)'
    BY DEF IndexOwn, Infix
  <2>1. Resolves(s) /\ index[n] = EmissionOf(s).resolved /\ InPlace(s)
    BY DEF OwnInv, IndexOwn
  <2> QED
    BY <1>1, <1>2, <2>1
<1>4. ASSUME NEW k \in Routes', k # key
      PROVE  RouteOwn(k)'
  <2>1. k.kind \in RouteKinds
    BY DEF Routes
  <2>2. k \in Routes /\ desired'[k] = desired[k]
    BY <1>4, <2>1, InsertedElsewhere DEF Routes
  <2> QED
    BY <1>1, <2>2, RouteStaysOwn DEF OwnInv
<1> QED
  BY <1>3, <1>4 DEF OwnInv

(***************************************************************************)
(* build_routes: the route has the indexed backend, or a redirect.         *)
(***************************************************************************)
LEMMA BuildRouteOwn ==
  ASSUME OwnInv, DistinctLabels, NEW name \in Name, BuildRoute(name)
  PROVE  OwnInv'
<1> DEFINE key == RouteKey(name)
           router == conf.http.routers[name]
           route == HttpRoute(name, router)
           policies == {<<p, [target |-> key]>> : p \in route.guards}
           objects == {<<key, route>>} \cup policies
<1>1. /\ stage = "routes" /\ ~Unwanted(router) /\ desired' = Inserted(objects)
      /\ UNCHANGED <<cfg, conf, index, stage>>
  BY DEF BuildRoute
<1>2. key.kind = "HTTPRoute" /\ \A o \in policies : o[1].kind = "SecurityPolicy"
  BY DEF RouteKey, Key, HttpRoute, PolicyOf
<1>3. \A o \in objects : /\ o[1].kind \notin BackendKinds
                         /\ o[1] # key => o[1].kind \notin RouteKinds
  BY <1>2 DEF BackendKinds, RouteKinds
<1> SUFFICES ASSUME NEW s, s = <<"", router.service>>
             PROVE  OwnInv'
  OBVIOUS
<1>4. Resolves(s) /\ index[router.service] = EmissionOf(s).resolved /\ InPlace(s)
  <2>1. router.service \in DOMAIN index /\ Infix = ""
    BY <1>1 DEF Unwanted, Infix
  <2> QED
    BY <1>1, <2>1 DEF OwnInv, IndexOwn
<1>5. InPlace(s)' /\ EmissionOf(s)' = EmissionOf(s) /\ Resolves(s)' = Resolves(s)
  <2>1. \A t : InPlace(t) => InPlace(t)'
    BY <1>1, <1>3, StaysInPlace
  <2>2. \A t : EmissionOf(t)' = EmissionOf(t) /\ Resolves(t)' = Resolves(t)
    BY <1>1, EmissionStays
  <2> HIDE DEF objects
  <2> QED
    BY <1>1, <1>4, <2>1, <2>2
<1>6. desired'[key] = route /\ route.of = name
  BY RouteWritten DEF HttpRoute
<1>7. \A b \in route.refs :
        b = ParentRef \/ (route.backend = index[router.service] /\ b = index[router.service].key)
  BY DEF HttpRoute, Refs
<1>8. RouteOwn(key)'
  <2>1. InfixOf(key.kind) = "" /\ ServiceOf(key)' = router.service
    BY <1>1, <1>2, <1>6 DEF InfixOf, ServiceOf
  <2>2. ParentRef' = ParentRef /\ key' = key
    BY <1>1 DEF ParentRef, RouteKey
  <2>3. /\ Resolves(s)' /\ InPlace(s)'
        /\ \A b \in desired'[key].refs :
             \/ b = ParentRef
             \/ desired'[key].backend = EmissionOf(s)'.resolved /\ b = EmissionOf(s)'.resolved.key
    <3> HIDE DEF route, key
    <3> QED
      BY <1>4, <1>5, <1>6, <1>7
  <2> HIDE DEF route
  <2> QED
    BY <2>1, <2>2, <2>3 DEF RouteOwn
<1>9. TodoServices'
  BY <1>1 DEF TodoServices
<1> HIDE DEF objects, key
<1> QED
  BY <1>1, <1>3, <1>8, <1>9, WriteRouteOwn

(***************************************************************************)
(* build_l4: the route has the indexed backend of its family.              *)
(***************************************************************************)
LEMMA BuildL4RouteOwn ==
  ASSUME OwnInv, DistinctLabels, NEW name \in Name, BuildL4Route(name)
  PROVE  OwnInv'
<1> DEFINE router == Family.routers[name]
           sections == {Listener(<<Infix, p>>, Infix, p, None) : p \in UsablePorts(router)}
           route == L4Route(name, index[router.service], sections)
<1>1. /\ stage \in {"tcp routes", "udp routes"} /\ ~UnwantedL4(router)
      /\ desired' = Inserted({<<L4Key(name), route>>})
      /\ UNCHANGED <<cfg, conf, index, stage>>
  BY DEF BuildL4Route
<1> SUFFICES ASSUME NEW key, key = L4Key(name), NEW s, s = <<Infix, router.service>>,
                    NEW objects, objects = {<<key, route>>}
             PROVE  OwnInv'
  OBVIOUS
<1>2. /\ Infix \in {"tcp", "udp"} /\ InfixOf(key.kind) = Infix
      /\ key.kind = IF Infix = "tcp" THEN "TCPRoute" ELSE "UDPRoute"
      /\ Family = IF Infix = "tcp" THEN conf.tcp ELSE conf.udp
  BY <1>1 DEF L4Key, Key, InfixOf, Infix, Family
<1>3. \A o \in objects : o[1] = key /\ o[1].kind \notin BackendKinds
  BY <1>2 DEF BackendKinds
<1>4. Resolves(s) /\ index[router.service] = EmissionOf(s).resolved /\ InPlace(s)
  <2>1. router.service \in DOMAIN index
    BY <1>1 DEF UnwantedL4
  <2> QED
    BY <1>1, <2>1 DEF OwnInv, IndexOwn
<1>5. InPlace(s)' /\ EmissionOf(s)' = EmissionOf(s) /\ Resolves(s)' = Resolves(s)
  <2>1. \A t : InPlace(t) => InPlace(t)'
    BY <1>1, <1>3, StaysInPlace
  <2>2. \A t : EmissionOf(t)' = EmissionOf(t) /\ Resolves(t)' = Resolves(t)
    BY <1>1, EmissionStays
  <2> QED
    BY <1>4, <2>1, <2>2
<1>6. desired'[key] = route
  BY <1>1, InsertedOne
<1>7. /\ route.of = name
      /\ \A b \in route.refs :
           b = ParentRef \/ (route.backend = index[router.service] /\ b = index[router.service].key)
  BY DEF L4Route, Refs
<1>8. RouteOwn(key)'
  <2>1. ServiceOf(key)' = router.service
    BY <1>1, <1>2, <1>6, <1>7 DEF ServiceOf
  <2>2. ParentRef' = ParentRef /\ Infix' = Infix
    BY <1>1 DEF ParentRef, Infix
  <2>3. /\ Resolves(s)' /\ InPlace(s)'
        /\ \A b \in desired'[key].refs :
             \/ b = ParentRef
             \/ desired'[key].backend = EmissionOf(s)'.resolved /\ b = EmissionOf(s)'.resolved.key
    <3> HIDE DEF route
    <3> QED
      BY <1>4, <1>5, <1>6, <1>7
  <2> HIDE DEF route
  <2> QED
    BY <1>2, <2>1, <2>2, <2>3 DEF RouteOwn
<1>9. TodoServices'
  BY <1>1 DEF TodoServices
<1> QED
  BY <1>1, <1>3, <1>8, <1>9, WriteRouteOwn

(***************************************************************************)
(* A step that writes nothing and stays in its loop.                       *)
(***************************************************************************)
LEMMA NothingWrittenOwn ==
  ASSUME OwnInv, DistinctLabels, UNCHANGED <<cfg, conf, stage, index, desired>>, todo' \subseteq todo
  PROVE  OwnInv'
<1>1. \A s : EmissionOf(s)' = EmissionOf(s) /\ Resolves(s)' = Resolves(s) /\ (InPlace(s) => InPlace(s)')
  BY EmissionStays DEF InPlace
<1>2. Infix' = Infix /\ Family' = Family /\ Routes' = Routes
  BY DEF Infix, Family, Routes
<1>3. TodoServices'
  BY <1>2 DEF OwnInv, TodoServices
<1>4. IndexOwn'
  BY <1>1, <1>2 DEF OwnInv, IndexOwn
<1>5. \A k \in Routes' : RouteOwn(k)'
  BY <1>1, <1>2, RouteStaysOwn DEF OwnInv
<1> QED
  BY <1>3, <1>4, <1>5 DEF OwnInv

(***************************************************************************)
(* The next loop starts with the names of its family, and with no index    *)
(* when it is the first loop of the family.                                *)
(***************************************************************************)
LEMMA NextStageOwn ==
  ASSUME OwnInv, DistinctLabels, RefInv, NextStage
  PROVE  OwnInv'
<1>1. /\ todo' = Work(stage') /\ UNCHANGED <<cfg, conf, desired>>
      /\ index' = IF stage' \in {"tcp backends", "udp backends"} THEN <<>> ELSE index
  BY DEF NextStage
<1>2. \/ stage' = "listeners"
      \/ stage' \in {"tcp backends", "udp backends"}
      \/ stage' \in {"routes", "tcp routes", "udp routes"} /\ Infix' = Infix
           /\ stage \notin {"listeners", "done"}
  BY StageOrder DEF Infix
<1>3. TodoServices'
  <2>1. CASE stage' = "tcp backends"
    BY <1>1, <2>1 DEF TodoServices, Family, Infix, Work, Enabled
  <2>2. CASE stage' = "udp backends"
    BY <1>1, <2>2 DEF TodoServices, Family, Infix, Work, Enabled
  <2>3. CASE stage' \notin {"tcp backends", "udp backends"}
    BY <1>2, <2>3 DEF TodoServices
  <2> QED
    BY <2>1, <2>2, <2>3
<1>4. \A s : EmissionOf(s)' = EmissionOf(s) /\ Resolves(s)' = Resolves(s) /\ (InPlace(s) => InPlace(s)')
  BY <1>1, EmissionStays DEF InPlace
<1>5. IndexOwn'
  <2>1. CASE stage' \in {"tcp backends", "udp backends"}
    <3>1. DOMAIN <<>> = {}
      OBVIOUS
    <3> QED
      BY <1>1, <2>1, <3>1 DEF IndexOwn
  <2>2. CASE stage' = "listeners"
    BY <2>2 DEF IndexOwn
  <2>3. CASE stage' \in {"routes", "tcp routes", "udp routes"} /\ Infix' = Infix
               /\ stage \notin {"listeners", "done"}
    BY <1>1, <1>4, <2>3 DEF OwnInv, IndexOwn
  <2> QED
    BY <1>2, <2>1, <2>2, <2>3
<1>6. ASSUME NEW k \in Routes'
      PROVE  RouteOwn(k)'
  <2>1. k \in Routes /\ RouteOwn(k)
    BY <1>1, <1>6 DEF OwnInv, Routes
  <2> QED
    BY <1>1, <1>4, <2>1, RouteStaysOwn
<1> QED
  BY <1>3, <1>5, <1>6 DEF OwnInv

(***************************************************************************)
(* Every step of build_desired leaves routes with their own backends.      *)
(***************************************************************************)
LEMMA NextOwnInv == OwnInv /\ RefInv /\ [Next]_vars => OwnInv'
<1> SUFFICES ASSUME OwnInv, RefInv, [Next]_vars, DistinctLabels'
             PROVE  OwnInv'
  BY DEF OwnInv
<1>1. conf' = conf /\ cfg' = cfg
  BY DEF Next, vars, NextStage, BuildBackend, BuildRoute, SkipRoute, BuildL4Route, SkipL4Route,
         BuildListenerSet, Returned
<1>2. DistinctLabels
  BY <1>1 DEF DistinctLabels, AllServices
<1>3. ASSUME NEW name \in Name, SkipRoute(name) \/ SkipL4Route(name)
      PROVE  OwnInv'
  BY <1>2, <1>3, NothingWrittenOwn DEF SkipRoute, SkipL4Route
<1>4. CASE UNCHANGED vars
  BY <1>2, <1>4, NothingWrittenOwn DEF vars
<1>5. CASE BuildListenerSet
  <2>1. PICK content :
          /\ desired' = Inserted({<<ListenerSetKey, content>>}) /\ stage' = "done"
          /\ UNCHANGED <<cfg, conf, index>>
    BY <1>5 DEF BuildListenerSet
  <2> DEFINE objects == {<<ListenerSetKey, content>>}
  <2>2. \A o \in objects : o[1] = ListenerSetKey
    OBVIOUS
  <2>3. ListenerSetKey.kind \notin BackendKinds \cup RouteKinds
    BY DEF ListenerSetKey, Key, BackendKinds, RouteKinds
  <2>4. ListenerSetKey \notin Routes' /\ TodoServices'
    BY <2>1, <2>3 DEF Routes, TodoServices
  <2> HIDE DEF objects
  <2>5. desired' = Inserted(objects)
    BY <2>1 DEF objects
  <2>6. ASSUME NEW key, key = ListenerSetKey
        PROVE  OwnInv'
    BY <1>2, <2>1, <2>2, <2>3, <2>4, <2>5, <2>6, WriteRouteOwn
  <2> QED
    BY <2>6
<1> QED
  BY <1>2, <1>3, <1>4, <1>5, NextStageOwn, BuildBackendOwn, BuildRouteOwn, BuildL4RouteOwn
     DEF Next, Returned

(***************************************************************************)
(* For every response whose services have different labels and all         *)
(* settings: the backend that a route refers to is the one of the service  *)
(* that its router names, in its own family, with the port of the          *)
(* reference; and behind a Service there is a slice of that service whose  *)
(* servers have that port (src/transform/backend.rs:68-123, 402-770).      *)
(***************************************************************************)
THEOREM RoutesLeadHome == TranslateSpec => []RoutedToOwnBackend
<1>1. Init => OwnInv /\ RefInv
  <2> SUFFICES ASSUME Init
               PROVE  OwnInv /\ RefInv
    OBVIOUS
  <2>1. DOMAIN <<>> = {}
    OBVIOUS
  <2>3. RefInv
    BY InitRefInv
  <2>4. TodoServices
    BY DEF Init, TodoServices, Family, Infix
  <2>5. IndexOwn /\ \A k \in Routes : RouteOwn(k)
    BY <2>1 DEF Init, IndexOwn, Routes
  <2> QED
    BY <2>3, <2>4, <2>5 DEF OwnInv
<1>2. OwnInv /\ RefInv /\ [Next]_vars => (OwnInv /\ RefInv)'
  BY NextOwnInv, NextRefInv
<1>3. OwnInv => RoutedToOwnBackend
  <2> SUFFICES ASSUME OwnInv, DistinctLabels, NEW k \in Routes, NEW b \in desired[k].refs,
                      b.kind \in {"Service", "Backend"}
               PROVE  /\ desired[b].of = <<InfixOf(k.kind), ServiceOf(k)>>
                      /\ desired[b].port = desired[k].backend.port
                      /\ b.kind = "Service" =>
                           \E x \in DOMAIN desired :
                             /\ x.kind = "EndpointSlice" /\ desired[x].service = b
                             /\ desired[x].of = desired[b].of
                             /\ \A server \in desired[x].servers : server.port = desired[b].port
    BY DEF RoutedToOwnBackend
  <2> DEFINE s == <<InfixOf(k.kind), ServiceOf(k)>>
             e == EmissionOf(s)
  <2>1. b # ParentRef
    BY DEF ParentRef, Key
  <2>2. /\ Named(s) /\ InPlace(s) /\ e.resolved # None
        /\ desired[k].backend = e.resolved /\ b = e.resolved.key
    BY <2>1 DEF OwnInv, RouteOwn, Resolves
  <2>3. LeadsHome(e, s)
    <3>1. ClassOf(s).class # "Empty"
      BY <2>2 DEF EmissionOf, emit_backend, Emission
    <3>2. s[1] = InfixOf(k.kind) /\ s[2] = ServiceOf(k) /\ s = <<s[1], s[2]>>
      OBVIOUS
    <3> HIDE DEF s
    <3> QED
      BY <3>1, <3>2, EmissionLeadsHome DEF EmissionOf, ClassOf
  <2> HIDE DEF s, e
  <2>4. PICK o \in e.objects :
          /\ o[1] = e.resolved.key /\ o[2].of = s /\ o[2].port = e.resolved.port
          /\ o[1].kind = "Service" =>
               \E p \in e.objects :
                 /\ p[1].kind = "EndpointSlice" /\ p[2].service = o[1] /\ p[2].of = s
                 /\ \A server \in p[2].servers : server.port = o[2].port
    BY <2>2, <2>3 DEF LeadsHome
  <2>5. \A p \in e.objects : p[1] \in DOMAIN desired /\ desired[p[1]] = p[2]
    BY <2>2 DEF InPlace, e
  <2> QED
    BY <2>2, <2>4, <2>5 DEF s
<1> QED
  BY <1>1, <1>2, <1>3, PTL DEF TranslateSpec
=============================================================================
