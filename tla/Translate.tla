------------------------------ MODULE Translate ------------------------------
(***************************************************************************)
(* build_desired (src/transform/mod.rs): one response of pangolin becomes  *)
(* the set of objects the namespace should have.  It goes through the      *)
(* services and routers of the three families in the order of their names, *)
(* one per step, and ends with the ListenerSet.  Everything it builds goes *)
(* into maps keyed by the sanitized name, so a later object silently       *)
(* replaces an earlier one whose name became the same.                     *)
(***************************************************************************)
EXTENDS Backends, Rule, Middleware

CONSTANTS
  Before(_, _),        \* the order of names, a total order
  Request,             \* requests [host, path, other]
  Config,              \* settings that reach the translation
  TraefikDynamicConfig \* the responses of this instance

\* Name has the names of routers, services and hosts that a response gives.
ASSUME NameAssumption ==
  \A response \in TraefikDynamicConfig :
    /\ \A family \in {response.http, response.tcp, response.udp} :
         DOMAIN family.services \subseteq Name /\ DOMAIN family.routers \subseteq Name
    /\ \A r \in DOMAIN response.http.routers : parse(response.http.routers[r].rule).hosts \subseteq Name

\* The rules of HTTP routers are finite, as strings are.
ASSUME RuleAssumption ==
  \A response \in TraefikDynamicConfig :
    \A r \in DOMAIN response.http.routers : response.http.routers[r].rule \in Seq(Token)

\* Middlewares are listed one after the other, and what they hold is strings.
ASSUME MiddlewareAssumption ==
  /\ Absent \notin STRING \cup {""}
  /\ Absent \notin [type : {"ReplacePrefixMatch", "ReplaceFullPath"}, value : STRING \cup {""}]
  /\ \A response \in TraefikDynamicConfig :
       /\ \A r \in DOMAIN response.http.routers : response.http.routers[r].middlewares \in Seq(STRING)
       /\ \A m \in DOMAIN response.http.middlewares :
            LET mw == response.http.middlewares[m]
            IN  /\ mw.kind = "addPrefix" => mw.prefix \in STRING \cup {Absent}
                /\ mw.kind = "replacePath" => mw.path \in STRING \cup {Absent}
                /\ mw.kind = "headers" =>
                     \A side \in {"request", "response"} : mw[side] \subseteq STRING \X STRING

\* The path "" has no segments, and what a prefix matches starts with its own.
ASSUME PathAssumption ==
  /\ Segments[""] = <<>>
  /\ \A request \in Request : Segments[request.path] \in Seq(STRING)
  /\ \A response \in TraefikDynamicConfig :
       \A r \in DOMAIN response.http.routers :
         LET path == parse(response.http.routers[r].rule).path
         IN  path.kind = "PathPrefix" =>
               /\ Segments[path.value] \in Seq(STRING)
               /\ \A request \in Request :
                    Fits("PathPrefix", request.path, path.value) =>
                      StartsWith(Segments[request.path], Segments[path.value])

VARIABLES
  cfg,          \* the settings
  conf,         \* the response
  stage,        \* the loop the function is in
  todo,         \* names that this loop has not come to yet
  index,        \* BackendIndex of the family: the resolved backend of a service, or None
  desired,      \* Desired: the content of each key
  hosts,        \* RouteIndex: hosts that need a listener, ...
  https_hosts,  \* ... and of these the ones that need TLS
  claimed_ports,\* the router that has claimed a port of the family
  listeners     \* TCP and UDP listeners for the ListenerSet

vars == <<cfg, conf, stage, todo, index, desired, hosts, https_hosts, claimed_ports, listeners>>

Stages == <<"http backends", "routes", "tcp backends", "tcp routes", "udp backends", "udp routes",
            "listeners", "done">>

ListenerSetKey == Key("ListenerSet", Label(<<>>, cfg.listener_set_name))

\* parentRefs name the ListenerSet as it is configured.
ParentRef == Key("ListenerSet", Verbatim[cfg.listener_set_name])

\* The family of a stage.
Infix == CASE stage \in {"tcp backends", "tcp routes"} -> "tcp"
           [] stage \in {"udp backends", "udp routes"} -> "udp"
           [] OTHER -> ""

Family == IF Infix = "" THEN conf.http ELSE IF Infix = "tcp" THEN conf.tcp ELSE conf.udp

Enabled(place) ==
  CASE place \in {"tcp backends", "tcp routes"} -> cfg.enable_tcp_routes
    [] place \in {"udp backends", "udp routes"} -> cfg.enable_udp_routes
    [] OTHER -> TRUE

\* The names that a loop goes through.
Work(place) ==
  CASE ~Enabled(place) -> {}
    [] Enabled(place) /\ place = "http backends" -> DOMAIN conf.http.services
    [] Enabled(place) /\ place = "routes"        -> DOMAIN conf.http.routers
    [] Enabled(place) /\ place = "tcp backends"  -> DOMAIN conf.tcp.services
    [] Enabled(place) /\ place = "tcp routes"    -> DOMAIN conf.tcp.routers
    [] Enabled(place) /\ place = "udp backends"  -> DOMAIN conf.udp.services
    [] Enabled(place) /\ place = "udp routes"    -> DOMAIN conf.udp.routers
    [] OTHER -> {}

\* desired with the objects, pairs of a key and a content, inserted.
Inserted(objects) ==
  [k \in DOMAIN desired \cup {o[1] : o \in objects} |->
    IF \E o \in objects : o[1] = k THEN (CHOOSE o \in objects : o[1] = k)[2] ELSE desired[k]]

Init ==
  /\ cfg \in Config
  /\ conf \in TraefikDynamicConfig
  /\ stage = "http backends"
  /\ todo = DOMAIN conf.http.services
  /\ index = <<>>
  /\ desired = <<>>
  /\ hosts = {} /\ https_hosts = {}
  /\ claimed_ports = <<>>
  /\ listeners = {}

\* The loop takes the least name that is left.
Takes(name) == name \in todo /\ \A other \in todo : other = name \/ Before(name, other)

Advance == todo = {} /\ stage \notin {"listeners", "done"}

\* The next loop; each family starts with its own index and ports.
NextStage ==
  /\ Advance
  /\ LET i == CHOOSE i \in DOMAIN Stages : Stages[i] = stage
         next == Stages[i + 1]
     IN  /\ stage' = next
         /\ todo' = Work(next)
         /\ index' = IF next \in {"tcp backends", "udp backends"} THEN <<>> ELSE index
         /\ claimed_ports' = IF next \in {"tcp backends", "udp backends"} THEN <<>> ELSE claimed_ports
  /\ UNCHANGED <<cfg, conf, desired, hosts, https_hosts, listeners>>

-----------------------------------------------------------------------------
(* build_backends and build_l4_backends                                    *)

SkipsVerify(service) ==
  /\ Infix = ""
  /\ service.transport \in DOMAIN conf.http.transports
  /\ conf.http.transports[service.transport]

BuildBackend(name) ==
  /\ stage \in {"http backends", "tcp backends", "udp backends"}
  /\ Takes(name)
  /\ LET service == Family.services[name]
         class == classify_entries(service.servers, cfg.backend_kind)
         emission == emit_backend(name, Infix, class, SkipsVerify(service), cfg)
     IN  /\ desired' = Inserted(emission.objects)
         /\ index' = IF emission.resolved = None THEN index
                     ELSE [n \in DOMAIN index \cup {name} |->
                             IF n = name THEN emission.resolved ELSE index[n]]
  /\ todo' = todo \ {name}
  /\ UNCHANGED <<cfg, conf, stage, hosts, https_hosts, claimed_ports, listeners>>

-----------------------------------------------------------------------------
(* build_routes: the HTTP routers                                          *)

requires_badger_auth(router) == has_badger(router.middlewares, conf.http.middlewares)

Filters(router) == build_filters(router.middlewares, conf.http.middlewares)

\* A redirect takes the place of the backend.
Terminating(router) == is_terminating(Filters(router))

Parsed(router) == parse(router.rule)

\* Mutant: the router is let through when ext-authz is off.
UnwantedWithoutAuth(router) == ~is_usable(Parsed(router)) \/ router.service \notin DOMAIN index

Unwanted(router) ==
  \/ ~is_usable(Parsed(router))
  \/ requires_badger_auth(router) /\ ~cfg.ext_authz /\ ~cfg.allow_unauthenticated_routes
  \/ router.service \notin DOMAIN index

\* References within the desired set; an existing Service is outside of it.
Refs(resolved) == IF resolved.key.kind = "ExistingService" THEN {} ELSE {resolved.key}

RouteKey(name) == Key("HTTPRoute", Label(<<"hr">>, name))

\* The name of the policy is made from the label of the route.
PolicyOf(routeKey) ==
  Key("SecurityPolicy", dns_label(<<"sp">> \o routeKey.name, <<"sp">> \o routeKey.name))

HttpRoute(name, router) ==
  [of |-> name, parsed |-> Parsed(router), filters |-> Filters(router),
   backend |-> IF Terminating(router) THEN None ELSE index[router.service],
   refs |-> {ParentRef} \cup (IF Terminating(router) THEN {} ELSE Refs(index[router.service])),
   guards |-> IF requires_badger_auth(router) /\ cfg.ext_authz THEN {PolicyOf(RouteKey(name))} ELSE {}]

BuildRoute(name) ==
  /\ stage = "routes"
  /\ Takes(name)
  /\ LET router == conf.http.routers[name]
         route == HttpRoute(name, router)
     IN  /\ ~Unwanted(router)
         /\ desired' = Inserted({<<RouteKey(name), route>>}
                                  \cup {<<p, [target |-> RouteKey(name)]>> : p \in route.guards})
         /\ hosts' = hosts \cup route.parsed.hosts
         /\ https_hosts' =
              IF cfg.enable_https_listeners /\ (router.tls \/ "https" \in Range(router.entry_points))
                THEN https_hosts \cup route.parsed.hosts ELSE https_hosts
  /\ todo' = todo \ {name}
  /\ UNCHANGED <<cfg, conf, stage, index, claimed_ports, listeners>>

SkipRoute(name) ==
  /\ stage = "routes"
  /\ Takes(name)
  /\ Unwanted(conf.http.routers[name])
  /\ todo' = todo \ {name}
  /\ UNCHANGED <<cfg, conf, stage, index, desired, hosts, https_hosts, claimed_ports, listeners>>

-----------------------------------------------------------------------------
(* build_l4: the TCP and UDP routers                                       *)

\* Entry points [proto, port]; one whose name encodes no port has port None.
EncodedPorts(router) == {ep.port : ep \in {e \in Range(router.entry_points) : e.proto = Infix}}

Reserved == IF Infix = "tcp" THEN {cfg.http_port, cfg.https_port} ELSE {}

\* Mutants: a claimed port, or a name without a port, is not left out.
UsablePortsClaimed(router) == EncodedPorts(router) \ ({None} \cup Reserved)
UsablePortsUnparsed(router) == EncodedPorts(router) \ (Reserved \cup DOMAIN claimed_ports)

UsablePorts(router) == EncodedPorts(router) \ ({None} \cup Reserved \cup DOMAIN claimed_ports)

\* No TLS options, and no rule but the one that matches everything.
rule_is_supported(router) ==
  ~router.tls /\ (router.rule = "none" \/ (Infix = "tcp" /\ router.rule = "HostSNI(*)"))

L4Key(name) ==
  Key(IF Infix = "tcp" THEN "TCPRoute" ELSE "UDPRoute", Label(<<Infix>>, name))

UnwantedL4(router) == ~rule_is_supported(router) \/ router.service \notin DOMAIN index

Listener(name, protocol, port, host) ==
  [name |-> name, protocol |-> protocol, port |-> port, hostname |-> host]

\* One parentRef for each section, and the one backend.
L4Route(name, backend, sections) ==
  [of |-> name, backend |-> backend, refs |-> {ParentRef} \cup Refs(backend),
   sections |-> {s.name : s \in sections}]

BuildL4Route(name) ==
  /\ stage \in {"tcp routes", "udp routes"}
  /\ Takes(name)
  /\ LET router == Family.routers[name]
         ports == UsablePorts(router)
         sections == {Listener(<<Infix, p>>, Infix, p, None) : p \in ports}
     IN  /\ ~UnwantedL4(router)
         /\ ports # {}
         /\ claimed_ports' = [p \in DOMAIN claimed_ports \cup ports |->
                                IF p \in ports THEN name ELSE claimed_ports[p]]
         /\ listeners' = listeners \cup sections
         /\ desired' = Inserted({<<L4Key(name), L4Route(name, index[router.service], sections)>>})
  /\ todo' = todo \ {name}
  /\ UNCHANGED <<cfg, conf, stage, index, hosts, https_hosts>>

SkipL4Route(name) ==
  /\ stage \in {"tcp routes", "udp routes"}
  /\ Takes(name)
  /\ UnwantedL4(Family.routers[name]) \/ UsablePorts(Family.routers[name]) = {}
  /\ todo' = todo \ {name}
  /\ UNCHANGED <<cfg, conf, stage, index, desired, hosts, https_hosts, claimed_ports, listeners>>

-----------------------------------------------------------------------------
(* build_listener_set                                                      *)

HttpListeners ==
  {Listener(Label(<<"http">>, h), "http", cfg.http_port, h) : h \in hosts}
    \cup (IF cfg.enable_https_listeners /\ cfg.tls_secret_template
            THEN {Listener(Label(<<"https">>, h), "https", cfg.https_port, h) : h \in https_hosts}
            ELSE {})

BuildListenerSet ==
  /\ stage = "listeners"
  /\ desired' = Inserted({<<ListenerSetKey, [listeners |-> HttpListeners \cup listeners]>>})
  /\ stage' = "done"
  /\ UNCHANGED <<cfg, conf, todo, index, hosts, https_hosts, claimed_ports, listeners>>

\* The function has returned.
Returned == stage = "done" /\ UNCHANGED vars

Next ==
  \/ NextStage
  \/ \E name \in Name : \/ BuildBackend(name)
                        \/ BuildRoute(name) \/ SkipRoute(name)
                        \/ BuildL4Route(name) \/ SkipL4Route(name)
  \/ BuildListenerSet
  \/ Returned

TranslateSpec == Init /\ [][Next]_vars

-----------------------------------------------------------------------------
(* Properties.                                                             *)

RouteKinds == {"HTTPRoute", "TCPRoute", "UDPRoute"}

Routes == {k \in DOMAIN desired : k.kind \in RouteKinds}

HttpRoutes == {k \in DOMAIN desired : k.kind = "HTTPRoute"}

Kinds == RouteKinds \cup {"Service", "EndpointSlice", "Backend", "BackendTLSPolicy", "ListenerSet",
                          "SecurityPolicy"}

TypeOK ==
  /\ stage \in Range(Stages)
  /\ todo \subseteq Name
  /\ DOMAIN index \subseteq Name
  /\ \A n \in DOMAIN index : index[n].key.kind \in {"Service", "Backend", "ExistingService"}
  /\ \A k \in DOMAIN desired : k.kind \in Kinds
  /\ hosts \subseteq Name /\ https_hosts \subseteq hosts
  /\ None \notin DOMAIN claimed_ports
  /\ \A p \in DOMAIN claimed_ports : claimed_ports[p] \in Name
  /\ \A l \in listeners : l.protocol \in {"tcp", "udp"}

(***************************************************************************)
(* What the reconciliation loop takes for granted of build_desired: every  *)
(* backend, ListenerSet and policy that a route refers to is in the same   *)
(* desired set, through skipped services, replaced objects and L4 families *)
(* that are off; and the ListenerSet has a listener for each host and each *)
(* section of a route.  It needs a CONFIG_LISTENERSET_NAME that dns_label  *)
(* leaves as it is (src/transform/listener.rs:62, route.rs:150).           *)
(***************************************************************************)
RefsResolve ==
  stage = "done" /\ ParentRef = ListenerSetKey =>
    \A k \in Routes :
      /\ desired[k].refs \subseteq DOMAIN desired
      /\ k.kind = "HTTPRoute" =>
           /\ desired[k].guards \subseteq DOMAIN desired
           /\ \A h \in desired[k].parsed.hosts :
                \E l \in desired[ListenerSetKey].listeners : l.hostname = h
      /\ k.kind # "HTTPRoute" =>
           desired[k].sections \subseteq {l.name : l \in desired[ListenerSetKey].listeners}

(***************************************************************************)
(* A protected router is never translated into a route without a policy    *)
(* that targets it, unless CONFIG_ALLOW_UNAUTHENTICATED_ROUTES is set, not *)
(* even when another router has taken or takes the name of the route       *)
(* (src/transform/route.rs:54-76, 173-180).                                *)
(***************************************************************************)
Guarded ==
  ~cfg.allow_unauthenticated_routes =>
    \A k \in Routes :
      k.kind = "HTTPRoute" /\ requires_badger_auth(conf.http.routers[desired[k].of]) =>
        \E p \in DOMAIN desired : p.kind = "SecurityPolicy" /\ desired[p].target = k

\* The services of the three families, as pairs of an infix and a name.
AllServices ==
  {<<"", n>> : n \in DOMAIN conf.http.services}
    \cup {<<"tcp", n>> : n \in DOMAIN conf.tcp.services}
    \cup {<<"udp", n>> : n \in DOMAIN conf.udp.services}

\* No two services get the same name, whatever their names have become.
DistinctLabels ==
  \A s, t \in AllServices :
    s # t => (IF s[1] = "" THEN <<>> ELSE <<s[1]>>) \o Parts[s[2]]
               # (IF t[1] = "" THEN <<>> ELSE <<t[1]>>) \o Parts[t[2]]

InfixOf(kind) == CASE kind = "TCPRoute" -> "tcp" [] kind = "UDPRoute" -> "udp" [] OTHER -> ""

ServiceOf(k) ==
  CASE k.kind = "TCPRoute" -> conf.tcp.routers[desired[k].of].service
    [] k.kind = "UDPRoute" -> conf.udp.routers[desired[k].of].service
    [] OTHER -> conf.http.routers[desired[k].of].service

(***************************************************************************)
(* A route leads to the servers of the service that its router names, also *)
(* when a service name is used in several of the families, and to a port   *)
(* that they have (src/transform/backend.rs:119-123).  Services whose      *)
(* names differ but become one label are replaced by one another.          *)
(***************************************************************************)
RoutedToOwnBackend ==
  stage = "done" /\ DistinctLabels =>
    \A k \in Routes :
      \A b \in desired[k].refs \cap DOMAIN desired :
        b.kind \in {"Service", "Backend"} =>
          /\ desired[b].of = <<InfixOf(k.kind), ServiceOf(k)>>
          /\ desired[b].port = desired[k].backend.port
          /\ b.kind = "Service" =>
               \E e \in DOMAIN desired :
                 /\ e.kind = "EndpointSlice" /\ desired[e].service = b
                 /\ desired[e].of = desired[b].of
                 /\ \A s \in desired[e].servers : s.port = desired[b].port

(***************************************************************************)
(* No router that can be translated is lost, not even to a router with a   *)
(* long name that differs from its own in the end only: the hash of        *)
(* src/transform/naming.rs:32-42 is there so that "distinct long names     *)
(* don't collide after truncation".  Names that differ in characters which *)
(* a label cannot have do become one.                                      *)
(***************************************************************************)
EveryRouterKept ==
  stage = "routes" /\ todo = {} =>
    \A name \in DOMAIN conf.http.routers :
      /\ ~Unwanted(conf.http.routers[name])
      /\ \A other \in DOMAIN conf.http.routers : Parts[other] = Parts[name] => other = name
      => RouteKey(name) \in DOMAIN desired /\ desired[RouteKey(name)].of = name

Transport(listener) == IF listener.protocol = "udp" THEN "udp" ELSE "tcp"

(***************************************************************************)
(* The listeners of the ListenerSet can stand side by side: two of them on *)
(* one port are HTTP listeners of different hosts, two of one name would   *)
(* be of hosts that become one label, and no listener serves two L4 routes *)
(* (src/transform/l4.rs:72-117, listener.rs:26-46).                        *)
(***************************************************************************)
PortsExclusive ==
  /\ stage = "done" =>
       \A l, m \in desired[ListenerSetKey].listeners :
         l # m =>
           /\ l.port = m.port /\ Transport(l) = Transport(m) =>
                l.protocol = m.protocol /\ l.protocol \in {"http", "https"} /\ l.hostname # m.hostname
           /\ l.name = m.name =>
                l.protocol = m.protocol /\ l.hostname # m.hostname /\ Parts[l.hostname] = Parts[m.hostname]
  /\ \A j, k \in {r \in Routes : r.kind # "HTTPRoute"} :
       j # k => desired[j].sections \cap desired[k].sections = {}

(***************************************************************************)
(* A rule is dropped or means to the HTTPRoute what it means to Traefik,   *)
(* when it has at most one Host and one path predicate: the module comment *)
(* of src/transform/rule.rs, "drop the router rather than silently         *)
(* misroute traffic".  Two Host predicates would be joined, the later of   *)
(* two path predicates would count, and of several paths the first: v3 of  *)
(* the rule language, which the parser is for, has one path to a predicate.*)
(***************************************************************************)
AtMostOne(rule, idents) ==
  \A i, j \in DOMAIN rule : rule[i].ident \in idents /\ rule[j].ident \in idents => i = j

OnePath(rule) == \A i \in DOMAIN rule : rule[i].ident \in PathIdent => Len(rule[i].args) = 1

RuleExact ==
  \A k \in Routes :
    k.kind = "HTTPRoute" =>
      LET rule == conf.http.routers[desired[k].of].rule
      IN  AtMostOne(rule, {"Host"}) /\ AtMostOne(rule, PathIdent) /\ OnePath(rule) =>
            \A request \in Request :
              Routed(desired[k].parsed, request) <=> Meant(rule, request)

\* The middlewares of a router, in their order, as far as they are known.
Chain(router) ==
  [i \in Known(router.middlewares, conf.http.middlewares) |->
     conf.http.middlewares[router.middlewares[i]]]

PathKinds == {"addPrefix", "stripPrefix", "replacePath", "replacePathRegex"}

\* The prefix that ReplacePrefixMatch replaces; without a path match it is "/".
MatchedPrefix(parsed) == IF parsed.path.kind = "PathPrefix" THEN Segments[parsed.path.value] ELSE <<>>

\* One filter can say what the path middleware does.
PathExpressible(router, parsed) ==
  LET chain == Chain(router)
      changes == {i \in DOMAIN chain : chain[i].kind \in PathKinds}
  IN  /\ \A i, j \in changes : i = j
      /\ \A i \in changes :
           \/ chain[i].kind = "replacePath"
           \/ chain[i].kind = "addPrefix" /\ parsed.path.kind \in {"None", "PathPrefix"}
                /\ MatchedPrefix(parsed) = <<>>
           \/ chain[i].kind = "stripPrefix" /\ parsed.path.kind = "PathPrefix"
                /\ chain[i].prefixes = <<parsed.path.value>>

\* A header is set once; only the host may be set by several middlewares.
HeadersDiffer(router, side) ==
  LET chain == Chain(router)
      carriers == {i \in DOMAIN chain : chain[i].kind = "headers"}
  IN  \A i, j \in carriers :
        \A g \in chain[i][side], h \in chain[j][side] :
          g[1] = h[1] => IF i = j THEN g = h ELSE side = "request" /\ g[1] = "Host"

SamePath(k, router) ==
  \A request \in Request :
    Routed(desired[k].parsed, request) =>
      RoutedPath(desired[k].filters, MatchedPrefix(desired[k].parsed), Segments[request.path])
        = MeantPath(router.middlewares, conf.http.middlewares, Segments[request.path])

SameHeaders(filters, router) ==
  LET request == MeantHeaders(router.middlewares, conf.http.middlewares, "request")
      response == MeantHeaders(router.middlewares, conf.http.middlewares, "response")
  IN  /\ RoutedHosts(filters) = {h[2] : h \in HostHeaders(request)}
      /\ RoutedHeaders(filters, "RequestHeaderModifier") = request \ HostHeaders(request)
      /\ RoutedHeaders(filters, "ResponseHeaderModifier") = response

\* The middlewares of a router that become a redirect.
Redirects(router) ==
  LET chain == Chain(router)
  IN  {i \in DOMAIN chain : chain[i].kind = "redirectScheme" /\ chain[i].scheme \in {"http", "https"}}

(***************************************************************************)
(* A route has a URLRewrite and a modifier of each side at most once, and  *)
(* one redirect for each middleware that asks for one, in its place and    *)
(* with its scheme: of redirects merge_filters merges none, so that two    *)
(* middlewares leave two, which the API rejects.  The merging of the rest  *)
(* loses nothing: a backend is sent the path, host name and headers that   *)
(* Traefik would send it, when no two middlewares change the path or the   *)
(* same header and a path change is one that a filter can express          *)
(* (src/transform/middleware.rs:62-144).                                   *)
(***************************************************************************)
ForwardedAsMeant ==
  \A k \in HttpRoutes :
    LET router == conf.http.routers[desired[k].of]
        filters == desired[k].filters
    IN  /\ OfType(filters, "RequestRedirect")
             = {<<i, Redirect(Chain(router)[i].scheme)>> : i \in Redirects(router)}
        /\ \A p, q \in filters :
             p[2].type = q[2].type => p = q \/ {p[1], q[1]} \subseteq Redirects(router)
        /\ desired[k].backend # None =>
             /\ PathExpressible(router, desired[k].parsed) => SamePath(k, router)
             /\ HeadersDiffer(router, "request") /\ HeadersDiffer(router, "response") =>
                  SameHeaders(filters, router)

(***************************************************************************)
(* A request that is forwarded is forwarded at the path that Traefik would *)
(* forward it at: deploy/README.md:59-60 says of routers that cannot be    *)
(* translated that "they are never silently misrouted".                    *)
(***************************************************************************)
NeverMisrouted ==
  \A k \in HttpRoutes : desired[k].backend # None => SamePath(k, conf.http.routers[desired[k].of])

(***************************************************************************)
(* Two routers that listen on different entry points never compete for one *)
(* request: README.md says that what cannot be translated is "logged and   *)
(* skipped rather than silently misrouted".                                *)
(***************************************************************************)
NoRivals ==
  \A j, k \in HttpRoutes :
    j # k /\ desired[j].parsed.path = desired[k].parsed.path
          /\ desired[j].parsed.hosts \cap desired[k].parsed.hosts # {}
      => Range(conf.http.routers[desired[j].of].entry_points)
           \cap Range(conf.http.routers[desired[k].of].entry_points) # {}

(***************************************************************************)
(* TLS is originated to https targets only: "TLS-origination policies for  *)
(* https targets resolved to Service backendRefs"                          *)
(* (src/transform/mod.rs:46-48).                                           *)
(***************************************************************************)
TlsOnlyToHttps ==
  stage = "done" =>
    \A p \in {k \in DOMAIN desired : k.kind = "BackendTLSPolicy"},
       k \in HttpRoutes :
      desired[k].backend # None /\ desired[k].backend.key = desired[p].target =>
        classify_entries(conf.http.services[ServiceOf(k)].servers, cfg.backend_kind).tls
=============================================================================
