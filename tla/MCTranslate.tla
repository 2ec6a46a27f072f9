----------------------------- MODULE MCTranslate -----------------------------
(***************************************************************************)
(* Responses of pangolin, one family of them for each part of build_desired*)
(* that can go wrong: rules, protection, backends, ports.  Names differ in *)
(* what dns_label changes.                                                 *)
(***************************************************************************)
EXTENDS Translate, TLC

Rank == ("a-b" :> 1) @@ ("a_b" :> 2) @@ ("badger" :> 3) @@ ("edge.public" :> 4) @@ ("https-only" :> 5)
          @@ ("pangolin" :> 6) @@ ("r" :> 7) @@ ("redirect" :> 8) @@ ("s" :> 9) @@ ("tcp-x" :> 10)
          @@ ("w.1.2.3.a" :> 11) @@ ("w.1.2.3.b" :> 12) @@ ("x" :> 13) @@ ("y" :> 14)

MCName == DOMAIN Rank

MCBefore(a, b) == Rank[a] < Rank[b]

MCParts ==
  [n \in MCName |->
    CASE n \in {"a-b", "a_b"} -> <<"a", "b">>
      [] n = "edge.public" -> <<"edge", "public">>
      [] n = "https-only" -> <<"https", "only">>
      [] n = "tcp-x" -> <<"tcp", "x">>
      [] n = "w.1.2.3.a" -> <<"w", "1", "2", "3", "a">>
      [] n = "w.1.2.3.b" -> <<"w", "1", "2", "3", "b">>
      [] OTHER -> <<n>>]

MCVerbatim ==
  [n \in MCName |->
    IF n \in {"a_b", "edge.public", "w.1.2.3.a", "w.1.2.3.b"} THEN <<n>> ELSE MCParts[n]]

-----------------------------------------------------------------------------
(* Rules of up to three predicates over two hosts and two paths.           *)

MCNormalizePath(p) == IF p = "api" THEN "/api" ELSE p

MCSegments ==
  ("" :> <<>>) @@ ("/" :> <<>>) @@ ("/api" :> <<"api">>) @@ ("/api/v1" :> <<"api", "v1">>) @@ ("/foo" :> <<"foo">>)

MCFits(kind, path, value) ==
  CASE kind = "Path" -> path = value
    [] kind = "PathPrefix" -> StartsWith(MCSegments[path], MCSegments[value])
    [] kind = "PathRegexp" -> path # "/"

MCRequest == [host : {"x", "y"}, path : {"/", "/api", "/api/v1"}, other : BOOLEAN]

Atom ==
  {Predicate("Host", <<"x">>), Predicate("Host", <<"x", "y">>), Predicate("HostRegexp", <<"x">>),
   Predicate("PathPrefix", <<"api">>), Predicate("Path", <<"/api">>), Predicate("PathRegexp", <<"^/.">>),
   Predicate("PathPrefix", <<"/api", "/foo">>), Predicate("Path", <<>>), Predicate("Method", <<"GET">>)}

Literals == {<<a>> : a \in Atom} \cup {<<Operator("!"), a>> : a \in Atom}

Connector == {<<Operator("&&")>>, <<Operator("||")>>}

TwoLiterals == {l \o c \o m : l \in Literals, c \in Connector, m \in Literals}

MCRule ==
  Literals \cup TwoLiterals
    \cup {<<a>> \o c \o <<b>> \o d \o <<e>> : a \in Atom, b \in Atom, e \in Atom, c \in Connector, d \in Connector}

-----------------------------------------------------------------------------
(* Building blocks.                                                        *)

Host(kind, name, namespace) == [kind |-> kind, name |-> name, namespace |-> namespace]
Server(host, port, tls) == [host |-> host, port |-> port, tls |-> tls]

ip1 == Host("ip", "1", "")
ip2 == Host("ip", "2", "")
near == Host("cluster", "echo", "here")
far == Host("cluster", "echo", "there")
name1 == Host("fqdn", "api", "")

Service(servers, transport) == [servers |-> servers, transport |-> transport]

Router(rule, service, middlewares, entry_points, tls) ==
  [rule |-> rule, service |-> service, middlewares |-> middlewares,
   entry_points |-> entry_points, tls |-> tls]

L4Router(rule, service, entry_points, tls) ==
  [rule |-> rule, service |-> service, entry_points |-> entry_points, tls |-> tls]

Port(proto, port) == [proto |-> proto, port |-> port]

NoL4 == [services |-> <<>>, routers |-> <<>>]

\* The middlewares of a response; one is not called what it is.
Mw(kind, fields) == [kind |-> kind, badger |-> FALSE] @@ fields

Middlewares ==
  ("s" :> [kind |-> "plugin", badger |-> TRUE])
    @@ ("redirect" :> Mw("redirectScheme", [scheme |-> "https"]))

HttpWith(middlewares, services, routers) ==
  [services |-> services, routers |-> routers, middlewares |-> middlewares, transports |-> ("s" :> TRUE)]

Http(services, routers) == HttpWith(Middlewares, services, routers)

Response(http, tcp, udp) == [http |-> http, tcp |-> tcp, udp |-> udp]

Plain == Service(<<Server(ip1, "8080", FALSE)>>, None)

HostRule(h) == <<Predicate("Host", <<h>>)>>

Web == <<"web">>
WebSecure == <<"websecure">>

-----------------------------------------------------------------------------
\* Every rule, alone.
RuleResponses ==
  {Response(Http("x" :> Plain, "r" :> Router(rule, "x", <<>>, Web, FALSE)), NoL4, NoL4) : rule \in MCRule}

\* Two routers, whose names may become one, with every mix of protection.
Chains == {<<>>, <<"s">>, <<"badger">>, <<"redirect">>, <<"redirect", "badger">>}

AuthResponses ==
  {Response(Http("x" :> Plain,
                 (names[1] :> Router(HostRule("x"), service, m1, Web, FALSE))
                   @@ (names[2] :> Router(HostRule(h), "x", m2, <<"https">>, FALSE))), NoL4, NoL4) :
     names \in {<<"a-b", "a_b">>, <<"r", "s">>}, m1 \in Chains, m2 \in Chains,
     h \in {"x", "y"}, service \in {"x", "y"}}

\* Services of every kind, under names that meet across the families.
Servers ==
  {<<>>, <<None>>, <<Server(name1, "80", FALSE)>>, <<Server(name1, "443", TRUE)>>,
   <<Server(near, "80", FALSE)>>, <<Server(near, "443", TRUE)>>, <<Server(far, "443", TRUE)>>,
   <<Server(name1, "80", FALSE), Server(ip1, "80", FALSE), Server(ip2, "81", FALSE), Server(ip2, "80", FALSE)>>,
   <<Server(ip1, "443", TRUE), Server(ip2, "443", FALSE)>>}

L4Family(infix, name, servers) ==
  [services |-> (name :> Service(servers, None)),
   routers |-> ("r" :> L4Router("none", name, <<Port(infix, "5000")>>, FALSE))]

L4Servers ==
  {<<>>, <<Server(ip1, "53", FALSE)>>, <<Server(near, "53", FALSE)>>, <<Server(name1, "53", FALSE)>>}

BackendResponses ==
  {Response(Http(("x" :> Service(s1, "s")) @@ (n :> Service(s2, None)),
                 ("r" :> Router(HostRule("x"), "x", <<>>, WebSecure, TRUE))
                   @@ ("s" :> Router(HostRule("y"), n, <<>>, Web, FALSE))),
            L4Family("tcp", "x", t), L4Family("udp", "x", u)) :
     s1 \in Servers, s2 \in Servers, n \in {"y", "tcp-x"}, t \in L4Servers, u \in {<<>>, <<Server(ip2, "53", FALSE)>>}}

\* TCP and UDP routers that want the same ports, or those of HTTP.
EntryPoints ==
  {<<>>, <<Port("tcp", "5000")>>, <<Port("tcp", "80"), Port("tcp", "5000")>>,
   <<Port("tcp", "5001"), Port("tcp", "5000"), Port("udp", "5000")>>, <<Port("web", None), Port("tcp", None)>>}

UdpEntryPoints == {<<Port("udp", "5000"), Port("udp", "80")>>, <<Port("tcp", "5000")>>}

L4Rules == {<<"none", FALSE>>, <<"HostSNI(*)", FALSE>>, <<"HostSNI(db)", FALSE>>, <<"none", TRUE>>}

PortResponses ==
  {Response(Http("x" :> Plain, "r" :> Router(HostRule("x"), "x", <<>>, WebSecure, TRUE)),
            [services |-> ("y" :> Plain),
             routers |-> (names[1] :> L4Router(rule[1], "y", e1, rule[2]))
                           @@ (names[2] :> L4Router("HostSNI(*)", "y", e2, FALSE))],
            [services |-> ("y" :> Plain),
             routers |-> (names[1] :> L4Router(rule[1], "y", e3, rule[2]))
                           @@ (names[2] :> L4Router("none", "y", e4, FALSE))]) :
     names \in {<<"a-b", "a_b">>, <<"r", "s">>}, rule \in L4Rules, e1 \in EntryPoints, e2 \in EntryPoints,
     e3 \in UdpEntryPoints, e4 \in UdpEntryPoints}

AllMiddlewares ==
  Middlewares
    @@ ("to ws" :> Mw("redirectScheme", [scheme |-> "ws"]))
    @@ ("host" :> Mw("headers", [request |-> {<<"Host", "x">>, <<"H", "1">>}, response |-> {<<"R", "1">>}]))
    @@ ("host again" :> Mw("headers", [request |-> {<<"Host", "y">>, <<"G", "2">>}, response |-> {}]))
    @@ ("reply" :> Mw("headers", [request |-> {}, response |-> {<<"R", "2">>, <<"S", "2">>}]))
    @@ ("add" :> Mw("addPrefix", [prefix |-> "/foo"]))
    @@ ("add nothing" :> Mw("addPrefix", [prefix |-> Absent]))
    @@ ("strip" :> Mw("stripPrefix", [prefixes |-> <<"/api">>]))
    @@ ("strip none" :> Mw("stripPrefix", [prefixes |-> <<>>]))
    @@ ("replace" :> Mw("replacePath", [path |-> "/foo"]))
    @@ ("regex" :> Mw("replacePathRegex", <<>>))

\* Chains of middlewares under the three kinds of path.
Pairs == {<<m, n>> : m \in DOMAIN AllMiddlewares, n \in DOMAIN AllMiddlewares}

FilterChains == Pairs \cup {p \o <<m>> : p \in Pairs, m \in {"host", "add"}} \cup {<<"nowhere", "strip">>}

FilterRules ==
  {HostRule("x")} \cup
    {HostRule("x") \o <<Operator("&&"), path>> :
       path \in {Predicate("PathPrefix", <<"api">>), Predicate("PathPrefix", <<"/">>), Predicate("Path", <<"/api">>)}}

FilterResponses ==
  {Response(HttpWith(AllMiddlewares, "x" :> Plain, "r" :> Router(rule, "x", chain, Web, FALSE)), NoL4, NoL4) :
     rule \in FilterRules, chain \in FilterChains}

\* Services, routers and hosts with long names, and names that meet.
NamePairs == {<<"w.1.2.3.a", "w.1.2.3.b">>, <<"a-b", "a_b">>, <<"w.1.2.3.a", "x">>}

NameResponses ==
  {Response(Http((s[1] :> Plain) @@ (s[2] :> Service(<<Server(ip2, "81", FALSE)>>, None)),
                 (r[1] :> Router(HostRule(h[1]), s[1], m, WebSecure, TRUE))
                   @@ (r[2] :> Router(HostRule(h[2]), s[2], <<"s">>, WebSecure, TRUE))), NoL4, NoL4) :
     s \in NamePairs, r \in NamePairs, h \in NamePairs, m \in {<<>>, <<"s">>}}

MCTraefikDynamicConfig ==
  RuleResponses \cup AuthResponses \cup BackendResponses \cup PortResponses \cup FilterResponses
    \cup NameResponses

Base ==
  [backend_kind |-> "envoy-backend", enable_tcp_routes |-> TRUE, enable_udp_routes |-> TRUE,
   ext_authz |-> TRUE, allow_unauthenticated_routes |-> FALSE, enable_https_listeners |-> TRUE,
   tls_secret_template |-> TRUE, http_port |-> "80", https_port |-> "443",
   listener_set_name |-> "pangolin", namespace |-> "here"]

MCConfig ==
  {Base, [Base EXCEPT !.backend_kind = "service", !.ext_authz = FALSE, !.enable_udp_routes = FALSE],
   [Base EXCEPT !.backend_kind = "service", !.listener_set_name = "edge.public",
                !.enable_https_listeners = FALSE],
   [Base EXCEPT !.ext_authz = FALSE, !.allow_unauthenticated_routes = TRUE, !.enable_tcp_routes = FALSE]}

BaseOnly == {Base}
ServiceMode == {[Base EXCEPT !.backend_kind = "service"]}

-----------------------------------------------------------------------------
\* What pangolin emits for one resource with TLS: the protected router on
\* websecure, and next to it a redirect on web.
PangolinPair ==
  {Response(Http("x" :> Plain,
                 ("r" :> Router(HostRule("x"), "x", <<"badger">>, WebSecure, TRUE))
                   @@ ("s" :> Router(HostRule("x"), "x", <<"redirect">>, Web, FALSE))), NoL4, NoL4)}

\* A prefix is added to paths under a prefix.
PrefixUnderPrefix ==
  {Response(HttpWith(AllMiddlewares, "x" :> Plain,
                 "r" :> Router(HostRule("x") \o <<Operator("&&"), Predicate("PathPrefix", <<"/api">>)>>, "x",
                               <<"add">>, Web, FALSE)), NoL4, NoL4)}

\* One Service, reached over TLS by one resource and without by another.
TwoSchemes ==
  {Response(Http(("x" :> Service(<<Server(near, "443", TRUE)>>, None))
                   @@ ("y" :> Service(<<Server(near, "80", FALSE)>>, None)),
                 ("r" :> Router(HostRule("x"), "x", <<>>, WebSecure, TRUE))
                   @@ ("s" :> Router(HostRule("y"), "y", <<>>, WebSecure, TRUE))), NoL4, NoL4)}
=============================================================================
