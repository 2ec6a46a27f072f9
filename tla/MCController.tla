---------------------------- MODULE MCController ----------------------------
(***************************************************************************)
(* A small universe for Controller: three configurations that share and    *)
(* swap routes, backends and protection, under each of the settings.       *)
(***************************************************************************)
EXTENDS Publishing

CONSTANTS c1, c2, c3

K(kind, name) == [kind |-> kind, name |-> name]

Row(router, service, protected) ==
  [router |-> router, service |-> service, protected |-> protected]

\* The HTTP routers of each body, and whether it has a TCP router to x.
Routers(b) ==
  CASE b = c1 -> {Row("a", "x", TRUE)}
    [] b = c2 -> {Row("a", "y", FALSE), Row("b", "x", TRUE)}
    [] b = c3 -> {Row("b", "y", TRUE)}

HasTcp(b) == b = c1

\* A protected router is translated only when ext-authz is configured.
Translated(s, b) == {row \in Routers(b) : row.protected => s.ext_authz}

Services(b) == {row.service : row \in Routers(b)} \cup (IF HasTcp(b) THEN {"x"} ELSE {})

BackendKey(s, name) == K(IF s.backend_kind = "service" THEN "Service" ELSE "Backend", name)

Content(refs, guards, data) == [refs |-> refs, guards |-> guards, data |-> data]

ListenerKey == K("ListenerSet", "l")

RouteContent(s, row) ==
  Content({BackendKey(s, row.service), ListenerKey},
          IF row.protected THEN {K("SecurityPolicy", row.router)} ELSE {}, {})

Entries(s, b) ==
  {<<BackendKey(s, n), Content({}, {}, {})>> : n \in Services(b)}
  \cup {<<ListenerKey, Content({}, {}, {row.router : row \in Translated(s, b)})>>}
  \cup {<<K("HTTPRoute", row.router), RouteContent(s, row)>> : row \in Translated(s, b)}
  \cup {<<K("SecurityPolicy", row.router), Content({}, {}, {})>> :
          row \in {r \in Translated(s, b) : r.protected}}
  \cup (IF HasTcp(b) /\ s.enable_tcp_routes
          THEN {<<K("TCPRoute", "t"), Content({BackendKey(s, "x"), ListenerKey}, {}, {})>>}
          ELSE {})

MCBody2 == {c1, c2}
MCBody3 == {c1, c2, c3}

Base == [backend_kind |-> "service", enable_tcp_routes |-> TRUE, enable_udp_routes |-> FALSE,
         ext_authz |-> TRUE, read_only |-> FALSE]

OneSetting == {Base}
NoTcp == {[Base EXCEPT !.enable_tcp_routes = FALSE]}
ManySettings ==
  {Base, [Base EXCEPT !.backend_kind = "envoy-backend", !.enable_tcp_routes = FALSE,
                      !.enable_udp_routes = TRUE, !.ext_authz = FALSE],
   [Base EXCEPT !.read_only = TRUE]}

EveryEntry == UNION {Entries(s, b) : s \in Setting, b \in Body}

\* A route of somebody else, under a name that c2 and c3 call for.
Foreign == [owner |-> "other", spec |-> Content({}, {}, {"foreign"})]

MCKey  == {e[1] : e \in EveryEntry}
MCSpec == {e[2] : e \in EveryEntry} \cup {Foreign.spec}

MCBuildDesired(s, b) ==
  [k \in MCKey |->
    IF \E e \in Entries(s, b) : e[1] = k
      THEN (CHOOSE e \in Entries(s, b) : e[1] = k)[2]
      ELSE None]

MCInitialCluster ==
  [k \in MCKey |-> IF k = K("HTTPRoute", "b") THEN Foreign ELSE None]

AnyOrder == Body \X Body \ {<<b, b>> : b \in Body}
=============================================================================
