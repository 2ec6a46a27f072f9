---------------------------- MODULE ListenerProofs ----------------------------
(***************************************************************************)
(* The listeners of build_desired: their ports, their names and the routes *)
(* that are attached to them, for every response and all settings; and the *)
(* types of its state, which the listeners are a part of.                  *)
(***************************************************************************)
EXTENDS TranslateProofs

L4Kinds == {"TCPRoute", "UDPRoute"}

\* TCP and UDP listeners are made of a protocol and a port that it may use.
L4Listeners ==
  \A l \in listeners :
    /\ l.protocol \in {"tcp", "udp"}
    /\ l = Listener(<<l.protocol, l.port>>, l.protocol, l.port, None)
    /\ l.protocol = "tcp" => l.port \notin {cfg.http_port, cfg.https_port}

\* The hosts are hosts of the response.
KnownHosts ==
  /\ cfg \in Config
  /\ conf \in TraefikDynamicConfig
  /\ stage = "routes" => todo \subseteq DOMAIN conf.http.routers
  /\ hosts \subseteq Name /\ https_hosts \subseteq hosts

Claimed(infix) == {<<infix, p>> : p \in DOMAIN claimed_ports}

\* The sections of a route are of its protocol, and claimed while the loop that
\* wrote it is running; no route is there before its loop.
RouteClaims(k) ==
  /\ \A x \in desired[k].sections : x[1] = InfixOf(k.kind)
  /\ k.kind = "TCPRoute" =>
       /\ stage \notin {"http backends", "routes", "tcp backends"}
       /\ stage = "tcp routes" => desired[k].sections \subseteq Claimed("tcp")
  /\ k.kind = "UDPRoute" =>
       /\ stage \in {"udp routes", "listeners", "done"}
       /\ stage = "udp routes" => desired[k].sections \subseteq Claimed("udp")

L4Routes == {k \in DOMAIN desired : k.kind \in L4Kinds}

SectionsApart ==
  \A j, k \in L4Routes : j # k => desired[j].sections \cap desired[k].sections = {}

ListenerInv ==
  /\ L4Listeners
  /\ KnownHosts
  /\ \A k \in L4Routes : RouteClaims(k)
  /\ SectionsApart

(***************************************************************************)
(* A step that writes no L4 route and leaves listeners and claims alone.   *)
(***************************************************************************)
LEMMA OtherWriteApart ==
  ASSUME ListenerInv, NEW objects, desired' = Inserted(objects),
         \A o \in objects : o[1].kind \notin L4Kinds,
         UNCHANGED <<cfg, conf, claimed_ports, listeners>>,
         stage' = stage \/ (stage = "listeners" /\ stage' = "done"),
         KnownHosts'
  PROVE  ListenerInv'
<1>1. L4Routes' = L4Routes /\ \A k \in L4Routes : desired'[k] = desired[k]
  BY InsertedElsewhere DEF L4Routes
<1>2. \A infix : Claimed(infix)' = Claimed(infix)
  BY DEF Claimed
<1>3. \A k \in L4Routes : RouteClaims(k)'
  BY <1>1, <1>2 DEF ListenerInv, RouteClaims
<1>4. SectionsApart'
  BY <1>1 DEF ListenerInv, SectionsApart
<1>5. L4Listeners'
  BY DEF ListenerInv, L4Listeners
<1> QED
  BY <1>1, <1>3, <1>4, <1>5 DEF ListenerInv

(***************************************************************************)
(* build_l4 claims the ports of a router that nobody has claimed and that  *)
(* HTTP does not use (src/transform/l4.rs:72-117).                         *)
(***************************************************************************)
LEMMA BuildL4RouteApart ==
  ASSUME ListenerInv, NEW name \in Name, BuildL4Route(name)
  PROVE  ListenerInv'
<1> DEFINE router == Family.routers[name]
           ports == UsablePorts(router)
           sections == {Listener(<<Infix, p>>, Infix, p, None) : p \in ports}
           route == L4Route(name, index[router.service], sections)
<1>1. /\ stage \in {"tcp routes", "udp routes"} /\ stage' = stage
      /\ claimed_ports' = [p \in DOMAIN claimed_ports \cup ports |->
                             IF p \in ports THEN name ELSE claimed_ports[p]]
      /\ listeners' = listeners \cup sections
      /\ desired' = Inserted({<<L4Key(name), route>>})
      /\ UNCHANGED <<cfg, conf, hosts, https_hosts>>
  BY DEF BuildL4Route
<1>2. \/ stage = "tcp routes" /\ Infix = "tcp"
      \/ stage = "udp routes" /\ Infix = "udp"
  BY <1>1 DEF Infix
<1>3. /\ ports \cap DOMAIN claimed_ports = {}
      /\ Infix = "tcp" => ports \cap {cfg.http_port, cfg.https_port} = {}
  BY DEF UsablePorts, Reserved
<1> SUFFICES ASSUME NEW key, key = L4Key(name), NEW infix, infix = Infix
             PROVE  ListenerInv'
  OBVIOUS
<1>4. /\ key.kind = IF infix = "tcp" THEN "TCPRoute" ELSE "UDPRoute"
      /\ InfixOf(key.kind) = infix /\ key.kind \in L4Kinds
  BY <1>2 DEF L4Key, Key, InfixOf, L4Kinds
<1>5. route.sections = {<<infix, p>> : p \in ports}
  <2> DEFINE listener(p) == Listener(<<infix, p>>, infix, p, None)
             section(p) == <<infix, p>>
  <2>1. route.sections = {l.name : l \in sections}
    BY DEF L4Route
  <2>2. sections = {listener(p) : p \in ports}
    OBVIOUS
  <2>3. \A p : listener(p).name = section(p)
    BY DEF Listener
  <2> HIDE DEF ports, route, sections, listener, section
  <2>4. {l.name : l \in sections} = {listener(p).name : p \in ports}
    BY <2>2
  <2>5. {listener(p).name : p \in ports} = {section(p) : p \in ports}
    BY <2>3
  <2>6. route.sections = {section(p) : p \in ports}
    BY <2>1, <2>4, <2>5
  <2> QED
    BY <2>6 DEF section
<1>6. L4Listeners'
  <2>1. ASSUME NEW l \in sections
        PROVE  /\ l.protocol \in {"tcp", "udp"}
               /\ l = Listener(<<l.protocol, l.port>>, l.protocol, l.port, None)
               /\ l.protocol = "tcp" => l.port \notin {cfg.http_port, cfg.https_port}
    <3>1. PICK p \in ports : l = Listener(<<infix, p>>, infix, p, None)
      BY <2>1
    <3>2. l.protocol = infix /\ l.port = p
      BY <3>1 DEF Listener
    <3> QED
      BY <1>2, <1>3, <3>1, <3>2
  <2> HIDE DEF sections
  <2> QED
    BY <1>1, <2>1 DEF ListenerInv, L4Listeners
<1>7. DOMAIN claimed_ports' = DOMAIN claimed_ports \cup ports
  BY <1>1
<1>8. desired'[key] = route /\ DOMAIN desired' = DOMAIN desired \cup {key}
  BY <1>1, InsertedOne
<1>9. ASSUME NEW k \in L4Routes', k # key
      PROVE  k \in L4Routes /\ desired'[k] = desired[k]
  <2> DEFINE objects == {<<L4Key(name), route>>}
  <2>1. \A o \in objects : o[1] # k
    BY <1>9
  <2> HIDE DEF objects
  <2>2. desired' = Inserted(objects)
    BY <1>1 DEF objects
  <2> QED
    BY <1>9, <2>1, <2>2, InsertedElsewhere DEF L4Routes
<1> HIDE DEF route, ports
<1> DEFINE new == {<<infix, p>> : p \in ports}
<1>10. Claimed("tcp") \subseteq Claimed("tcp")' /\ Claimed("udp") \subseteq Claimed("udp")'
  BY <1>7 DEF Claimed
<1>11. \A x \in new : x[1] = infix
  OBVIOUS
<1>12. ASSUME infix = "tcp" \/ infix = "udp"
       PROVE  new \subseteq Claimed(infix)'
  BY <1>7 DEF Claimed
<1>13. RouteClaims(key)'
  <2> HIDE DEF new
  <2>1. desired'[key].sections = new
    BY <1>5, <1>8 DEF new
  <2>2. CASE infix = "tcp"
    BY <1>1, <1>2, <1>4, <1>11, <1>12, <2>1, <2>2 DEF RouteClaims
  <2>3. CASE infix = "udp"
    BY <1>1, <1>2, <1>4, <1>11, <1>12, <2>1, <2>3 DEF RouteClaims
  <2> QED
    BY <1>2, <2>2, <2>3
<1>14. ASSUME NEW k \in L4Routes', k # key
       PROVE  RouteClaims(k)'
  <2>1. RouteClaims(k)
    BY <1>9, <1>14 DEF ListenerInv
  <2> QED
    BY <1>1, <1>9, <1>14, <1>10, <2>1 DEF RouteClaims
<1>15. ASSUME NEW k \in L4Routes', k # key
       PROVE  desired'[k].sections \cap route.sections = {}
  <2>1. RouteClaims(k) /\ desired'[k] = desired[k] /\ k.kind \in L4Kinds
    BY <1>9, <1>15 DEF ListenerInv, L4Routes
  <2>2. CASE k.kind = key.kind
    <3>1. desired[k].sections \subseteq Claimed(infix)
      BY <1>2, <1>4, <2>1, <2>2 DEF RouteClaims
    <3>2. Claimed(infix) \cap {<<infix, p>> : p \in ports} = {}
      BY <1>3 DEF Claimed
    <3> QED
      BY <1>5, <2>1, <3>1, <3>2
  <2>3. CASE k.kind # key.kind
    <3>1. InfixOf(k.kind) # infix
      BY <1>2, <1>4, <2>1, <2>3 DEF InfixOf, L4Kinds
    <3>2. \A x \in route.sections : x[1] = infix
      BY <1>5
    <3> QED
      BY <2>1, <3>1, <3>2 DEF RouteClaims
  <2> QED
    BY <2>2, <2>3
<1>16. SectionsApart'
  BY <1>8, <1>9, <1>15 DEF ListenerInv, SectionsApart
<1>17. KnownHosts'
  BY <1>1 DEF ListenerInv, KnownHosts
<1> QED
  BY <1>6, <1>13, <1>14, <1>16, <1>17 DEF ListenerInv

(***************************************************************************)
(* build_routes records the hosts of the rules.                            *)
(***************************************************************************)
LEMMA BuildRouteApart ==
  ASSUME ListenerInv, NEW name \in Name, BuildRoute(name)
  PROVE  ListenerInv'
<1> DEFINE key == RouteKey(name)
           router == conf.http.routers[name]
           route == HttpRoute(name, router)
           policies == {<<p, [target |-> key]>> : p \in route.guards}
           objects == {<<key, route>>} \cup policies
<1>1. /\ stage = "routes" /\ name \in todo /\ todo' = todo \ {name}
      /\ desired' = Inserted(objects)
      /\ hosts' = hosts \cup route.parsed.hosts
      /\ https_hosts' = https_hosts \/ https_hosts' = https_hosts \cup route.parsed.hosts
      /\ UNCHANGED <<cfg, conf, stage, claimed_ports, listeners>>
  BY DEF BuildRoute, Takes
<1>2. \A o \in objects : o[1].kind \notin L4Kinds
  <2>1. key.kind = "HTTPRoute" /\ \A o \in policies : o[1].kind = "SecurityPolicy"
    BY DEF RouteKey, Key, HttpRoute, PolicyOf
  <2> QED
    BY <2>1 DEF L4Kinds
<1>3. route.parsed.hosts \subseteq Name
  BY <1>1, NameAssumption DEF ListenerInv, KnownHosts, HttpRoute, Parsed
<1> HIDE DEF route
<1>4. KnownHosts'
  BY <1>1, <1>3 DEF ListenerInv, KnownHosts
<1> HIDE DEF objects
<1> QED
  BY <1>1, <1>2, <1>4, OtherWriteApart

(***************************************************************************)
(* Claims are dropped only when the loop that made them is over.           *)
(***************************************************************************)
LEMMA NextStageApart ==
  ASSUME ListenerInv, RefInv, NextStage
  PROVE  ListenerInv'
<1>1. /\ todo' = Work(stage') /\ UNCHANGED <<cfg, conf, desired, hosts, https_hosts, listeners>>
  BY DEF NextStage
<1>2. Work("routes") = DOMAIN conf.http.routers
  BY DEF Work, Enabled
<1>3. KnownHosts'
  BY <1>1, <1>2 DEF ListenerInv, KnownHosts
<1>4. /\ stage' \in {"http backends", "routes", "tcp backends"} =>
           stage \in {"http backends", "routes", "tcp backends"}
      /\ stage' = "tcp routes" => stage = "tcp backends"
      /\ stage \in {"udp routes", "listeners", "done"} => stage' \in {"listeners", "done"}
      /\ stage' # "udp routes" \/ stage = "udp backends"
  BY StageOrder
<1>5. ASSUME NEW k \in L4Routes'
      PROVE  RouteClaims(k)'
  <2>1. RouteClaims(k) /\ desired' = desired
    BY <1>1, <1>5 DEF ListenerInv, L4Routes
  <2> QED
    BY <1>4, <2>1 DEF RouteClaims
<1>6. L4Listeners' /\ SectionsApart'
  BY <1>1 DEF ListenerInv, L4Listeners, SectionsApart, L4Routes
<1> QED
  BY <1>3, <1>5, <1>6 DEF ListenerInv

(***************************************************************************)
(* Every step of build_desired keeps listeners and sections apart.         *)
(***************************************************************************)
LEMMA NextListenerInv == ListenerInv /\ RefInv /\ [Next]_vars => ListenerInv'
<1> SUFFICES ASSUME ListenerInv, RefInv, [Next]_vars
             PROVE  ListenerInv'
  OBVIOUS
<1>1. CASE UNCHANGED <<cfg, conf, stage, desired, hosts, https_hosts, claimed_ports, listeners>>
           /\ todo' \subseteq todo
  BY <1>1 DEF ListenerInv, L4Listeners, KnownHosts, RouteClaims, SectionsApart, L4Routes, Claimed
<1>2. ASSUME NEW name \in Name, BuildBackend(name)
      PROVE  ListenerInv'
  <2> DEFINE service == Family.services[name]
             class == classify_entries(service.servers, cfg.backend_kind)
             objects == emit_backend(name, Infix, class, SkipsVerify(service), cfg).objects
  <2>1. /\ desired' = Inserted(objects) /\ stage # "routes"
        /\ UNCHANGED <<cfg, conf, stage, hosts, https_hosts, claimed_ports, listeners>>
    BY <1>2 DEF BuildBackend
  <2>2. \A o \in objects : o[1].kind \in BackendKinds
    BY ClassKnown, EmittedKinds
  <2>3. KnownHosts'
    BY <2>1 DEF ListenerInv, KnownHosts
  <2> QED
    BY <2>1, <2>2, <2>3, OtherWriteApart DEF BackendKinds, L4Kinds
<1>3. CASE BuildListenerSet
  <2>1. PICK content : desired' = Inserted({<<ListenerSetKey, content>>})
    BY <1>3 DEF BuildListenerSet
  <2>2. ListenerSetKey.kind \notin L4Kinds
    BY DEF ListenerSetKey, Key, L4Kinds
  <2>3. /\ stage = "listeners" /\ stage' = "done"
        /\ UNCHANGED <<cfg, conf, hosts, https_hosts, claimed_ports, listeners>>
    BY <1>3 DEF BuildListenerSet
  <2>4. KnownHosts'
    BY <2>3 DEF ListenerInv, KnownHosts
  <2> QED
    BY <2>1, <2>2, <2>3, <2>4, OtherWriteApart
<1> QED
  BY <1>1, <1>2, <1>3, NextStageApart, BuildRouteApart, BuildL4RouteApart
     DEF Next, vars, SkipRoute, SkipL4Route, Returned

(***************************************************************************)
(* A sequence starts as its first part does.                               *)
(***************************************************************************)
LEMMA ConcatHead ==
  ASSUME NEW S, NEW s \in Seq(S), NEW t \in Seq(S), Len(s) > 0
  PROVE  /\ s \o t \in Seq(S)
         /\ Len(s \o t) = Len(s) + Len(t)
         /\ (s \o t)[1] = s[1]
<1>1. s \o t \in Seq(S) /\ Len(s \o t) = Len(s) + Len(t)
  BY ConcatProperties
<1>2. ASSUME NEW i \in 1 .. Len(s)
      PROVE  (s \o t)[i] = s[i]
  BY ConcatProperties
<1>3. 1 \in 1 .. Len(s)
  OBVIOUS
<1> QED
  BY <1>1, <1>2, <1>3

(***************************************************************************)
(* A label starts with its prefix, cut or not.                             *)
(***************************************************************************)
LEMMA LabelStarts ==
  ASSUME NEW base, NEW n \in Name
  PROVE  Label(<<base>>, n)[1] = base
<1> DEFINE S == AnyPart(base)
           prefix == <<base>>
           parts == prefix \o Parts[n]
           input == prefix \o Verbatim[n]
<1>1. prefix \in Seq(S) /\ Parts[n] \in Seq(S) /\ Verbatim[n] \in Seq(S)
  BY PartsAreSequences
<1>2. Len(prefix) = 1 /\ prefix[1] = base
  OBVIOUS
<1> HIDE DEF S, prefix
<1>3. parts \in Seq(S) /\ Len(parts) = 1 + Len(Parts[n]) /\ parts[1] = base /\ input \in Seq(S)
  <2> DEFINE tail == Parts[n]
             verbatim == Verbatim[n]
  <2>1. tail \in Seq(S) /\ verbatim \in Seq(S)
    BY <1>1
  <2> HIDE DEF tail, verbatim
  <2>2. /\ prefix \o tail \in Seq(S)
        /\ Len(prefix \o tail) = Len(prefix) + Len(tail)
        /\ (prefix \o tail)[1] = prefix[1]
    <3>1. Len(prefix) > 0
      BY <1>2
    <3> QED
      BY <1>1, <2>1, <3>1, ConcatHead
  <2>3. prefix \o verbatim \in Seq(S)
    BY <1>1, <2>1, ConcatProperties
  <2> QED
    BY <1>2, <2>2, <2>3 DEF tail, verbatim
<1>4. Label(prefix, n) = dns_label(parts, input)
  BY DEF Label
<1> HIDE DEF parts, input
<1>5. CASE Len(parts) <= MaxParts
  BY <1>3, <1>4, <1>5 DEF dns_label, prefix
<1>6. CASE Len(parts) > MaxParts
  <2> DEFINE kept == SubSeq(parts, 1, MaxParts)
  <2>1. kept \in Seq(S) /\ Len(kept) = MaxParts /\ kept[1] = base
    BY <1>3, <1>6, PartsAssumption
  <2>2. dns_label(parts, input) = kept \o input
    BY <1>3, <1>6, PartsAssumption DEF dns_label
  <2> HIDE DEF kept
  <2>3. (kept \o input)[1] = kept[1]
    BY <1>3, <2>1, PartsAssumption, ConcatHead
  <2> QED
    BY <1>4, <2>1, <2>2, <2>3 DEF prefix
<1> QED
  BY <1>3, <1>5, <1>6, PartsAssumption

HttpListener(base, port, h) == Listener(Label(<<base>>, h), base, port, h)

(***************************************************************************)
(* An HTTP listener is made of its protocol, its port and its host.        *)
(***************************************************************************)
LEMMA HttpListenersKnown ==
  ASSUME KnownHosts, NEW l \in HttpListeners
  PROVE  /\ l.hostname \in Name /\ l.name = Label(<<l.protocol>>, l.hostname)
         /\ \/ l.protocol = "http" /\ l = HttpListener("http", cfg.http_port, l.hostname)
            \/ l.protocol = "https" /\ l = HttpListener("https", cfg.https_port, l.hostname)
         /\ l.port = IF l.protocol = "http" THEN cfg.http_port ELSE cfg.https_port
<1>1. ASSUME NEW base, NEW port, NEW h, l = HttpListener(base, port, h)
      PROVE  l.protocol = base /\ l.port = port /\ l.hostname = h /\ l.name = Label(<<base>>, h)
  BY <1>1 DEF HttpListener, Listener
<1>2. CASE \E h \in hosts : l = HttpListener("http", cfg.http_port, h)
  <2>1. PICK h \in hosts : l = HttpListener("http", cfg.http_port, h)
    BY <1>2
  <2>2. l.protocol = "http" /\ l.port = cfg.http_port /\ l.hostname = h /\ l.name = Label(<<"http">>, h)
    BY <1>1, <2>1
  <2> QED
    BY <2>1, <2>2 DEF KnownHosts
<1>3. CASE \E h \in https_hosts : l = HttpListener("https", cfg.https_port, h)
  <2>1. PICK h \in https_hosts : l = HttpListener("https", cfg.https_port, h)
    BY <1>3
  <2>2. l.protocol = "https" /\ l.port = cfg.https_port /\ l.hostname = h /\ l.name = Label(<<"https">>, h)
    BY <1>1, <2>1
  <2> QED
    BY <2>1, <2>2 DEF KnownHosts
<1> QED
  BY <1>2, <1>3 DEF HttpListeners, HttpListener

\* What PortsExclusive says of two listeners.
Beside(l, m) ==
  /\ l.port = m.port /\ Transport(l) = Transport(m) =>
       l.protocol = m.protocol /\ l.protocol \in {"http", "https"} /\ l.hostname # m.hostname
  /\ l.name = m.name =>
       l.protocol = m.protocol /\ l.hostname # m.hostname /\ Parts[l.hostname] = Parts[m.hostname]

(***************************************************************************)
(* Two HTTP listeners: the ports of HTTP and HTTPS differ, and the name is *)
(* made from the host (src/transform/listener.rs:26-46).                   *)
(***************************************************************************)
LEMMA HttpBesideHttp ==
  ASSUME KnownHosts, cfg.http_port # cfg.https_port,
         NEW l \in HttpListeners, NEW m \in HttpListeners, l # m
  PROVE  Beside(l, m)
<1>1. /\ l.hostname \in Name /\ m.hostname \in Name
      /\ l.name = Label(<<l.protocol>>, l.hostname) /\ m.name = Label(<<m.protocol>>, m.hostname)
      /\ l.protocol \in {"http", "https"} /\ m.protocol \in {"http", "https"}
  BY HttpListenersKnown
<1>2. l.port = m.port => l.protocol = m.protocol
  BY HttpListenersKnown
<1>3. l.protocol = m.protocol => l.hostname # m.hostname
  BY HttpListenersKnown
<1>4. ASSUME l.name = m.name
      PROVE  l.protocol = m.protocol /\ Parts[l.hostname] = Parts[m.hostname]
  <2>1. l.name[1] = l.protocol /\ m.name[1] = m.protocol
    BY <1>1, LabelStarts
  <2>2. l.protocol = m.protocol
    BY <1>4, <2>1
  <2> QED
    BY <1>1, <1>4, <2>2, SameLabel
<1> QED
  BY <1>1, <1>2, <1>3, <1>4 DEF Beside

(***************************************************************************)
(* Two TCP or UDP listeners differ in the port or in the protocol, and so  *)
(* they do in the name (src/transform/l4.rs:91-117).                       *)
(***************************************************************************)
LEMMA L4BesideL4 ==
  ASSUME L4Listeners, NEW l \in listeners, NEW m \in listeners, l # m
  PROVE  Beside(l, m)
<1>1. /\ l.protocol \in {"tcp", "udp"} /\ m.protocol \in {"tcp", "udp"}
      /\ l = Listener(<<l.protocol, l.port>>, l.protocol, l.port, None)
      /\ m = Listener(<<m.protocol, m.port>>, m.protocol, m.port, None)
  BY DEF L4Listeners
<1>2. l.port # m.port \/ l.protocol # m.protocol
  BY <1>1
<1>3. l.name = <<l.protocol, l.port>> /\ m.name = <<m.protocol, m.port>>
  BY <1>1 DEF Listener
<1>4. l.name # m.name
  BY <1>2, <1>3
<1> QED
  BY <1>1, <1>2, <1>4 DEF Beside, Transport

(***************************************************************************)
(* A TCP listener leaves the ports of HTTP alone (src/transform/l4.rs:72-90). *)
(***************************************************************************)
LEMMA L4BesideHttp ==
  ASSUME L4Listeners, KnownHosts, NEW l \in HttpListeners, NEW m \in listeners
  PROVE  Beside(l, m) /\ Beside(m, l)
<1>1. /\ m.protocol \in {"tcp", "udp"}
      /\ m = Listener(<<m.protocol, m.port>>, m.protocol, m.port, None)
      /\ m.protocol = "tcp" => m.port \notin {cfg.http_port, cfg.https_port}
  BY DEF L4Listeners
<1>2. l.protocol \in {"http", "https"} /\ l.port \in {cfg.http_port, cfg.https_port}
  BY HttpListenersKnown
<1>3. l.port # m.port \/ Transport(l) # Transport(m)
  BY <1>1, <1>2 DEF Transport
<1>4. l.name # m.name
  <2>1. m.name = <<m.protocol, m.port>>
    BY <1>1 DEF Listener
  <2>2. m.name[1] = m.protocol
    BY <2>1
  <2>3. l.name[1] = l.protocol
    <3>1. l.hostname \in Name /\ l.name = Label(<<l.protocol>>, l.hostname)
      BY HttpListenersKnown
    <3> QED
      BY <3>1, LabelStarts
  <2>4. l.protocol # m.protocol
    BY <1>1, <1>2
  <2> QED
    BY <2>2, <2>3, <2>4
<1> QED
  BY <1>3, <1>4 DEF Beside

(***************************************************************************)
(* Nothing is listened on and nothing is claimed to begin with.            *)
(***************************************************************************)
LEMMA InitListenerInv == Init => ListenerInv
<1>1. DOMAIN <<>> = {}
  OBVIOUS
<1> QED
  BY <1>1 DEF Init, ListenerInv, L4Listeners, KnownHosts, L4Routes, SectionsApart

(***************************************************************************)
(* The listeners can stand side by side and no listener serves two L4      *)
(* routes, whatever the response, when HTTP and HTTPS have ports of their  *)
(* own, as they have by default (src/config.rs:168-169).                   *)
(***************************************************************************)
THEOREM ListenersStandSideBySide ==
  ASSUME \A c \in Config : c.http_port # c.https_port
  PROVE  TranslateSpec => []PortsExclusive
<1>1. ListenerInv /\ RefInv => PortsExclusive
  <2> SUFFICES ASSUME ListenerInv, RefInv
               PROVE  PortsExclusive
    OBVIOUS
  <2>1. ASSUME stage = "done", NEW l \in desired[ListenerSetKey].listeners,
               NEW m \in desired[ListenerSetKey].listeners, l # m
        PROVE  Beside(l, m)
    <3>1. l \in HttpListeners \cup listeners /\ m \in HttpListeners \cup listeners
      BY <2>1 DEF RefInv, ListenerSetBuilt
    <3>2. cfg.http_port # cfg.https_port /\ KnownHosts /\ L4Listeners
      BY DEF ListenerInv, KnownHosts
    <3> QED
      BY <2>1, <3>1, <3>2, HttpBesideHttp, L4BesideL4, L4BesideHttp
  <2>2. {r \in Routes : r.kind # "HTTPRoute"} = L4Routes
    BY DEF Routes, L4Routes, RouteKinds, L4Kinds
  <2>3. \A j, k \in L4Routes : j # k => desired[j].sections \cap desired[k].sections = {}
    BY DEF ListenerInv, SectionsApart
  <2> QED
    BY <2>1, <2>2, <2>3 DEF PortsExclusive, Beside
<1> QED
  BY <1>1, InitListenerInv, InitRefInv, NextListenerInv, NextRefInv, PTL DEF TranslateSpec

-----------------------------------------------------------------------------
(* Types.  The hosts and the listeners of TypeOK are in ListenerInv.       *)

Resolvable == {"Service", "Backend", "ExistingService"}

TypeInv ==
  /\ todo \subseteq Name
  /\ DOMAIN index \subseteq Name
  /\ \A n \in DOMAIN index : index[n].key.kind \in Resolvable
  /\ \A k \in DOMAIN desired : k.kind \in Kinds
  /\ None \notin DOMAIN claimed_ports
  /\ \A p \in DOMAIN claimed_ports : claimed_ports[p] \in Name

(***************************************************************************)
(* What an emitter returns is a Service or a Backend of its own, or is a   *)
(* Service that exists (src/transform/backend.rs:178-770).                 *)
(***************************************************************************)
LEMMA ResolvedKinds ==
  ASSUME NEW name, NEW infix, NEW c, NEW skip_verify, NEW settings,
         c.class \in {"Ips", "ClusterDns", "Fqdn", "Empty"}
  PROVE  LET e == emit_backend(name, infix, c, skip_verify, settings)
         IN  e.resolved = None \/ e.resolved.key.kind \in Resolvable
<1> DEFINE Fine(e) == e.resolved.key.kind \in Resolvable
<1>1. Fine(emit_envoy_backend(name, infix, c, skip_verify))
  BY DEF emit_envoy_backend, Emission, Resolved, Own, Key, Resolvable
<1>2. Fine(emit_synthesized_service(name, infix, c))
  BY DEF emit_synthesized_service, Emission, Resolved, Own, Key, Resolvable
<1>3. Fine(emit_ip_backend(name, infix, c, skip_verify, settings))
  BY <1>1, <1>2 DEF emit_ip_backend, Emission
<1>4. Fine(emit_cluster_dns_backend(name, infix, c, skip_verify, settings))
  BY <1>1 DEF emit_cluster_dns_backend, Emission, Resolved, Key, Resolvable
<1> QED
  BY <1>1, <1>3, <1>4 DEF emit_backend, Emission

(***************************************************************************)
(* Objects of the kinds that are known may be inserted.                    *)
(***************************************************************************)
LEMMA InsertedKinds ==
  ASSUME \A k \in DOMAIN desired : k.kind \in Kinds,
         NEW objects, \A o \in objects : o[1].kind \in Kinds
  PROVE  \A k \in DOMAIN Inserted(objects) : k.kind \in Kinds
<1> DEFINE Keys == {o[1] : o \in objects}
<1>1. \A k \in Keys : k.kind \in Kinds
  OBVIOUS
<1>2. DOMAIN Inserted(objects) = DOMAIN desired \cup Keys
  BY InsertedKeys
<1> HIDE DEF Keys
<1> QED
  BY <1>1, <1>2

(***************************************************************************)
(* Every step of build_desired keeps the types.                            *)
(***************************************************************************)
LEMMA NextTypeInv == TypeInv /\ ListenerInv /\ [Next]_vars => TypeInv'
<1> SUFFICES ASSUME TypeInv, ListenerInv, [Next]_vars
             PROVE  TypeInv'
  OBVIOUS
<1>1. CASE UNCHANGED <<index, desired, claimed_ports>> /\ todo' \subseteq todo
  BY <1>1 DEF TypeInv
<1>2. CASE NextStage
  <2>1. DOMAIN <<>> = {}
    OBVIOUS
  <2>2. todo' \subseteq Name
    <3>1. \A place : Work(place) \subseteq Name
      BY NameAssumption DEF ListenerInv, KnownHosts, Work
    <3> QED
      BY <1>2, <3>1 DEF NextStage
  <2>3. /\ desired' = desired
        /\ index' = index \/ index' = <<>>
        /\ claimed_ports' = claimed_ports \/ claimed_ports' = <<>>
    BY <1>2 DEF NextStage
  <2> QED
    BY <2>1, <2>2, <2>3 DEF TypeInv
<1>3. ASSUME NEW name \in Name, BuildBackend(name)
      PROVE  TypeInv'
  <2> DEFINE service == Family.services[name]
             class == classify_entries(service.servers, cfg.backend_kind)
             emission == emit_backend(name, Infix, class, SkipsVerify(service), cfg)
  <2>1. /\ desired' = Inserted(emission.objects)
        /\ index' = IF emission.resolved = None THEN index
                    ELSE [n \in DOMAIN index \cup {name} |->
                            IF n = name THEN emission.resolved ELSE index[n]]
        /\ todo' = todo \ {name} /\ UNCHANGED claimed_ports
    BY <1>3 DEF BuildBackend
  <2>2. \A o \in emission.objects : o[1].kind \in Kinds
    BY ClassKnown, EmittedKinds DEF BackendKinds, Kinds
  <2>3. emission.resolved = None \/ emission.resolved.key.kind \in Resolvable
    BY ClassKnown, ResolvedKinds
  <2> HIDE DEF emission
  <2>4. \A k \in DOMAIN desired' : k.kind \in Kinds
    <3> DEFINE objects == emission.objects
    <3>1. \A o \in objects : o[1].kind \in Kinds
      BY <2>2
    <3> HIDE DEF objects
    <3>2. \A k \in DOMAIN Inserted(objects) : k.kind \in Kinds
      BY <3>1, InsertedKinds DEF TypeInv
    <3> QED
      BY <2>1, <3>2 DEF objects
  <2>5. DOMAIN index' \subseteq Name /\ \A n \in DOMAIN index' : index'[n].key.kind \in Resolvable
    BY <2>1, <2>3 DEF TypeInv
  <2> QED
    BY <2>1, <2>4, <2>5 DEF TypeInv
<1>4. ASSUME NEW name \in Name, BuildRoute(name)
      PROVE  TypeInv'
  <2> DEFINE key == RouteKey(name)
             route == HttpRoute(name, conf.http.routers[name])
             policies == {<<p, [target |-> key]>> : p \in route.guards}
             objects == {<<key, route>>} \cup policies
  <2>1. /\ desired' = Inserted(objects) /\ todo' = todo \ {name}
        /\ UNCHANGED <<index, claimed_ports>>
    BY <1>4 DEF BuildRoute
  <2>2. \A o \in objects : o[1].kind \in Kinds
    <3>1. key.kind = "HTTPRoute" /\ \A o \in policies : o[1].kind = "SecurityPolicy"
      BY DEF RouteKey, Key, HttpRoute, PolicyOf
    <3> QED
      BY <3>1 DEF Kinds, RouteKinds
  <2> HIDE DEF objects
  <2>3. \A k \in DOMAIN Inserted(objects) : k.kind \in Kinds
    BY <2>2, InsertedKinds DEF TypeInv
  <2> QED
    BY <2>1, <2>3 DEF TypeInv
<1>5. ASSUME NEW name \in Name, BuildL4Route(name)
      PROVE  TypeInv'
  <2> DEFINE router == Family.routers[name]
             ports == UsablePorts(router)
  <2>1. PICK route : desired' = Inserted({<<L4Key(name), route>>})
    BY <1>5 DEF BuildL4Route
  <2>2. /\ claimed_ports' = [p \in DOMAIN claimed_ports \cup ports |->
                               IF p \in ports THEN name ELSE claimed_ports[p]]
        /\ todo' = todo \ {name} /\ UNCHANGED index
    BY <1>5 DEF BuildL4Route
  <2>3. L4Key(name).kind \in Kinds
    BY DEF L4Key, Key, Kinds, RouteKinds
  <2>4. None \notin ports
    BY DEF UsablePorts
  <2>5. \A k \in DOMAIN desired' : k.kind \in Kinds
    <3>1. DOMAIN desired' = DOMAIN desired \cup {L4Key(name)}
      BY <2>1, InsertedOne
    <3> QED
      BY <2>3, <3>1 DEF TypeInv
  <2> HIDE DEF ports
  <2> QED
    BY <2>2, <2>4, <2>5 DEF TypeInv
<1>6. CASE BuildListenerSet
  <2>1. PICK content : desired' = Inserted({<<ListenerSetKey, content>>})
    BY <1>6 DEF BuildListenerSet
  <2>2. ListenerSetKey.kind \in Kinds
    BY DEF ListenerSetKey, Key, Kinds
  <2>3. DOMAIN desired' = DOMAIN desired \cup {ListenerSetKey}
    BY <2>1, InsertedOne
  <2>4. \A k \in DOMAIN desired' : k.kind \in Kinds
    BY <2>2, <2>3 DEF TypeInv
  <2>5. UNCHANGED <<todo, index, claimed_ports>>
    BY <1>6 DEF BuildListenerSet
  <2> QED
    BY <2>4, <2>5 DEF TypeInv
<1>7. ASSUME NEW name \in Name, SkipRoute(name) \/ SkipL4Route(name)
      PROVE  TypeInv'
  BY <1>1, <1>7 DEF SkipRoute, SkipL4Route
<1>8. CASE UNCHANGED vars
  BY <1>1, <1>8 DEF vars
<1> QED
  BY <1>2, <1>3, <1>4, <1>5, <1>6, <1>7, <1>8 DEF Next, Returned

(***************************************************************************)
(* The state of build_desired has its types, for every response: what the  *)
(* loops go through, index and claim are names of the response, and only   *)
(* kinds that the controller applies are desired.                          *)
(***************************************************************************)
THEOREM TranslateTypes == TranslateSpec => []TypeOK
<1>1. Init => TypeInv
  <2>1. DOMAIN <<>> = {}
    OBVIOUS
  <2> QED
    BY <2>1, NameAssumption DEF Init, TypeInv
<1>2. TypeInv /\ ListenerInv /\ RefInv => TypeOK
  BY DEF TypeInv, ListenerInv, RefInv, KnownHosts, L4Listeners, TypeOK, Range, Resolvable
<1> QED
  BY <1>1, <1>2, InitListenerInv, InitRefInv, NextListenerInv, NextRefInv, NextTypeInv, PTL
     DEF TranslateSpec
=============================================================================
