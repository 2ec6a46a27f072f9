-------------------------- MODULE MCTwoInstances ----------------------------
(***************************************************************************)
(* Two instances with one router each, which their pangolins may withdraw. *)
(***************************************************************************)
EXTENDS TwoInstances

CONSTANTS c1, c2

K(kind, name) == [kind |-> kind, name |-> name]

MCSetting ==
  {[backend_kind |-> "service", enable_tcp_routes |-> FALSE, enable_udp_routes |-> FALSE,
    ext_authz |-> FALSE, read_only |-> FALSE]}

MCBody == {c1, c2}
MCMayFollow == {<<c1, c2>>, <<c2, c1>>}

\* Each has a CONFIG_LISTENERSET_NAME of its own.
ListenerKey(owner) == K("ListenerSet", owner)

Empty == [refs |-> {}, guards |-> {}, hosts |-> {}]

\* The router of an instance is named like the instance.
Desired(owner, b) ==
  [k \in Key |->
    CASE k = K("HTTPRoute", owner) /\ b = c1 ->
           [Empty EXCEPT !.refs = {K("Service", owner), ListenerKey(owner)}]
      [] k = K("Service", owner) /\ b = c1 -> Empty
      [] k = ListenerKey(owner) -> [Empty EXCEPT !.hosts = IF b = c1 THEN {owner} ELSE {}]
      [] OTHER -> None]

MCBuildDesired1(s, b) == Desired(Self1, b)
MCBuildDesired2(s, b) == Desired(Self2, b)

MCKey == UNION {{K("HTTPRoute", o), K("Service", o), ListenerKey(o)} : o \in {Self1, Self2}}

MCSpec ==
  {[Empty EXCEPT !.hosts = h] : h \in {{}, {Self1}, {Self2}}}
  \cup {[Empty EXCEPT !.refs = {K("Service", o), ListenerKey(o)}] : o \in {Self1, Self2}}

MCInitialCluster == [k \in MCKey |-> None]
=============================================================================
