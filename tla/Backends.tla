------------------------------ MODULE Backends ------------------------------
(***************************************************************************)
(* How a pangolin service becomes a backend reference                      *)
(* (src/transform/backend.rs): its servers are reduced to host, port and   *)
(* scheme, classified by the kind of the hosts, and written as the objects *)
(* of that class.  An object is a pair of its key [kind, name] and its     *)
(* content.  A name is a DNS label, the sequence of its parts between      *)
(* dashes; Parts[n] are the parts that dns_label makes of the pangolin     *)
(* name n before it cuts the label, Verbatim[n] is n as it was given.      *)
(***************************************************************************)
EXTENDS Naturals, Sequences, Functions

CONSTANTS
  Name, Parts, Verbatim, None,
  MaxParts     \* the length of a label, MAX_DNS_LABEL, counted in parts

ASSUME PartsAssumption ==
  /\ \A n \in Name : Parts[n] \in Seq(STRING) /\ Verbatim[n] \in Seq(STRING)
  /\ MaxParts \in Nat \ {0}

\* What dns_label makes of an input is a function of the input.
ASSUME SanitizedAssumption ==
  \A n, m \in Name : \A p, q \in {<<>>, <<"tcp">>, <<"udp">>} :
    p \o Verbatim[n] = q \o Verbatim[m] => p \o Parts[n] = q \o Parts[m]

\* Mutant: names are cut without the hash.
CutOnly(parts, input) == IF Len(parts) <= MaxParts THEN parts ELSE SubSeq(parts, 1, MaxParts)

\* A label that is too long ends with a hash of the input.  The hash is written
\* as the input itself: two inputs are taken to have different hashes.
dns_label(parts, input) ==
  IF Len(parts) <= MaxParts THEN parts ELSE SubSeq(parts, 1, MaxParts) \o input

Label(prefix, name) == dns_label(prefix \o Parts[name], prefix \o Verbatim[name])

\* Mutant: the family is left out of the name.
PrefixWithoutInfix(base, infix) == <<base>>

name_prefix(base, infix) == IF infix = "" THEN <<base>> ELSE <<base, infix>>

Key(kind, name) == [kind |-> kind, name |-> name]

(***************************************************************************)
(* A server is [host, port, tls] with the host [kind, name, namespace]; a  *)
(* server whose URL or address cannot be read is None, and is passed over. *)
(***************************************************************************)
Readable(servers) == SelectSeq(servers, LAMBDA s : s # None)

OfKind(servers, kind) == SelectSeq(Readable(servers), LAMBDA s : s.host.kind = kind)

Classification(class, servers, first) ==
  [class |-> class, servers |-> servers, target |-> first.host, port |-> first.port, tls |-> first.tls]

Empty == [class |-> "Empty"]

\* IP literals before cluster DNS before other names.  The first server of the
\* class gives port and scheme; of the IPs those that differ in it are dropped.
classify_entries(servers, backend_kind) ==
  LET ips == OfKind(servers, "ip")
      cluster == OfKind(servers, "cluster")
      fqdns == OfKind(servers, "fqdn")
  IN  CASE ips # <<>> ->
             Classification("Ips", {s \in Range(ips) : s.port = ips[1].port /\ s.tls = ips[1].tls},
                            ips[1])
        [] ips = <<>> /\ cluster # <<>> ->
             Classification("ClusterDns", {cluster[1]}, cluster[1])
        [] ips = <<>> /\ cluster = <<>> /\ fqdns # <<>> /\ backend_kind = "envoy-backend" ->
             Classification("Fqdn", {fqdns[1]}, fqdns[1])
        [] OTHER -> Empty

-----------------------------------------------------------------------------
(* The emitters.  of names the pangolin service an object stands for.      *)

Resolved(key, port) == [key |-> key, port |-> port]

Emission(objects, resolved) == [objects |-> objects, resolved |-> resolved]

Own(kind, base, infix, name) == Key(kind, Label(name_prefix(base, infix), name))

emit_envoy_backend(name, infix, c, skip_verify) ==
  LET key == Own("Backend", "be", infix, name)
      tls == CASE ~c.tls -> "plain" [] c.tls /\ skip_verify -> "unverified" [] OTHER -> "verified"
  IN  Emission({<<key, [of |-> <<infix, name>>, servers |-> c.servers, port |-> c.port, tls |-> tls]>>},
               Resolved(key, c.port))

\* Mutant: the reference is to the name without the family.
ReferenceWithoutInfix(name, infix, c) ==
  LET key == Own("Service", "svc", infix, name)
      slice == Own("EndpointSlice", "eps", infix, name)
  IN  Emission({<<key, [of |-> <<infix, name>>, port |-> c.port]>>,
                <<slice, [of |-> <<infix, name>>, servers |-> c.servers, service |-> key]>>},
               Resolved(Own("Service", "svc", "", name), c.port))

emit_synthesized_service(name, infix, c) ==
  LET key == Own("Service", "svc", infix, name)
      slice == Own("EndpointSlice", "eps", infix, name)
  IN  Emission({<<key, [of |-> <<infix, name>>, port |-> c.port]>>,
                <<slice, [of |-> <<infix, name>>, servers |-> c.servers, service |-> key]>>},
               Resolved(key, c.port))

\* The policy names a Service of the controller's namespace, and no port of it.
BackendTlsPolicy(name, infix, target) ==
  <<Own("BackendTLSPolicy", "btp", infix, name), [of |-> <<infix, name>>, target |-> target]>>

emit_ip_backend(name, infix, c, skip_verify, cfg) ==
  IF cfg.backend_kind = "envoy-backend"
    THEN emit_envoy_backend(name, infix, c, skip_verify)
    ELSE LET e == emit_synthesized_service(name, infix, c)
         IN  Emission(e.objects \cup
                        (IF c.tls THEN {BackendTlsPolicy(name, infix, e.resolved.key)} ELSE {}),
                      e.resolved)

\* A Service that exists already is referred to as it is, except that TLS to it
\* needs a Backend around it, or a policy where one may be written.
emit_cluster_dns_backend(name, infix, c, skip_verify, cfg) ==
  LET direct == Key("ExistingService", <<c.target.namespace, c.target.name>>)
  IN  CASE c.tls /\ cfg.backend_kind = "envoy-backend" ->
             emit_envoy_backend(name, infix, c, skip_verify)
        [] c.tls /\ cfg.backend_kind = "service" /\ c.target.namespace = cfg.namespace ->
             Emission({BackendTlsPolicy(name, infix, direct)}, Resolved(direct, c.port))
        [] OTHER -> Emission({}, Resolved(direct, c.port))

emit_backend(name, infix, c, skip_verify, cfg) ==
  CASE c.class = "Empty" -> Emission({}, None)
    [] c.class = "Ips"   -> emit_ip_backend(name, infix, c, skip_verify, cfg)
    [] c.class = "Fqdn"  -> emit_envoy_backend(name, infix, c, skip_verify)
    [] c.class = "ClusterDns" -> emit_cluster_dns_backend(name, infix, c, skip_verify, cfg)
=============================================================================
