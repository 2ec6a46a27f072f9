----------------------------- MODULE Middleware -----------------------------
(***************************************************************************)
(* How the middlewares of a router become the filters of its HTTPRoute     *)
(* rule (src/transform/middleware.rs), and what both mean for a request.   *)
(* A middleware is a record of its kind, which is its first top-level key, *)
(* of badger, which says whether it has the badger plugin under any key,   *)
(* and of the fields of that kind; a field that is missing or no string is *)
(* Absent.  Headers are a set of pairs of a name, in one case, and a value. *)
(***************************************************************************)
EXTENDS Naturals, Sequences, Functions

CONSTANTS
  Absent,      \* an Option that is None
  Segments     \* a path as the sequence of its segments

Known(chain, middlewares) == {i \in DOMAIN chain : chain[i] \in DOMAIN middlewares}

\* A middleware that is missing counts as the plugin when it has its name.
has_badger(chain, middlewares) ==
  \E i \in DOMAIN chain :
    IF chain[i] \in DOMAIN middlewares THEN middlewares[chain[i]].badger ELSE chain[i] = "badger"

-----------------------------------------------------------------------------
(* translate: the filters of one middleware.                               *)

Redirect(scheme) == [type |-> "RequestRedirect", scheme |-> scheme]

Headers(type, set) == [type |-> type, set |-> set]

Rewrite(hostname, path) == [type |-> "URLRewrite", hostname |-> hostname, path |-> path]

RewritePath(type, value) == {Rewrite(Absent, [type |-> type, value |-> v]) : v \in {value} \ {Absent}}

HostHeaders(headers) == {h \in headers : h[1] = "Host"}

\* A Host header is a matter of the rewrite filter.
translate_headers(mw) ==
  {Rewrite(h[2], Absent) : h \in HostHeaders(mw.request)}
    \cup (IF mw.request \ HostHeaders(mw.request) = {} THEN {}
          ELSE {Headers("RequestHeaderModifier", mw.request \ HostHeaders(mw.request))})
    \cup (IF mw.response = {} THEN {} ELSE {Headers("ResponseHeaderModifier", mw.response)})

translate(mw) ==
  CASE mw.kind = "redirectScheme" -> {Redirect(s) : s \in {mw.scheme} \cap {"http", "https"}}
    [] mw.kind = "headers"        -> translate_headers(mw)
    [] mw.kind = "addPrefix"      -> RewritePath("ReplacePrefixMatch", mw.prefix)
    [] mw.kind = "replacePath"    -> RewritePath("ReplaceFullPath", mw.path)
    [] mw.kind = "stripPrefix"    -> IF mw.prefixes = <<>> THEN {} ELSE RewritePath("ReplacePrefixMatch", "")
    [] OTHER -> {}

-----------------------------------------------------------------------------
(* merge_filters.  Filters are pairs of the position of the middleware in  *)
(* the chain they come from and the filter; a merged filter has position 0.*)

OfType(filters, type) == {p \in filters : p[2].type = type}

HeadersOf(filters, type) ==
  UNION {{<<p[1], h[1], h[2]>> : h \in p[2].set} : p \in OfType(filters, type)}

MergedHeaders(filters, type) ==
  IF HeadersOf(filters, type) = {} THEN {} ELSE {<<0, Headers(type, HeadersOf(filters, type))>>}

\* Of several host names the last one counts, of several paths the first one.
MergedRewrite(filters) ==
  LET rewrites == OfType(filters, "URLRewrite")
      named    == {p \in rewrites : p[2].hostname # Absent}
      pathed   == {p \in rewrites : p[2].path # Absent}
      hostname == IF named = {} THEN Absent
                  ELSE (CHOOSE p \in named : \A q \in named : q[1] <= p[1])[2].hostname
      path     == IF pathed = {} THEN Absent
                  ELSE (CHOOSE p \in pathed : \A q \in pathed : p[1] <= q[1])[2].path
  IN  IF rewrites = {} THEN {} ELSE {<<0, Rewrite(hostname, path)>>}

\* Mutant: the filters are passed on as they are.
NotMerged(filters) == filters

merge_filters(filters) ==
  OfType(filters, "RequestRedirect")
    \cup MergedHeaders(filters, "RequestHeaderModifier")
    \cup MergedHeaders(filters, "ResponseHeaderModifier")
    \cup MergedRewrite(filters)

build_filters(chain, middlewares) ==
  merge_filters(UNION {{<<i, f>> : f \in translate(middlewares[chain[i]])} :
                         i \in Known(chain, middlewares)})

is_terminating(filters) == OfType(filters, "RequestRedirect") # {}

-----------------------------------------------------------------------------
(* What a backend receives.  By the HTTPRoute: prefix is what the rule has *)
(* matched of the path.                                                    *)

Without(path, n) == SubSeq(path, n + 1, Len(path))

StartsWith(path, prefix) == Len(prefix) <= Len(path) /\ SubSeq(path, 1, Len(prefix)) = prefix

RoutedPath(filters, prefix, path) ==
  LET rewrites == {p[2].path : p \in OfType(filters, "URLRewrite")} \ {Absent}
      Replaced(r) == IF r.type = "ReplaceFullPath" THEN Segments[r.value]
                     ELSE Segments[r.value] \o Without(path, Len(prefix))
  IN  IF rewrites = {} THEN path ELSE Replaced(CHOOSE r \in rewrites : TRUE)

RoutedHeaders(filters, type) ==
  UNION {{<<h[2], h[3]>> : h \in p[2].set} : p \in OfType(filters, type)}

RoutedHosts(filters) == {p[2].hostname : p \in OfType(filters, "URLRewrite")} \ {Absent}

\* By Traefik: the middlewares act on the request in the order of the chain.
TraefikStep(mw, path) ==
  CASE mw.kind = "addPrefix" /\ mw.prefix # Absent -> Segments[mw.prefix] \o path
    [] mw.kind = "replacePath" /\ mw.path # Absent -> Segments[mw.path]
    [] mw.kind = "stripPrefix" ->
         LET fits == {i \in DOMAIN mw.prefixes : StartsWith(path, Segments[mw.prefixes[i]])}
         IN  IF fits = {} THEN path
             ELSE Without(path, Len(Segments[mw.prefixes[CHOOSE i \in fits : \A j \in fits : i <= j]]))
    [] OTHER -> path

MeantPath(chain, middlewares, path) ==
  LET after[i \in 0 .. Len(chain)] ==
        IF i = 0 THEN path
        ELSE IF chain[i] \in DOMAIN middlewares
               THEN TraefikStep(middlewares[chain[i]], after[i - 1])
               ELSE after[i - 1]
  IN  after[Len(chain)]

\* A header set twice has the value set last.  Traefik takes a header away
\* whose value is empty; here and in the filters such a value counts as set.
MeantHeaders(chain, middlewares, side) ==
  LET carriers == {i \in Known(chain, middlewares) : middlewares[chain[i]].kind = "headers"}
  IN  UNION {{h \in middlewares[chain[i]][side] :
                \A j \in carriers : \A g \in middlewares[chain[j]][side] : g[1] = h[1] => j <= i} :
               i \in carriers}
=============================================================================
