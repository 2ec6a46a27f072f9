--------------------------- MODULE MeaningProofs ---------------------------
(***************************************************************************)
(* Meaning: an HTTPRoute means to its requests what the router means to    *)
(* Traefik.  For rules, of any length, this is by what the parser has come *)
(* to; for filters, of chains of any length, by what merging keeps.  The   *)
(* recursion of MeantPath along the chain is taken care of by the least    *)
(* position that would break what is claimed.                              *)
(***************************************************************************)
EXTENDS ListenerProofs, WellFoundedInduction

Predicates(rule) == {i \in DOMAIN rule : rule[i].tok = "predicate"}

(***************************************************************************)
(* A rule that is usable is a conjunction of Host and path predicates, and *)
(* the parser has come to all of them (src/transform/rule.rs:61-122).      *)
(***************************************************************************)
LEMMA UsableIsConjunction ==
  ASSUME NEW rule \in Seq(Token), is_usable(parse(rule))
  PROVE  /\ Walked(rule) = Predicates(rule)
         /\ \A i \in DOMAIN rule : rule[i].tok \in {"predicate", "&&"}
         /\ \A i \in Predicates(rule) : rule[i].ident \in PathIdent \cup {"Host"}
         /\ \E i \in Predicates(rule) : rule[i].ident = "Host"
<1> DEFINE parsed == parse(rule)
<1>1. /\ ~parsed.has_disjunction /\ ~parsed.has_negation
      /\ ~parsed.host_regexp /\ ~parsed.unsupported /\ parsed.hosts # {}
  BY DEF is_usable
<1>2. \A i \in DOMAIN rule : rule[i].tok \notin {"||", "!"}
  BY <1>1 DEF parse, Has
<1>3. \A i \in DOMAIN rule : Reached(rule, i)
  BY <1>1 DEF parse
<1>4. Walked(rule) = Predicates(rule)
  BY <1>3 DEF Walked, Predicates
<1>5. \A i \in DOMAIN rule : rule[i].tok \in {"predicate", "&&"}
  <2> SUFFICES ASSUME NEW i \in DOMAIN rule
               PROVE  rule[i].tok \in {"predicate", "&&"}
    OBVIOUS
  <2>1. i \in 1 .. i
    OBVIOUS
  <2> QED
    BY <1>2, <1>3, <2>1 DEF Reached
<1>6. \A i \in Walked(rule) : rule[i].ident \in PathIdent \cup {"Host"}
  BY <1>1 DEF parse
<1>7. \E i \in Walked(rule) : rule[i].ident = "Host"
  BY <1>1 DEF parse
<1> QED
  BY <1>4, <1>5, <1>6, <1>7

PathHolds(p, request) ==
  \E arg \in Range(p.args) :
    Fits(p.ident, request.path, IF p.ident = "PathRegexp" THEN arg ELSE NormalizePath(arg))

\* What Traefik wants of a Host or path predicate.
Holds(p, request) ==
  IF p.ident = "Host" THEN request.host \in Range(p.args) ELSE PathHolds(p, request)

(***************************************************************************)
(* Traefik wants every predicate of a conjunction to hold.                 *)
(***************************************************************************)
LEMMA ConjunctionMeans ==
  ASSUME NEW rule \in Seq(Token), NEW request, Predicates(rule) # {},
         \A i \in DOMAIN rule : rule[i].tok \in {"predicate", "&&"},
         \A i \in Predicates(rule) : rule[i].ident \in PathIdent \cup {"Host"}
  PROVE  Meant(rule, request) <=> \A i \in Predicates(rule) : Holds(rule[i], request)
<1>1. ASSUME NEW i \in Predicates(rule)
      PROVE  Literal(rule, i, request) <=> Holds(rule[i], request)
  <2>1. ~(i > 1 /\ rule[i - 1].tok = "!")
    <3> SUFFICES ASSUME i > 1
                 PROVE  rule[i - 1].tok # "!"
      OBVIOUS
    <3>1. i - 1 \in DOMAIN rule
      BY DEF Predicates
    <3> QED
      BY <3>1
  <2>2. CASE rule[i].ident = "Host"
    <3>1. rule[i].ident \notin PathIdent
      BY <2>2 DEF PathIdent
    <3> QED
      BY <2>1, <2>2, <3>1 DEF Literal, Holds
  <2>3. CASE rule[i].ident \in PathIdent
    <3>1. rule[i].ident # "Host"
      BY <2>3 DEF PathIdent
    <3>2. Literal(rule, i, request) <=> PathHolds(rule[i], request)
      BY <2>1, <2>3, <3>1 DEF Literal, PathHolds
    <3> QED
      BY <3>1, <3>2 DEF Holds
  <2> QED
    BY <2>2, <2>3
<1>2. \A i, j \in DOMAIN rule : Stretch(rule, i, j)
  <2> SUFFICES ASSUME NEW i \in DOMAIN rule, NEW j \in DOMAIN rule, NEW n \in i .. j
               PROVE  rule[n].tok # "||"
    BY DEF Stretch
  <2>1. n \in DOMAIN rule
    OBVIOUS
  <2> QED
    BY <2>1
<1>3. Meant(rule, request) <=> \A j \in Predicates(rule) : Literal(rule, j, request)
  BY <1>2 DEF Meant, Predicates
<1> QED
  BY <1>1, <1>3

(***************************************************************************)
(* What the parser makes of the predicates: the hosts of the one Host ...  *)
(* (src/transform/rule.rs:124-160).                                        *)
(***************************************************************************)
LEMMA ParsedHosts ==
  ASSUME NEW rule, Walked(rule) = Predicates(rule), AtMostOne(rule, {"Host"}),
         NEW h \in Predicates(rule), rule[h].ident = "Host"
  PROVE  parse(rule).hosts = Range(rule[h].args)
<1>1. {j \in Walked(rule) : rule[j].ident = "Host"} = {h}
  BY DEF AtMostOne, Predicates
<1>2. parse(rule).hosts = UNION {Range(rule[i].args) : i \in {j \in Walked(rule) : rule[j].ident = "Host"}}
  BY DEF parse
<1> QED
  BY <1>1, <1>2

(***************************************************************************)
(* ... and the path of the one path predicate, normalized unless it is a   *)
(* regular expression.                                                     *)
(***************************************************************************)
LEMMA ParsedPath ==
  ASSUME NEW rule \in Seq(Token), Walked(rule) = Predicates(rule), AtMostOne(rule, PathIdent),
         OnePath(rule), NEW request
  PROVE  (parse(rule).path # NoPath => Fits(parse(rule).path.kind, request.path, parse(rule).path.value))
           <=> \A i \in Predicates(rule) : rule[i].ident \in PathIdent => PathHolds(rule[i], request)
<1> DEFINE path == parse(rule).path
<1>1. path = PathOf(rule)
  BY DEF parse
<1>2. \A i \in Predicates(rule) :
        rule[i].ident \in PathIdent => rule[i].args \in Seq(STRING) /\ Len(rule[i].args) = 1
  <2> SUFFICES ASSUME NEW i \in DOMAIN rule, rule[i].ident \in PathIdent
               PROVE  rule[i].args \in Seq(STRING) /\ Len(rule[i].args) = 1
    BY DEF Predicates
  <2>1. rule[i] \in Token
    OBVIOUS
  <2>2. rule[i].args \in Seq(STRING)
    BY <2>1 DEF Token
  <2> QED
    BY <2>2 DEF OnePath
<1>3. PathPredicates(rule) = {i \in Predicates(rule) : rule[i].ident \in PathIdent}
  <2>1. \A i \in Predicates(rule) : rule[i].ident \in PathIdent => rule[i].args # <<>>
    <3>1. \A args \in Seq(STRING) : Len(args) = 1 => args # <<>>
      OBVIOUS
    <3> QED
      BY <1>2, <3>1, Zenon
  <2> QED
    BY <2>1 DEF PathPredicates
<1>4. CASE PathPredicates(rule) = {}
  BY <1>1, <1>3, <1>4 DEF PathOf
<1>5. CASE PathPredicates(rule) # {}
  <2>1. PICK p : p \in PathPredicates(rule)
    BY <1>5
  <2>2. PathPredicates(rule) = {p} /\ p \in Nat
    BY <1>3, <2>1 DEF AtMostOne, Predicates
  <2>3. (CHOOSE i \in PathPredicates(rule) : \A j \in PathPredicates(rule) : j <= i) = p
    <3>1. p <= p
      BY <2>2
    <3> QED
      BY <2>2, <3>1
  <2> DEFINE arg == rule[p].args[1]
             value == IF rule[p].ident = "PathRegexp" THEN arg ELSE NormalizePath(arg)
  <2>4. path = [kind |-> rule[p].ident, value |-> value]
    <3> DEFINE last == CHOOSE i \in PathPredicates(rule) : \A j \in PathPredicates(rule) : j <= i
    <3>1. last = p
      BY <2>3
    <3>2. PathOf(rule) = [kind |-> rule[last].ident,
                          value |-> IF rule[last].ident = "PathRegexp" THEN rule[last].args[1]
                                    ELSE NormalizePath(rule[last].args[1])]
      BY <1>5 DEF PathOf
    <3> HIDE DEF last
    <3> QED
      BY <1>1, <3>1, <3>2
  <2>5. path # NoPath /\ path.kind = rule[p].ident /\ path.value = value
    <3>1. rule[p].ident # "None"
      BY <1>3, <2>1 DEF PathIdent
    <3>2. path.kind = rule[p].ident /\ path.value = value
      BY <2>4
    <3>3. NoPath.kind = "None"
      BY DEF NoPath
    <3> QED
      BY <3>1, <3>2, <3>3
  <2>6. Range(rule[p].args) = {arg}
    BY <1>2, <1>3, <2>1 DEF Range
  <2>7. PathHolds(rule[p], request) <=> Fits(rule[p].ident, request.path, value)
    BY <2>6 DEF PathHolds
  <2> HIDE DEF path, value
  <2>8. (path # NoPath => Fits(path.kind, request.path, path.value)) <=> PathHolds(rule[p], request)
    BY <2>5, <2>7
  <2>9. (\A i \in Predicates(rule) : rule[i].ident \in PathIdent => PathHolds(rule[i], request))
          <=> PathHolds(rule[p], request)
    BY <1>3, <2>2
  <2> QED
    BY <2>8, <2>9 DEF path
<1> QED
  BY <1>4, <1>5

(***************************************************************************)
(* A usable rule with one Host and at most one path routes what it means.  *)
(***************************************************************************)
LEMMA UsableIsExact ==
  ASSUME NEW rule \in Seq(Token), is_usable(parse(rule)), NEW request,
         AtMostOne(rule, {"Host"}), AtMostOne(rule, PathIdent), OnePath(rule)
  PROVE  Routed(parse(rule), request) <=> Meant(rule, request)
<1>1. /\ Walked(rule) = Predicates(rule)
      /\ \A i \in DOMAIN rule : rule[i].tok \in {"predicate", "&&"}
      /\ \A i \in Predicates(rule) : rule[i].ident \in PathIdent \cup {"Host"}
  BY UsableIsConjunction
<1>2. PICK h \in Predicates(rule) : rule[h].ident = "Host"
  BY UsableIsConjunction
<1>3. parse(rule).hosts = Range(rule[h].args)
  BY <1>1, <1>2, ParsedHosts
<1>4. Meant(rule, request) <=> \A i \in Predicates(rule) : Holds(rule[i], request)
  BY <1>1, <1>2, ConjunctionMeans
<1>5. \A i \in Predicates(rule) :
        \/ i = h /\ rule[i].ident = "Host"
        \/ rule[i].ident \in PathIdent /\ rule[i].ident # "Host"
  <2>1. \A i \in Predicates(rule) : rule[i].ident = "Host" => i = h
    BY <1>2 DEF AtMostOne, Predicates
  <2>2. "Host" \notin PathIdent
    BY DEF PathIdent
  <2> QED
    BY <1>1, <2>1, <2>2
<1>6. (\A i \in Predicates(rule) : Holds(rule[i], request)) <=>
        /\ request.host \in Range(rule[h].args)
        /\ \A i \in Predicates(rule) : rule[i].ident \in PathIdent => PathHolds(rule[i], request)
  <2>1. Holds(rule[h], request) <=> request.host \in Range(rule[h].args)
    BY <1>2 DEF Holds
  <2>2. \A i \in Predicates(rule) :
          rule[i].ident # "Host" => (Holds(rule[i], request) <=> PathHolds(rule[i], request))
    BY DEF Holds
  <2>3. rule[h].ident \notin PathIdent
    BY <1>2 DEF PathIdent
  <2> QED
    BY <1>2, <1>5, <2>1, <2>2, <2>3
<1>7. (parse(rule).path # NoPath => Fits(parse(rule).path.kind, request.path, parse(rule).path.value))
        <=> \A i \in Predicates(rule) : rule[i].ident \in PathIdent => PathHolds(rule[i], request)
  BY <1>1, ParsedPath
<1> QED
  BY <1>3, <1>4, <1>6, <1>7 DEF Routed

-----------------------------------------------------------------------------
(* Filters.                                                                *)

(***************************************************************************)
(* The least-number principle, with a set in place of an operator.         *)
(***************************************************************************)
LEMMA LeastNatural ==
  ASSUME NEW T, T \subseteq Nat, T # {}
  PROVE  \E x \in T : \A y \in T : x <= y
<1> DEFINE R == OpToRel(<, Nat)
<1>1. IsWellFoundedOn(R, Nat)
  BY NatLessThanWellFounded
<1>2. \A x, y \in Nat : x < y => <<x, y>> \in R
  BY DEF OpToRel
<1> HIDE DEF R
<1>3. PICK x \in T : \A y \in T : ~(<<y, x>> \in R)
  BY <1>1, WFMin
<1>4. ASSUME NEW y \in T
      PROVE  x <= y
  <2>1. x \in Nat /\ y \in Nat
    OBVIOUS
  <2>2. ~(y < x)
    BY <1>2, <1>3, <2>1
  <2> QED
    BY <2>1, <2>2
<1> QED
  BY <1>4

(***************************************************************************)
(* ... and positions of a sequence have a last one.                        *)
(***************************************************************************)
LEMMA LastPosition ==
  ASSUME NEW n \in Nat, NEW T, T \subseteq 1 .. n, T # {}
  PROVE  \E x \in T : \A y \in T : y <= x
<1> DEFINE Rest == {n - x : x \in T}
<1>1. Rest \subseteq Nat /\ Rest # {}
  <2>1. PICK x : x \in T
    OBVIOUS
  <2>2. n - x \in Rest
    BY <2>1
  <2>3. \A y \in T : n - y \in Nat
    OBVIOUS
  <2> QED
    BY <2>2, <2>3
<1>2. PICK r \in Rest : \A s \in Rest : r <= s
  <2> HIDE DEF Rest
  <2> QED
    BY <1>1, LeastNatural
<1>3. PICK x \in T : r = n - x
  OBVIOUS
<1>4. ASSUME NEW y \in T
      PROVE  y <= x
  <2>1. n - y \in Rest
    OBVIOUS
  <2>2. n - x <= n - y
    BY <1>2, <1>3, <2>1
  <2> QED
    BY <2>2
<1> QED
  BY <1>4

\* The filters of the middlewares before they are merged.
Raw(chain, middlewares) ==
  UNION {{<<i, f>> : f \in translate(middlewares[chain[i]])} : i \in Known(chain, middlewares)}

(***************************************************************************)
(* Each filter comes with the position of its middleware in the chain.     *)
(***************************************************************************)
LEMMA RawMembers ==
  ASSUME NEW chain, NEW middlewares, NEW p
  PROVE  p \in Raw(chain, middlewares)
           <=> \E i \in Known(chain, middlewares) : \E f \in translate(middlewares[chain[i]]) : p = <<i, f>>
BY DEF Raw

(***************************************************************************)
(* merge_filters leaves one filter of each type, but for redirects         *)
(* (src/transform/middleware.rs:62-144).                                   *)
(***************************************************************************)
LEMMA MergedByType ==
  ASSUME NEW F
  PROVE  LET M == merge_filters(F)
         IN  /\ OfType(M, "RequestHeaderModifier") = MergedHeaders(F, "RequestHeaderModifier")
             /\ OfType(M, "ResponseHeaderModifier") = MergedHeaders(F, "ResponseHeaderModifier")
             /\ OfType(M, "URLRewrite") = MergedRewrite(F)
             /\ \A p \in M : p[2].type \in {"RequestRedirect", "RequestHeaderModifier",
                                            "ResponseHeaderModifier", "URLRewrite"}
<1>1. ASSUME NEW type, NEW p \in MergedHeaders(F, type)
      PROVE  p[2].type = type
  BY <1>1 DEF MergedHeaders, Headers
<1>2. ASSUME NEW p \in MergedRewrite(F)
      PROVE  p[2].type = "URLRewrite"
  BY <1>2 DEF MergedRewrite, Rewrite
<1>3. \A p \in OfType(F, "RequestRedirect") : p[2].type = "RequestRedirect"
  BY DEF OfType
<1> QED
  BY <1>1, <1>2, <1>3 DEF merge_filters, OfType

(***************************************************************************)
(* Two filters of one type are the same one, unless they are redirects.    *)
(***************************************************************************)
LEMMA MergedOnce ==
  ASSUME NEW F, NEW p \in merge_filters(F), NEW q \in merge_filters(F), p[2].type = q[2].type,
         p[2].type # "RequestRedirect"
  PROVE  p = q
<1>1. ASSUME NEW type, NEW a \in MergedHeaders(F, type), NEW b \in MergedHeaders(F, type)
      PROVE  a = b
  BY <1>1 DEF MergedHeaders
<1>2. ASSUME NEW a \in MergedRewrite(F), NEW b \in MergedRewrite(F)
      PROVE  a = b
  BY <1>2 DEF MergedRewrite
<1>3. p \in OfType(merge_filters(F), p[2].type) /\ q \in OfType(merge_filters(F), p[2].type)
  BY DEF OfType
<1>4. p[2].type \in {"RequestHeaderModifier", "ResponseHeaderModifier", "URLRewrite"}
  BY MergedByType
<1> QED
  BY <1>1, <1>2, <1>3, <1>4, MergedByType

(***************************************************************************)
(* Only a redirectScheme middleware gives a redirect                       *)
(* (src/transform/middleware.rs:146-206).                                  *)
(***************************************************************************)
LEMMA TranslatedRedirect ==
  ASSUME NEW mw, NEW f
  PROVE  f \in translate(mw) /\ f.type = "RequestRedirect"
           <=> mw.kind = "redirectScheme" /\ mw.scheme \in {"http", "https"} /\ f = Redirect(mw.scheme)
<1>1. CASE mw.kind = "redirectScheme"
  <2>1. translate(mw) = {Redirect(s) : s \in {mw.scheme} \cap {"http", "https"}}
    BY <1>1 DEF translate
  <2>2. \A s : Redirect(s).type = "RequestRedirect"
    BY DEF Redirect
  <2>3. f \in translate(mw) <=> mw.scheme \in {"http", "https"} /\ f = Redirect(mw.scheme)
    BY <2>1
  <2> QED
    BY <1>1, <2>2, <2>3
<1>2. CASE mw.kind = "headers"
  <2>1. translate(mw) = translate_headers(mw)
    BY <1>2 DEF translate
  <2>2. \A g \in translate_headers(mw) : g.type # "RequestRedirect"
    BY DEF translate_headers, Rewrite, Headers
  <2> QED
    BY <1>2, <2>1, <2>2
<1>3. CASE mw.kind \notin {"redirectScheme", "headers"}
  <2>1. \A type, value : \A g \in RewritePath(type, value) : g.type # "RequestRedirect"
    BY DEF RewritePath, Rewrite
  <2>2. CASE mw.kind = "addPrefix"
    BY <2>1, <2>2 DEF translate
  <2>3. CASE mw.kind = "replacePath"
    BY <2>1, <2>3 DEF translate
  <2>4. CASE mw.kind = "stripPrefix"
    <3>1. translate(mw) = IF mw.prefixes = <<>> THEN {} ELSE RewritePath("ReplacePrefixMatch", "")
      BY <2>4 DEF translate
    <3> QED
      BY <2>1, <2>4, <3>1
  <2>5. CASE mw.kind \notin {"addPrefix", "replacePath", "stripPrefix"}
    <3>1. translate(mw) = {}
      BY <1>3, <2>5 DEF translate
    <3> QED
      BY <1>3, <3>1
  <2> QED
    BY <2>2, <2>3, <2>4, <2>5
<1> QED
  BY <1>1, <1>2, <1>3

\* The middlewares that become a redirect, and what each becomes.
Redirecting(chain, middlewares) ==
  {i \in Known(chain, middlewares) :
     middlewares[chain[i]].kind = "redirectScheme" /\ middlewares[chain[i]].scheme \in {"http", "https"}}

RedirectsOf(chain, middlewares) ==
  {<<i, Redirect(middlewares[chain[i]].scheme)>> : i \in Redirecting(chain, middlewares)}

(***************************************************************************)
(* The redirects of a chain are those of its redirectScheme middlewares.   *)
(***************************************************************************)
LEMMA RawRedirects ==
  ASSUME NEW chain, NEW middlewares
  PROVE  OfType(Raw(chain, middlewares), "RequestRedirect") = RedirectsOf(chain, middlewares)
<1> DEFINE Mw(i) == middlewares[chain[i]]
<1>1. ASSUME NEW p \in OfType(Raw(chain, middlewares), "RequestRedirect")
      PROVE  p \in RedirectsOf(chain, middlewares)
  <2>1. p \in Raw(chain, middlewares) /\ p[2].type = "RequestRedirect"
    BY <1>1 DEF OfType
  <2>2. PICK i \in Known(chain, middlewares) : \E f \in translate(Mw(i)) : p = <<i, f>>
    BY <2>1, RawMembers
  <2>3. p = <<i, p[2]>> /\ p[2] \in translate(Mw(i))
    BY <2>2
  <2>4. i \in Redirecting(chain, middlewares) /\ p[2] = Redirect(Mw(i).scheme)
    BY <2>1, <2>3, TranslatedRedirect DEF Redirecting
  <2> QED
    BY <2>3, <2>4 DEF RedirectsOf
<1>2. ASSUME NEW i \in Redirecting(chain, middlewares)
      PROVE  <<i, Redirect(Mw(i).scheme)>> \in OfType(Raw(chain, middlewares), "RequestRedirect")
  <2>1. i \in Known(chain, middlewares)
    BY <1>2 DEF Redirecting
  <2>2. Redirect(Mw(i).scheme) \in translate(Mw(i)) /\ Redirect(Mw(i).scheme).type = "RequestRedirect"
    BY <1>2, TranslatedRedirect DEF Redirecting
  <2>3. <<i, Redirect(Mw(i).scheme)>> \in Raw(chain, middlewares)
    BY <2>1, <2>2, RawMembers
  <2> QED
    BY <2>2, <2>3 DEF OfType
<1> QED
  BY <1>1, <1>2 DEF RedirectsOf

(***************************************************************************)
(* merge_filters passes redirects on as they are.                          *)
(***************************************************************************)
LEMMA RedirectsPassedOn ==
  ASSUME NEW F
  PROVE  OfType(merge_filters(F), "RequestRedirect") = OfType(F, "RequestRedirect")
<1>1. ASSUME NEW type \in {"RequestHeaderModifier", "ResponseHeaderModifier"},
             NEW p \in MergedHeaders(F, type)
      PROVE  p[2].type # "RequestRedirect"
  BY <1>1 DEF MergedHeaders, Headers
<1>2. \A p \in MergedRewrite(F) : p[2].type # "RequestRedirect"
  BY DEF MergedRewrite, Rewrite
<1> QED
  BY <1>1, <1>2 DEF merge_filters, OfType

-----------------------------------------------------------------------------
(* Headers.                                                                *)

\* The headers of a middleware that a modifier of this type sets.
Set(mw, type) ==
  IF type = "RequestHeaderModifier" THEN mw.request \ HostHeaders(mw.request) ELSE mw.response

Modifiers == {"RequestHeaderModifier", "ResponseHeaderModifier"}

(***************************************************************************)
(* A headers middleware becomes a modifier for each side it has headers of,*)
(* and nothing else does (src/transform/middleware.rs:213-274).            *)
(***************************************************************************)
LEMMA TranslatedHeaders ==
  ASSUME NEW mw, NEW type \in Modifiers
  PROVE  /\ \A f \in translate(mw) : f.type = type => mw.kind = "headers" /\ f = Headers(type, Set(mw, type))
         /\ mw.kind = "headers" /\ Set(mw, type) # {} => Headers(type, Set(mw, type)) \in translate(mw)
<1>1. ASSUME mw.kind # "headers", NEW f \in translate(mw)
      PROVE  f.type \notin Modifiers
  <2>1. \A s : Redirect(s).type = "RequestRedirect"
    BY DEF Redirect
  <2>2. \A t, v : \A g \in RewritePath(t, v) : g.type = "URLRewrite"
    BY DEF RewritePath, Rewrite
  <2> QED
    BY <1>1, <2>1, <2>2 DEF translate, Modifiers
<1>2. CASE mw.kind = "headers"
  <2>1. translate(mw) = translate_headers(mw)
    BY <1>2 DEF translate
  <2> DEFINE req == mw.request \ HostHeaders(mw.request)
  <2>2. \A f \in translate_headers(mw) :
          \/ f.type = "URLRewrite"
          \/ f = Headers("RequestHeaderModifier", req) /\ f.type = "RequestHeaderModifier"
          \/ f = Headers("ResponseHeaderModifier", mw.response) /\ f.type = "ResponseHeaderModifier"
    BY DEF translate_headers, Rewrite, Headers
  <2>3. /\ req # {} => Headers("RequestHeaderModifier", req) \in translate_headers(mw)
        /\ mw.response # {} => Headers("ResponseHeaderModifier", mw.response) \in translate_headers(mw)
    BY DEF translate_headers
  <2> QED
    BY <1>2, <2>1, <2>2, <2>3 DEF Modifiers, Set
<1> QED
  BY <1>1, <1>2

\* The middlewares of a chain that set headers.
Carriers(chain, middlewares) ==
  {i \in Known(chain, middlewares) : middlewares[chain[i]].kind = "headers"}

(***************************************************************************)
(* Merging keeps all headers of all middlewares.                           *)
(***************************************************************************)
LEMMA MergedHeadersKept ==
  ASSUME NEW F, NEW type \in Modifiers, NEW x
  PROVE  x \in RoutedHeaders(merge_filters(F), type) <=>
           \E p \in OfType(F, type) : \E h \in p[2].set : x = <<h[1], h[2]>>
<1> DEFINE all == HeadersOf(F, type)
<1>1. OfType(merge_filters(F), type) = MergedHeaders(F, type)
  BY MergedByType DEF Modifiers
<1>2. \A t : t \in all <=> \E p \in OfType(F, type) : \E h \in p[2].set : t = <<p[1], h[1], h[2]>>
  BY DEF HeadersOf
<1> HIDE DEF all
<1>3. x \in RoutedHeaders(merge_filters(F), type) <=>
        \E q \in MergedHeaders(F, type) : \E t \in q[2].set : x = <<t[2], t[3]>>
  BY <1>1 DEF RoutedHeaders
<1>4. \A q : q \in MergedHeaders(F, type) <=> all # {} /\ q = <<0, Headers(type, all)>>
  BY DEF MergedHeaders, all
<1>5. <<0, Headers(type, all)>>[2].set = all
  BY DEF Headers
<1>6. x \in RoutedHeaders(merge_filters(F), type) <=> \E t \in all : x = <<t[2], t[3]>>
  BY <1>3, <1>4, <1>5
<1>7. ASSUME NEW t \in all, x = <<t[2], t[3]>>
      PROVE  \E p \in OfType(F, type) : \E h \in p[2].set : x = <<h[1], h[2]>>
  <2>1. PICK p \in OfType(F, type) : \E h \in p[2].set : t = <<p[1], h[1], h[2]>>
    BY <1>2, <1>7
  <2>2. PICK h \in p[2].set : t = <<p[1], h[1], h[2]>>
    BY <2>1
  <2>3. t[2] = h[1] /\ t[3] = h[2]
    BY <2>2
  <2> QED
    BY <1>7, <2>1, <2>2, <2>3
<1>8. ASSUME NEW p \in OfType(F, type), NEW h \in p[2].set, x = <<h[1], h[2]>>
      PROVE  \E t \in all : x = <<t[2], t[3]>>
  <2> DEFINE t == <<p[1], h[1], h[2]>>
  <2>1. t \in all
    BY <1>2, <1>8
  <2>2. t[2] = h[1] /\ t[3] = h[2]
    OBVIOUS
  <2> QED
    BY <1>8, <2>1, <2>2
<1> QED
  BY <1>6, <1>7, <1>8

(***************************************************************************)
(* ... which are the headers that the middlewares set, one by one.         *)
(***************************************************************************)
LEMMA RoutedHeadersAre ==
  ASSUME NEW chain, NEW middlewares, NEW type \in Modifiers,
         \A i \in Carriers(chain, middlewares) : Set(middlewares[chain[i]], type) \subseteq STRING \X STRING
  PROVE  RoutedHeaders(build_filters(chain, middlewares), type)
           = UNION {Set(middlewares[chain[i]], type) : i \in Carriers(chain, middlewares)}
<1> DEFINE F == Raw(chain, middlewares)
           routed == RoutedHeaders(build_filters(chain, middlewares), type)
           Mw(i) == middlewares[chain[i]]
<1>1. build_filters(chain, middlewares) = merge_filters(F)
  BY DEF build_filters, Raw
<1>2. \A p : p \in F <=> \E i \in Known(chain, middlewares) : \E f \in translate(Mw(i)) : p = <<i, f>>
  BY DEF Raw
<1> HIDE DEF F
<1>3. \A x : x \in routed <=> \E p \in OfType(F, type) : \E h \in p[2].set : x = <<h[1], h[2]>>
  BY <1>1, MergedHeadersKept
<1>4. ASSUME NEW p \in OfType(F, type), NEW h \in p[2].set
      PROVE  \E i \in Carriers(chain, middlewares) : h \in Set(Mw(i), type)
  <2>1. p \in F /\ p[2].type = type
    BY <1>4 DEF OfType
  <2>2. PICK i \in Known(chain, middlewares) : \E f \in translate(Mw(i)) : p = <<i, f>>
    BY <1>2, <2>1
  <2>3. p[2] \in translate(Mw(i))
    BY <2>2
  <2>4. Mw(i).kind = "headers" /\ p[2] = Headers(type, Set(Mw(i), type))
    BY <2>1, <2>3, TranslatedHeaders
  <2>5. p[2].set = Set(Mw(i), type)
    BY <2>4 DEF Headers
  <2> QED
    BY <1>4, <2>2, <2>4, <2>5 DEF Carriers
<1>5. ASSUME NEW i \in Carriers(chain, middlewares), NEW h \in Set(Mw(i), type)
      PROVE  \E p \in OfType(F, type) : h \in p[2].set
  <2> DEFINE f == Headers(type, Set(Mw(i), type))
  <2>1. f \in translate(Mw(i))
    BY <1>5, TranslatedHeaders DEF Carriers
  <2>2. f.type = type /\ f.set = Set(Mw(i), type)
    BY DEF Headers
  <2> HIDE DEF f
  <2>3. <<i, f>> \in F
    BY <1>2, <2>1, <1>5 DEF Carriers
  <2> QED
    BY <2>2, <2>3 DEF OfType
<1>6. \A i \in Carriers(chain, middlewares) : \A h \in Set(Mw(i), type) : h = <<h[1], h[2]>>
  OBVIOUS
<1> QED
  BY <1>3, <1>4, <1>5, <1>6

(***************************************************************************)
(* Traefik sets each of them, too, when no two middlewares set the same:   *)
(* name says which headers are looked at.                                  *)
(***************************************************************************)
LEMMA MeantHeadersAre ==
  ASSUME NEW chain \in Seq(STRING), NEW middlewares, NEW side, NEW h, NEW i \in Carriers(chain, middlewares),
         h \in middlewares[chain[i]][side],
         \A j \in Carriers(chain, middlewares) :
           \A g \in middlewares[chain[j]][side] : g[1] = h[1] => j = i
  PROVE  h \in MeantHeaders(chain, middlewares, side)
<1>1. i <= i
  BY DEF Carriers, Known
<1>2. \A j \in Carriers(chain, middlewares) :
        \A g \in middlewares[chain[j]][side] : g[1] = h[1] => j <= i
  BY <1>1
<1> QED
  BY <1>2 DEF MeantHeaders, Carriers

\* What HeadersDiffer says of a chain.
Differ(chain, middlewares, side) ==
  \A i, j \in Carriers(chain, middlewares) :
    \A g \in middlewares[chain[i]][side], h \in middlewares[chain[j]][side] :
      g[1] = h[1] => IF i = j THEN g = h ELSE side = "request" /\ g[1] = "Host"

\* The headers are sets of pairs.
Paired(chain, middlewares) ==
  \A i \in Carriers(chain, middlewares) :
    \A side \in {"request", "response"} : middlewares[chain[i]][side] \subseteq STRING \X STRING

(***************************************************************************)
(* The modifiers set what Traefik sets.                                    *)
(***************************************************************************)
LEMMA SameModifiers ==
  ASSUME NEW chain \in Seq(STRING), NEW middlewares, Paired(chain, middlewares),
         Differ(chain, middlewares, "request"), Differ(chain, middlewares, "response")
  PROVE  LET filters == build_filters(chain, middlewares)
             request == MeantHeaders(chain, middlewares, "request")
         IN  /\ RoutedHeaders(filters, "RequestHeaderModifier") = request \ HostHeaders(request)
             /\ RoutedHeaders(filters, "ResponseHeaderModifier")
                  = MeantHeaders(chain, middlewares, "response")
<1> DEFINE C == Carriers(chain, middlewares)
           Mw(i) == middlewares[chain[i]]
<1>1. ASSUME NEW type \in Modifiers
      PROVE  RoutedHeaders(build_filters(chain, middlewares), type) = UNION {Set(Mw(i), type) : i \in C}
  <2>1. \A i \in C : Set(Mw(i), type) \subseteq STRING \X STRING
    BY DEF Paired, Set, HostHeaders
  <2> QED
    BY <2>1, RoutedHeadersAre
<1>2. \A side : \A h \in MeantHeaders(chain, middlewares, side) : \E i \in C : h \in Mw(i)[side]
  BY DEF MeantHeaders, Carriers
<1>3. MeantHeaders(chain, middlewares, "response") = UNION {Mw(i)["response"] : i \in C}
  <2>1. ASSUME NEW i \in C, NEW h \in Mw(i)["response"]
        PROVE  h \in MeantHeaders(chain, middlewares, "response")
    <3>1. \A j \in C : \A g \in Mw(j)["response"] : g[1] = h[1] => j = i
      BY <2>1 DEF Differ
    <3> QED
      BY <2>1, <3>1, MeantHeadersAre
  <2> QED
    BY <1>2, <2>1
<1>4. \A h : h \in MeantHeaders(chain, middlewares, "request") /\ h[1] # "Host"
              <=> h[1] # "Host" /\ \E i \in C : h \in Mw(i)["request"]
  <2>1. ASSUME NEW i \in C, NEW h \in Mw(i)["request"], h[1] # "Host"
        PROVE  h \in MeantHeaders(chain, middlewares, "request")
    <3>1. \A j \in C : \A g \in Mw(j)["request"] : g[1] = h[1] => j = i
      BY <2>1 DEF Differ
    <3> QED
      BY <2>1, <3>1, MeantHeadersAre
  <2> QED
    BY <1>2, <2>1
<1> HIDE DEF C
<1>5. \A i : Set(Mw(i), "ResponseHeaderModifier") = Mw(i)["response"]
  BY DEF Set
<1>6. \A i : Set(Mw(i), "RequestHeaderModifier") = {h \in Mw(i)["request"] : h[1] # "Host"}
  BY DEF Set, HostHeaders
<1>7. RoutedHeaders(build_filters(chain, middlewares), "ResponseHeaderModifier")
        = MeantHeaders(chain, middlewares, "response")
  BY <1>1, <1>3, <1>5 DEF Modifiers
<1>8. RoutedHeaders(build_filters(chain, middlewares), "RequestHeaderModifier")
        = UNION {{h \in Mw(i)["request"] : h[1] # "Host"} : i \in C}
  BY <1>1, <1>6 DEF Modifiers
<1>9. UNION {{h \in Mw(i)["request"] : h[1] # "Host"} : i \in C}
        = {h \in MeantHeaders(chain, middlewares, "request") : h[1] # "Host"}
  BY <1>4
<1>10. ASSUME NEW H
       PROVE  {h \in H : h[1] # "Host"} = H \ HostHeaders(H)
  BY DEF HostHeaders
<1> QED
  BY <1>7, <1>8, <1>9, <1>10

-----------------------------------------------------------------------------
(* Rewrites.                                                               *)

\* The part of a rewrite that says what becomes of the path.
PathPart(type, value) == [type |-> type, value |-> value]

\* What a middleware may hold.
Stringly(mw) ==
  /\ mw.kind = "addPrefix" => mw.prefix \in STRING \cup {Absent}
  /\ mw.kind = "replacePath" => mw.path \in STRING \cup {Absent}
  /\ mw.kind = "headers" => mw.request \subseteq STRING \X STRING

\* The path rewrite of a middleware, if it has one.
PathRewrite(mw) ==
  CASE mw.kind = "addPrefix" /\ mw.prefix # Absent -> {PathPart("ReplacePrefixMatch", mw.prefix)}
    [] mw.kind = "replacePath" /\ mw.path # Absent -> {PathPart("ReplaceFullPath", mw.path)}
    [] mw.kind = "stripPrefix" /\ mw.prefixes # <<>> -> {PathPart("ReplacePrefixMatch", "")}
    [] OTHER -> {}

\* The host names of a middleware.
HostNames(mw) == IF mw.kind = "headers" THEN {h[2] : h \in HostHeaders(mw.request)} ELSE {}

(***************************************************************************)
(* The rewrites of a middleware are of a host name or of the path.         *)
(***************************************************************************)
LEMMA TranslatedRewrites ==
  ASSUME NEW mw, Stringly(mw), NEW f
  PROVE  f \in translate(mw) /\ f.type = "URLRewrite" <=>
           \/ \E v \in HostNames(mw) : f = Rewrite(v, Absent)
           \/ \E p \in PathRewrite(mw) : f = Rewrite(Absent, p)
<1>1. \A a, b : Rewrite(a, b).type = "URLRewrite"
  BY DEF Rewrite
<1>2. \A t, v : RewritePath(t, v) = IF v = Absent THEN {} ELSE {Rewrite(Absent, PathPart(t, v))}
  BY DEF RewritePath, PathPart
<1>3. CASE mw.kind = "headers"
  <2>1. translate(mw) = translate_headers(mw) /\ PathRewrite(mw) = {}
    BY <1>3 DEF translate, PathRewrite
  <2>2. \A a, b : Headers(a, b).type = a
    BY DEF Headers
  <2>3. f \in translate_headers(mw) <=>
          \/ \E h \in HostHeaders(mw.request) : f = Rewrite(h[2], Absent)
          \/ /\ mw.request \ HostHeaders(mw.request) # {}
             /\ f = Headers("RequestHeaderModifier", mw.request \ HostHeaders(mw.request))
          \/ mw.response # {} /\ f = Headers("ResponseHeaderModifier", mw.response)
    BY DEF translate_headers
  <2> QED
    BY <1>1, <1>3, <2>1, <2>2, <2>3 DEF HostNames
<1>4. CASE mw.kind = "addPrefix"
  <2>1. translate(mw) = RewritePath("ReplacePrefixMatch", mw.prefix)
    BY <1>4 DEF translate
  <2>2. PathRewrite(mw) = IF mw.prefix = Absent THEN {} ELSE {PathPart("ReplacePrefixMatch", mw.prefix)}
    BY <1>4 DEF PathRewrite
  <2>3. HostNames(mw) = {}
    BY <1>4 DEF HostNames
  <2> QED
    BY <1>1, <1>2, <2>1, <2>2, <2>3
<1>5. CASE mw.kind = "replacePath"
  <2>1. translate(mw) = RewritePath("ReplaceFullPath", mw.path)
    BY <1>5 DEF translate
  <2>2. PathRewrite(mw) = IF mw.path = Absent THEN {} ELSE {PathPart("ReplaceFullPath", mw.path)}
    BY <1>5 DEF PathRewrite
  <2>3. HostNames(mw) = {}
    BY <1>5 DEF HostNames
  <2> QED
    BY <1>1, <1>2, <2>1, <2>2, <2>3
<1>6. CASE mw.kind = "stripPrefix"
  <2>1. translate(mw) = IF mw.prefixes = <<>> THEN {} ELSE RewritePath("ReplacePrefixMatch", "")
    BY <1>6 DEF translate
  <2>2. PathRewrite(mw) = IF mw.prefixes = <<>> THEN {} ELSE {PathPart("ReplacePrefixMatch", "")}
    BY <1>6 DEF PathRewrite
  <2>3. HostNames(mw) = {} /\ Absent # ""
    BY <1>6, MiddlewareAssumption DEF HostNames
  <2> QED
    BY <1>1, <1>2, <2>1, <2>2, <2>3
<1>7. CASE mw.kind \notin {"headers", "addPrefix", "replacePath", "stripPrefix"}
  <2>1. \A g \in translate(mw) : g.type = "RequestRedirect"
    <3>1. CASE mw.kind = "redirectScheme"
      <4>1. translate(mw) = {Redirect(s) : s \in {mw.scheme} \cap {"http", "https"}}
        BY <3>1 DEF translate
      <4> QED
        BY <4>1 DEF Redirect
    <3>2. CASE mw.kind # "redirectScheme"
      <4>1. translate(mw) = {}
        BY <1>7, <3>2 DEF translate
      <4> QED
        BY <4>1
    <3> QED
      BY <3>1, <3>2
  <2>2. HostNames(mw) = {} /\ PathRewrite(mw) = {}
    BY <1>7 DEF HostNames, PathRewrite
  <2> QED
    BY <2>1, <2>2
<1> QED
  BY <1>3, <1>4, <1>5, <1>6, <1>7

\* The middlewares of a chain that are there hold strings.
StringlyChain(chain, middlewares) == \A i \in Known(chain, middlewares) : Stringly(middlewares[chain[i]])

(***************************************************************************)
(* The raw rewrites of a chain, with the positions they come from.         *)
(***************************************************************************)
LEMMA RawRewrites ==
  ASSUME NEW chain, NEW middlewares, StringlyChain(chain, middlewares), NEW q
  PROVE  q \in OfType(Raw(chain, middlewares), "URLRewrite") <=>
           \E i \in Known(chain, middlewares) :
             \/ \E v \in HostNames(middlewares[chain[i]]) : q = <<i, Rewrite(v, Absent)>>
             \/ \E p \in PathRewrite(middlewares[chain[i]]) : q = <<i, Rewrite(Absent, p)>>
<1> DEFINE Mw(i) == middlewares[chain[i]]
<1>1. q \in Raw(chain, middlewares) <=>
        \E i \in Known(chain, middlewares) : \E f \in translate(Mw(i)) : q = <<i, f>>
  BY DEF Raw
<1>2. \A i \in Known(chain, middlewares) : \A f :
        f \in translate(Mw(i)) /\ f.type = "URLRewrite" <=>
          \/ \E v \in HostNames(Mw(i)) : f = Rewrite(v, Absent)
          \/ \E p \in PathRewrite(Mw(i)) : f = Rewrite(Absent, p)
  BY TranslatedRewrites DEF StringlyChain
<1>3. \A i, f : <<i, f>>[2] = f
  OBVIOUS
<1>4. q \in OfType(Raw(chain, middlewares), "URLRewrite") <=>
        \E i \in Known(chain, middlewares) :
          \E f \in translate(Mw(i)) : q = <<i, f>> /\ f.type = "URLRewrite"
  BY <1>1, <1>3 DEF OfType
<1> QED
  BY <1>2, <1>4

\* The parts of MergedRewrite.
HostRewrites(F) == {p \in OfType(F, "URLRewrite") : p[2].hostname # Absent}
PathRewrites(F) == {p \in OfType(F, "URLRewrite") : p[2].path # Absent}

LastHost(F) == CHOOSE p \in HostRewrites(F) : \A q \in HostRewrites(F) : q[1] <= p[1]
FirstPath(F) == CHOOSE p \in PathRewrites(F) : \A q \in PathRewrites(F) : p[1] <= q[1]

(***************************************************************************)
(* The merged rewrite has the last host name and the first path.           *)
(***************************************************************************)
LEMMA MergedRewriteIs ==
  ASSUME NEW F
  PROVE  /\ RoutedHosts(merge_filters(F))
              = IF HostRewrites(F) = {} THEN {} ELSE {LastHost(F)[2].hostname} \ {Absent}
         /\ {p[2].path : p \in OfType(merge_filters(F), "URLRewrite")} \ {Absent}
              = IF PathRewrites(F) = {} THEN {} ELSE {FirstPath(F)[2].path} \ {Absent}
<1> DEFINE hostname == IF HostRewrites(F) = {} THEN Absent ELSE LastHost(F)[2].hostname
           path == IF PathRewrites(F) = {} THEN Absent ELSE FirstPath(F)[2].path
           merged == <<0, Rewrite(hostname, path)>>
<1>1. OfType(merge_filters(F), "URLRewrite") = MergedRewrite(F)
  BY MergedByType
<1>2. MergedRewrite(F) = IF OfType(F, "URLRewrite") = {} THEN {} ELSE {merged}
  BY DEF MergedRewrite, HostRewrites, PathRewrites, LastHost, FirstPath
<1>3. merged[2].hostname = hostname /\ merged[2].path = path
  BY DEF Rewrite
<1>4. OfType(F, "URLRewrite") = {} => HostRewrites(F) = {} /\ PathRewrites(F) = {}
  BY DEF HostRewrites, PathRewrites
<1>5. CASE OfType(F, "URLRewrite") = {}
  <2>1. OfType(merge_filters(F), "URLRewrite") = {}
    BY <1>1, <1>2, <1>5
  <2> QED
    BY <1>4, <1>5, <2>1 DEF RoutedHosts
<1>6. CASE OfType(F, "URLRewrite") # {}
  <2>1. OfType(merge_filters(F), "URLRewrite") = {merged}
    BY <1>1, <1>2, <1>6
  <2> HIDE DEF merged
  <2>2. /\ RoutedHosts(merge_filters(F)) = {hostname} \ {Absent}
        /\ {p[2].path : p \in OfType(merge_filters(F), "URLRewrite")} \ {Absent} = {path} \ {Absent}
    BY <1>3, <2>1 DEF RoutedHosts
  <2> QED
    BY <2>2
<1> QED
  BY <1>5, <1>6

(***************************************************************************)
(* The raw filters that name a host, and those that change the path.       *)
(***************************************************************************)
LEMMA RawHosts ==
  ASSUME NEW chain, NEW middlewares, StringlyChain(chain, middlewares), NEW q
  PROVE  /\ q \in HostRewrites(Raw(chain, middlewares)) <=>
              \E i \in Known(chain, middlewares) :
                \E v \in HostNames(middlewares[chain[i]]) : q = <<i, Rewrite(v, Absent)>>
         /\ q \in PathRewrites(Raw(chain, middlewares)) <=>
              \E i \in Known(chain, middlewares) :
                \E p \in PathRewrite(middlewares[chain[i]]) : q = <<i, Rewrite(Absent, p)>>
<1> DEFINE Mw(i) == middlewares[chain[i]]
           F == Raw(chain, middlewares)
<1>1. q \in OfType(F, "URLRewrite") <=>
        \E i \in Known(chain, middlewares) :
          \/ \E v \in HostNames(Mw(i)) : q = <<i, Rewrite(v, Absent)>>
          \/ \E p \in PathRewrite(Mw(i)) : q = <<i, Rewrite(Absent, p)>>
  BY RawRewrites
<1>2. \A i, a, b : <<i, Rewrite(a, b)>>[2].hostname = a /\ <<i, Rewrite(a, b)>>[2].path = b
  BY DEF Rewrite
<1>3. ASSUME NEW i \in Known(chain, middlewares), NEW v \in HostNames(Mw(i))
      PROVE  v # Absent
  <2>1. Mw(i).kind = "headers" /\ Mw(i).request \subseteq STRING \X STRING
    BY <1>3 DEF StringlyChain, Stringly, HostNames
  <2>2. PICK h \in Mw(i).request : v = h[2]
    BY <1>3, <2>1 DEF HostNames, HostHeaders
  <2>3. v \in STRING
    BY <2>1, <2>2
  <2> QED
    BY <2>3, MiddlewareAssumption
<1>4. ASSUME NEW i \in Known(chain, middlewares), NEW p \in PathRewrite(Mw(i))
      PROVE  p # Absent
  <2> DEFINE Parts0 == [type : {"ReplacePrefixMatch", "ReplaceFullPath"}, value : STRING \cup {""}]
  <2>1. \A t \in {"ReplacePrefixMatch", "ReplaceFullPath"} : \A v \in STRING \cup {""} : PathPart(t, v) \in Parts0
    BY DEF PathPart
  <2>2. Absent \notin Parts0
    BY MiddlewareAssumption
  <2> HIDE DEF Parts0
  <2>3. Stringly(Mw(i))
    BY <1>4 DEF StringlyChain
  <2>4. \E t \in {"ReplacePrefixMatch", "ReplaceFullPath"} : \E v \in STRING \cup {""} : p = PathPart(t, v)
    <3>1. CASE Mw(i).kind = "addPrefix"
      BY <1>4, <2>3, <3>1 DEF PathRewrite, Stringly
    <3>2. CASE Mw(i).kind = "replacePath"
      BY <1>4, <2>3, <3>2 DEF PathRewrite, Stringly
    <3>3. CASE Mw(i).kind = "stripPrefix"
      BY <1>4, <3>3 DEF PathRewrite
    <3> QED
      BY <1>4, <3>1, <3>2, <3>3 DEF PathRewrite
  <2> QED
    BY <2>1, <2>2, <2>4
<1> HIDE DEF F
<1>5. q \in HostRewrites(F) <=> \E i \in Known(chain, middlewares) : \E v \in HostNames(Mw(i)) : q = <<i, Rewrite(v, Absent)>>
  BY <1>1, <1>2, <1>3 DEF HostRewrites
<1>6. q \in PathRewrites(F) <=> \E i \in Known(chain, middlewares) : \E p \in PathRewrite(Mw(i)) : q = <<i, Rewrite(Absent, p)>>
  BY <1>1, <1>2, <1>4 DEF PathRewrites
<1> QED
  BY <1>5, <1>6 DEF F

(***************************************************************************)
(* The host is the one that the last middleware sets which sets one.       *)
(***************************************************************************)
LEMMA SameHosts ==
  ASSUME NEW chain \in Seq(STRING), NEW middlewares, StringlyChain(chain, middlewares),
         Differ(chain, middlewares, "request")
  PROVE  RoutedHosts(build_filters(chain, middlewares))
           = {h[2] : h \in HostHeaders(MeantHeaders(chain, middlewares, "request"))}
<1> DEFINE Mw(i) == middlewares[chain[i]]
           C == Carriers(chain, middlewares)
           F == Raw(chain, middlewares)
           P == {i \in C : HostHeaders(Mw(i).request) # {}}
           meant == HostHeaders(MeantHeaders(chain, middlewares, "request"))
<1>1. build_filters(chain, middlewares) = merge_filters(F)
  BY DEF build_filters, Raw
<1>2. \A q : q \in HostRewrites(F) <=>
        \E i \in C : \E h \in HostHeaders(Mw(i).request) : q = <<i, Rewrite(h[2], Absent)>>
  <2>1. \A q : q \in HostRewrites(F) <=>
          \E i \in Known(chain, middlewares) : \E v \in HostNames(Mw(i)) : q = <<i, Rewrite(v, Absent)>>
    BY RawHosts
  <2>2. \A i \in Known(chain, middlewares) : \A v :
          v \in HostNames(Mw(i)) <=> i \in C /\ \E h \in HostHeaders(Mw(i).request) : v = h[2]
    BY DEF HostNames, Carriers
  <2>3. C \subseteq Known(chain, middlewares)
    BY DEF Carriers
  <2> DEFINE Pair(i, v) == <<i, Rewrite(v, Absent)>>
  <2> HIDE DEF C, F, Mw, Pair
  <2>4. \A q : (\E i \in Known(chain, middlewares) : \E v \in HostNames(Mw(i)) : q = Pair(i, v))
                <=> \E i \in C : \E h \in HostHeaders(Mw(i).request) : q = Pair(i, h[2])
    BY <2>2, <2>3
  <2> QED
    BY <2>1, <2>4 DEF Pair
<1>3. C \subseteq 1 .. Len(chain) /\ Len(chain) \in Nat
  BY DEF Carriers, Known
<1>4. \A h : h \in meant <=>
        /\ h[1] = "Host"
        /\ \E i \in C : /\ h \in Mw(i).request
                        /\ \A j \in C : \A g \in Mw(j).request : g[1] = h[1] => j <= i
  BY DEF MeantHeaders, Carriers, HostHeaders
<1> HIDE DEF F, meant
<1>5. CASE P = {}
  <2>1. HostRewrites(F) = {}
    BY <1>2, <1>5
  <2>2. meant = {}
    BY <1>4, <1>5 DEF HostHeaders
  <2>3. RoutedHosts(merge_filters(F)) = {h[2] : h \in meant}
    BY <2>1, <2>2, MergedRewriteIs
  <2> QED
    BY <1>1, <2>3 DEF meant
<1>6. CASE P # {}
  <2>1. PICK m \in P : \A j \in P : j <= m
    <3>1. P \subseteq 1 .. Len(chain)
      BY <1>3
    <3> HIDE DEF P
    <3> QED
      BY <1>3, <1>6, <3>1, LastPosition
  <2>2. PICK h : h \in HostHeaders(Mw(m).request)
    BY <2>1
  <2>3. m \in C /\ h \in Mw(m).request /\ h[1] = "Host"
    BY <2>1, <2>2 DEF HostHeaders
  <2>4. \A g \in HostHeaders(Mw(m).request) : g = h
    BY <2>2, <2>3 DEF Differ, HostHeaders
  <2>5. \A j \in C : \A g \in Mw(j).request : g[1] = "Host" => j <= m
    BY <2>1 DEF HostHeaders
  <2>6. meant = {h}
    <3>1. h \in meant
      BY <1>4, <2>3, <2>5
    <3>2. ASSUME NEW g \in meant
          PROVE  g = h
      <4>1. g[1] = "Host"
        BY <1>4, <3>2
      <4>2. PICK i \in C : /\ g \in Mw(i).request
                           /\ \A j \in C : \A x \in Mw(j).request : x[1] = g[1] => j <= i
        BY <1>4, <3>2
      <4>3. m <= i /\ i <= m
        BY <2>3, <2>5, <4>1, <4>2
      <4>4. i = m
        BY <1>3, <2>3, <4>3
      <4> QED
        BY <2>4, <4>1, <4>2, <4>4 DEF HostHeaders
    <3> QED
      BY <3>1, <3>2
  <2>7. LastHost(F) = <<m, Rewrite(h[2], Absent)>> /\ LastHost(F) \in HostRewrites(F)
    <3> DEFINE last == <<m, Rewrite(h[2], Absent)>>
    <3>1. last \in HostRewrites(F) /\ last[1] = m
      BY <1>2, <2>2, <2>3
    <3>2. ASSUME NEW q \in HostRewrites(F)
          PROVE  q[1] <= m /\ (m <= q[1] => q = last)
      <4>1. PICK i \in C : \E g \in HostHeaders(Mw(i).request) : q = <<i, Rewrite(g[2], Absent)>>
        BY <1>2, <3>2
      <4>2. PICK g \in HostHeaders(Mw(i).request) : q = <<i, Rewrite(g[2], Absent)>>
        BY <4>1
      <4>3. q[1] = i /\ i <= m
        BY <2>5, <4>2 DEF HostHeaders
      <4>4. m <= i => i = m
        BY <1>3, <2>3, <4>3
      <4> QED
        BY <2>4, <4>2, <4>3, <4>4
    <3> HIDE DEF last
    <3>3. /\ LastHost(F) \in HostRewrites(F)
          /\ \A q \in HostRewrites(F) : q[1] <= LastHost(F)[1]
      BY <3>1, <3>2 DEF LastHost
    <3>4. LastHost(F) = last
      BY <3>1, <3>2, <3>3
    <3> QED
      BY <3>1, <3>4 DEF last
  <2>8. LastHost(F)[2].hostname = h[2]
    BY <2>7 DEF Rewrite
  <2>9. h[2] # Absent
    BY <2>7, <2>8 DEF HostRewrites
  <2>10. RoutedHosts(merge_filters(F)) = {h[2]}
    BY <2>7, <2>8, <2>9, MergedRewriteIs
  <2>11. {g[2] : g \in meant} = {h[2]}
    BY <2>6
  <2> QED
    BY <1>1, <2>10, <2>11 DEF meant
<1> QED
  BY <1>5, <1>6

-----------------------------------------------------------------------------
(* Paths.  Traefik's path is defined by recursion along the chain; that    *)
(* there is such a function, and what it stays at, follows from the least  *)
(* position at which it would not be so.                                   *)

PathStep(chain, middlewares, i, path) ==
  IF chain[i] \in DOMAIN middlewares THEN TraefikStep(middlewares[chain[i]], path) ELSE path

\* f has the paths after each of the first n middlewares.
IsRun(f, chain, middlewares, path, n) ==
  f = [i \in 0 .. n |-> IF i = 0 THEN path ELSE PathStep(chain, middlewares, i, f[i - 1])]

(***************************************************************************)
(* There is a run of any length.                                           *)
(***************************************************************************)
LEMMA RunExists ==
  ASSUME NEW chain, NEW middlewares, NEW path, NEW n \in Nat
  PROVE  \E f : IsRun(f, chain, middlewares, path, n)
<1> DEFINE T == {k \in Nat : ~\E f : IsRun(f, chain, middlewares, path, k)}
<1> SUFFICES ASSUME T # {}
             PROVE  FALSE
  OBVIOUS
<1>1. PICK k \in T : \A j \in T : k <= j
  <2>1. T \subseteq Nat
    OBVIOUS
  <2> HIDE DEF T
  <2> QED
    BY <2>1, LeastNatural
<1>2. CASE k = 0
  <2> DEFINE f == [i \in 0 .. 0 |-> path]
  <2>1. f = [i \in 0 .. 0 |-> IF i = 0 THEN path ELSE PathStep(chain, middlewares, i, f[i - 1])]
    OBVIOUS
  <2> HIDE DEF f
  <2> QED
    BY <1>2, <2>1 DEF IsRun
<1>3. CASE k # 0
  <2>1. k \in Nat /\ k - 1 \in Nat /\ ~(k <= k - 1)
    BY <1>3
  <2>2. PICK f : IsRun(f, chain, middlewares, path, k - 1)
    BY <1>1, <2>1
  <2> DEFINE g == [i \in 0 .. k |-> IF i = k THEN PathStep(chain, middlewares, k, f[k - 1]) ELSE f[i]]
  <2>3. \A i \in 0 .. k - 1 : f[i] = IF i = 0 THEN path ELSE PathStep(chain, middlewares, i, f[i - 1])
    BY <2>2 DEF IsRun
  <2>4. ASSUME NEW i \in 0 .. k
        PROVE  g[i] = IF i = 0 THEN path ELSE PathStep(chain, middlewares, i, g[i - 1])
    <3>1. CASE i = 0
      BY <1>3, <2>1, <2>3, <3>1
    <3>2. CASE i # 0 /\ i = k
      <4>1. k - 1 \in 0 .. k /\ k - 1 # k
        BY <2>1
      <4>2. g[k - 1] = f[k - 1]
        BY <4>1
      <4> QED
        BY <3>2, <4>2
    <3>3. CASE i # 0 /\ i # k
      <4>1. i \in 0 .. k - 1 /\ i - 1 \in 0 .. k /\ i - 1 # k
        BY <2>1, <3>3
      <4>2. g[i - 1] = f[i - 1] /\ g[i] = f[i]
        BY <3>3, <4>1
      <4> QED
        BY <2>3, <3>3, <4>1, <4>2
    <3> QED
      BY <3>1, <3>2, <3>3
  <2>5. g = [i \in 0 .. k |-> g[i]]
    OBVIOUS
  <2> HIDE DEF g
  <2>6. g = [i \in 0 .. k |-> IF i = 0 THEN path ELSE PathStep(chain, middlewares, i, g[i - 1])]
    BY <2>4, <2>5
  <2> QED
    BY <2>6 DEF IsRun
<1> QED
  BY <1>2, <1>3

(***************************************************************************)
(* MeantPath is the end of a run along the chain.                          *)
(***************************************************************************)
LEMMA MeantPathIsRun ==
  ASSUME NEW chain \in Seq(STRING), NEW middlewares, NEW path
  PROVE  \E f : /\ IsRun(f, chain, middlewares, path, Len(chain))
                /\ MeantPath(chain, middlewares, path) = f[Len(chain)]
<1> DEFINE after == CHOOSE f : f = [i \in 0 .. Len(chain) |->
                      IF i = 0 THEN path
                      ELSE IF chain[i] \in DOMAIN middlewares
                             THEN TraefikStep(middlewares[chain[i]], f[i - 1])
                             ELSE f[i - 1]]
<1>1. MeantPath(chain, middlewares, path) = after[Len(chain)]
  BY DEF MeantPath
<1>2. \E f : f = [i \in 0 .. Len(chain) |->
                      IF i = 0 THEN path
                      ELSE IF chain[i] \in DOMAIN middlewares
                             THEN TraefikStep(middlewares[chain[i]], f[i - 1])
                             ELSE f[i - 1]]
  <2>1. PICK f : IsRun(f, chain, middlewares, path, Len(chain))
    <3>1. Len(chain) \in Nat
      OBVIOUS
    <3> QED
      BY <3>1, RunExists
  <2> QED
    BY <2>1 DEF IsRun, PathStep
<1>3. after = [i \in 0 .. Len(chain) |->
                      IF i = 0 THEN path
                      ELSE IF chain[i] \in DOMAIN middlewares
                             THEN TraefikStep(middlewares[chain[i]], after[i - 1])
                             ELSE after[i - 1]]
  BY <1>2
<1> HIDE DEF after
<1>4. IsRun(after, chain, middlewares, path, Len(chain))
  BY <1>3 DEF IsRun, PathStep
<1> QED
  BY <1>1, <1>4

\* The middleware at position i leaves every path alone.
Quiet(chain, middlewares, i) == \A p : PathStep(chain, middlewares, i, p) = p

\* ... and so do all after position a up to b.
AllQuiet(chain, middlewares, a, b) == \A i \in a + 1 .. b : Quiet(chain, middlewares, i)

(***************************************************************************)
(* A run stays where it is along middlewares that leave the path alone.    *)
(***************************************************************************)
LEMMA RunStays ==
  ASSUME NEW chain, NEW middlewares, NEW path, NEW n \in Nat, NEW f,
         IsRun(f, chain, middlewares, path, n),
         NEW a \in 0 .. n, NEW b \in 0 .. n, a <= b,
         AllQuiet(chain, middlewares, a, b)
  PROVE  f[b] = f[a]
<1> DEFINE T == {k \in a .. b : f[k] # f[a]}
<1> SUFFICES ASSUME T # {}
             PROVE  FALSE
  BY b \in a .. b
<1>1. PICK k \in T : \A j \in T : k <= j
  <2>1. T \subseteq Nat
    OBVIOUS
  <2> HIDE DEF T
  <2> QED
    BY <2>1, LeastNatural
<1>2. k \in 1 .. n /\ k \in a + 1 .. b /\ k - 1 \in a .. b /\ ~(k <= k - 1)
  BY <1>1
<1>3. f[k - 1] = f[a]
  BY <1>1, <1>2
<1>4. f[k] = PathStep(chain, middlewares, k, f[k - 1])
  <2>1. k \in 0 .. n /\ k # 0
    BY <1>2
  <2> QED
    BY <2>1 DEF IsRun
<1> QED
  BY <1>2, <1>3, <1>4 DEF AllQuiet, Quiet

(***************************************************************************)
(* ... and at the path it starts with, from the first one on.              *)
(***************************************************************************)
LEMMA RunStarts ==
  ASSUME NEW chain, NEW middlewares, NEW path, NEW n \in Nat, NEW f,
         IsRun(f, chain, middlewares, path, n), NEW b \in 0 .. n,
         AllQuiet(chain, middlewares, 0, b)
  PROVE  f[b] = path
<1> DEFINE a == 0
<1>1. a \in 0 .. n /\ a <= b
  OBVIOUS
<1>2. f[a] = path
  BY DEF IsRun
<1>3. AllQuiet(chain, middlewares, a, b)
  OBVIOUS
<1> HIDE DEF a
<1> QED
  BY <1>1, <1>2, <1>3, RunStays

\* The path rewrites of the merged filters.
RewritesOf(filters) == {p[2].path : p \in OfType(filters, "URLRewrite")} \ {Absent}

(***************************************************************************)
(* When one middleware at most rewrites the path, its rewrite is left.     *)
(***************************************************************************)
LEMMA OnlyRewrite ==
  ASSUME NEW chain \in Seq(STRING), NEW middlewares, StringlyChain(chain, middlewares), NEW r,
         \/ r = {} /\ \A i \in Known(chain, middlewares) : PathRewrite(middlewares[chain[i]]) = {}
         \/ \E c \in Known(chain, middlewares) :
              /\ r = PathRewrite(middlewares[chain[c]])
              /\ \A i \in Known(chain, middlewares) : PathRewrite(middlewares[chain[i]]) # {} => i = c
  PROVE  RewritesOf(build_filters(chain, middlewares)) = r
<1> DEFINE Mw(i) == middlewares[chain[i]]
           F == Raw(chain, middlewares)
<1>1. build_filters(chain, middlewares) = merge_filters(F)
  BY DEF build_filters, Raw
<1>2. \A q : q \in PathRewrites(F) <=>
        \E i \in Known(chain, middlewares) : \E p \in PathRewrite(Mw(i)) : q = <<i, Rewrite(Absent, p)>>
  BY RawHosts
<1>3. RewritesOf(merge_filters(F)) = IF PathRewrites(F) = {} THEN {} ELSE {FirstPath(F)[2].path} \ {Absent}
  BY MergedRewriteIs DEF RewritesOf
<1> HIDE DEF F
<1>4. CASE r = {} /\ \A i \in Known(chain, middlewares) : PathRewrite(Mw(i)) = {}
  BY <1>1, <1>2, <1>3, <1>4
<1>5. ASSUME NEW c \in Known(chain, middlewares), r = PathRewrite(Mw(c)),
             \A i \in Known(chain, middlewares) : PathRewrite(Mw(i)) # {} => i = c
      PROVE  RewritesOf(merge_filters(F)) = r
  <2>1. \A q : q \in PathRewrites(F) <=> \E p \in r : q = <<c, Rewrite(Absent, p)>>
    BY <1>2, <1>5
  <2>2. CASE r = {}
    BY <1>3, <2>1, <2>2
  <2>3. CASE r # {}
    <3>1. PICK p : r = {p}
      BY <1>5, <2>3 DEF PathRewrite
    <3> DEFINE first == <<c, Rewrite(Absent, p)>>
    <3>2. PathRewrites(F) = {first}
      BY <2>1, <3>1
    <3>3. first[2].path = p /\ first[1] = c
      BY DEF Rewrite
    <3>4. c <= c
      BY DEF Known
    <3> HIDE DEF first
    <3>5. FirstPath(F) = first
      BY <3>2, <3>3, <3>4 DEF FirstPath
    <3>6. p # Absent
      BY <3>2, <3>3 DEF PathRewrites
    <3> QED
      BY <1>3, <3>1, <3>2, <3>3, <3>5, <3>6
  <2> QED
    BY <2>2, <2>3
<1> QED
  BY <1>1, <1>4, <1>5

\* What PathExpressible says of a chain and of what the rule has matched.
Expressible(chain, middlewares, path) ==
  LET changes == {i \in Known(chain, middlewares) : middlewares[chain[i]].kind \in PathKinds}
      matched == IF path.kind = "PathPrefix" THEN Segments[path.value] ELSE <<>>
  IN  /\ \A i, j \in changes : i = j
      /\ \A i \in changes :
           \/ middlewares[chain[i]].kind = "replacePath"
           \/ middlewares[chain[i]].kind = "addPrefix" /\ matched = <<>>
           \/ middlewares[chain[i]].kind = "stripPrefix" /\ path.kind = "PathPrefix"
                /\ middlewares[chain[i]].prefixes = <<path.value>>

(***************************************************************************)
(* A middleware of another kind leaves the path alone, on either side.     *)
(***************************************************************************)
LEMMA OtherKindsQuiet ==
  ASSUME NEW mw, mw.kind \notin PathKinds
  PROVE  PathRewrite(mw) = {} /\ \A p : TraefikStep(mw, p) = p
<1>1. mw.kind \notin {"addPrefix", "stripPrefix", "replacePath"}
  BY DEF PathKinds
<1> QED
  BY <1>1 DEF PathRewrite, TraefikStep

(***************************************************************************)
(* What one path middleware does and what its rewrite does is the same:    *)
(* prefix is what the rule has matched of the path.                        *)
(***************************************************************************)
LEMMA SameStep ==
  ASSUME NEW mw, NEW prefix \in Seq(STRING), NEW path \in Seq(STRING), NEW filters,
         RewritesOf(filters) = PathRewrite(mw),
         \/ mw.kind = "replacePath"
         \/ mw.kind = "addPrefix" /\ prefix = <<>>
         \/ /\ mw.kind = "stripPrefix" /\ StartsWith(path, prefix)
            /\ \E v : mw.prefixes = <<v>> /\ Segments[v] = prefix
  PROVE  RoutedPath(filters, prefix, path) = TraefikStep(mw, path)
<1> DEFINE Replaced(r) == IF r.type = "ReplaceFullPath" THEN Segments[r.value]
                          ELSE Segments[r.value] \o Without(path, Len(prefix))
<1>1. PathRewrite(mw) = {} => RoutedPath(filters, prefix, path) = path
  BY DEF RoutedPath, RewritesOf
<1>2. ASSUME NEW r, PathRewrite(mw) = {r}
      PROVE  RoutedPath(filters, prefix, path) = Replaced(r)
  <2> DEFINE R == RewritesOf(filters)
             x == CHOOSE y \in R : TRUE
  <2>1. RoutedPath(filters, prefix, path) = IF R = {} THEN path ELSE Replaced(x)
    BY DEF RoutedPath, RewritesOf
  <2>2. R = {r}
    BY <1>2
  <2> HIDE DEF R
  <2>3. x = r
    BY <2>2
  <2> HIDE DEF x, Replaced
  <2> QED
    BY <2>1, <2>2, <2>3
<1>3. \A t, v : PathPart(t, v).type = t /\ PathPart(t, v).value = v
  BY DEF PathPart
<1>4. CASE mw.kind = "replacePath"
  <2>1. CASE mw.path = Absent
    BY <1>1, <1>4, <2>1 DEF PathRewrite, TraefikStep
  <2>2. CASE mw.path # Absent
    <3>1. PathRewrite(mw) = {PathPart("ReplaceFullPath", mw.path)} /\ TraefikStep(mw, path) = Segments[mw.path]
      BY <1>4, <2>2 DEF PathRewrite, TraefikStep
    <3> QED
      BY <1>2, <1>3, <3>1
  <2> QED
    BY <2>1, <2>2
<1>5. CASE mw.kind = "addPrefix" /\ prefix = <<>>
  <2>1. CASE mw.prefix = Absent
    BY <1>1, <1>5, <2>1 DEF PathRewrite, TraefikStep
  <2>2. CASE mw.prefix # Absent
    <3>1. PathRewrite(mw) = {PathPart("ReplacePrefixMatch", mw.prefix)} /\ TraefikStep(mw, path) = Segments[mw.prefix] \o path
      BY <1>5, <2>2 DEF PathRewrite, TraefikStep
    <3>2. Without(path, Len(prefix)) = path
      <4>1. Len(prefix) = 0
        BY <1>5
      <4> QED
        BY <4>1 DEF Without
    <3> DEFINE r == PathPart("ReplacePrefixMatch", mw.prefix)
    <3>3. RoutedPath(filters, prefix, path) = Replaced(r)
      BY <1>2, <3>1
    <3>4. r.type = "ReplacePrefixMatch" /\ r.value = mw.prefix
      BY <1>3
    <3> HIDE DEF r
    <3> QED
      BY <3>1, <3>2, <3>3, <3>4
  <2> QED
    BY <2>1, <2>2
<1>6. CASE /\ mw.kind = "stripPrefix" /\ StartsWith(path, prefix)
           /\ \E v : mw.prefixes = <<v>> /\ Segments[v] = prefix
  <2>1. PICK v : mw.prefixes = <<v>> /\ Segments[v] = prefix
    BY <1>6
  <2>2. mw.prefixes # <<>> /\ DOMAIN mw.prefixes = {1} /\ mw.prefixes[1] = v
    BY <2>1
  <2>3. PathRewrite(mw) = {PathPart("ReplacePrefixMatch", "")}
    BY <1>6, <2>2 DEF PathRewrite
  <2> DEFINE fits == {i \in DOMAIN mw.prefixes : StartsWith(path, Segments[mw.prefixes[i]])}
             first == CHOOSE i \in fits : \A j \in fits : i <= j
  <2>4. TraefikStep(mw, path) = IF fits = {} THEN path ELSE Without(path, Len(Segments[mw.prefixes[first]]))
    BY <1>6 DEF TraefikStep
  <2>5. fits = {1}
    BY <1>6, <2>1, <2>2
  <2>6. first = 1
    <3> HIDE DEF fits
    <3> QED
      BY <2>5
  <2> HIDE DEF fits, first
  <2>7. TraefikStep(mw, path) = Without(path, Len(prefix))
    BY <2>1, <2>2, <2>4, <2>5, <2>6
  <2>8. Segments[""] \o Without(path, Len(prefix)) = Without(path, Len(prefix))
    <3>1. Without(path, Len(prefix)) \in Seq(STRING)
      BY <1>6 DEF Without, StartsWith
    <3> QED
      BY <3>1, PathAssumption, ConcatEmptySeq
  <2> DEFINE r == PathPart("ReplacePrefixMatch", "")
  <2>9. RoutedPath(filters, prefix, path) = Replaced(r)
    BY <1>2, <2>3
  <2>10. r.type = "ReplacePrefixMatch" /\ r.value = ""
    BY <1>3
  <2> HIDE DEF r
  <2> QED
    BY <2>7, <2>8, <2>9, <2>10
<1> QED
  BY <1>4, <1>5, <1>6

(***************************************************************************)
(* A request that is routed is forwarded at the path that Traefik would    *)
(* forward it at, when one filter can express that.                        *)
(***************************************************************************)
LEMMA SamePathThere ==
  ASSUME NEW chain \in Seq(STRING), NEW middlewares, StringlyChain(chain, middlewares),
         NEW match, NEW prefix \in Seq(STRING), NEW path \in Seq(STRING),
         prefix = IF match.kind = "PathPrefix" THEN Segments[match.value] ELSE <<>>,
         match.kind = "PathPrefix" => StartsWith(path, prefix),
         Expressible(chain, middlewares, match)
  PROVE  RoutedPath(build_filters(chain, middlewares), prefix, path) = MeantPath(chain, middlewares, path)
<1> DEFINE Mw(i) == middlewares[chain[i]]
           n == Len(chain)
           filters == build_filters(chain, middlewares)
           changes == {i \in Known(chain, middlewares) : Mw(i).kind \in PathKinds}
<1>1. PICK f : IsRun(f, chain, middlewares, path, n) /\ MeantPath(chain, middlewares, path) = f[n]
  BY MeantPathIsRun
<1>2. n \in Nat /\ Known(chain, middlewares) \subseteq 1 .. n
  BY DEF Known
<1>3. ASSUME NEW i \in 1 .. n, i \notin changes
      PROVE  Quiet(chain, middlewares, i)
  BY <1>3, OtherKindsQuiet DEF Quiet, PathStep, Known
<1>4. CASE changes = {}
  <2>1. RewritesOf(filters) = {}
    <3>1. \A i \in Known(chain, middlewares) : PathRewrite(Mw(i)) = {}
      BY <1>4, OtherKindsQuiet
    <3> QED
      BY <3>1, OnlyRewrite
  <2>2. RoutedPath(filters, prefix, path) = path
    BY <2>1 DEF RoutedPath, RewritesOf
  <2>3. f[n] = path
    <3>1. n \in 0 .. n /\ AllQuiet(chain, middlewares, 0, n)
      BY <1>2, <1>3, <1>4 DEF AllQuiet
    <3> HIDE DEF n
    <3> QED
      BY <1>1, <1>2, <3>1, RunStarts
  <2> QED
    BY <1>1, <2>2, <2>3
<1>5. ASSUME NEW c \in changes
      PROVE  RoutedPath(filters, prefix, path) = f[n]
  <2>1. \A i \in changes : i = c
    BY DEF Expressible
  <2>2. RewritesOf(filters) = PathRewrite(Mw(c))
    <3>1. \A i \in Known(chain, middlewares) : PathRewrite(Mw(i)) # {} => i = c
      BY <2>1, OtherKindsQuiet
    <3> QED
      BY <3>1, OnlyRewrite
  <2>3. c \in 1 .. n /\ c - 1 \in 0 .. n /\ c \in 0 .. n /\ 0 \in 0 .. n /\ n \in 0 .. n
    BY <1>2
  <2>4. f[c - 1] = path
    <3> DEFINE before == c - 1
    <3>1. \A i \in 0 + 1 .. before : i \in 1 .. n /\ i # c
      BY <1>2, <2>3
    <3>2. AllQuiet(chain, middlewares, 0, before)
      BY <1>3, <2>1, <3>1 DEF AllQuiet
    <3>3. before \in 0 .. n
      BY <2>3
    <3> HIDE DEF n, before
    <3>4. f[before] = path
      BY <1>1, <1>2, <3>2, <3>3, RunStarts
    <3> QED
      BY <3>4 DEF before
  <2>5. f[n] = f[c]
    <3>1. \A i \in c + 1 .. n : i \in 1 .. n /\ i # c
      BY <1>2, <2>3
    <3>2. AllQuiet(chain, middlewares, c, n)
      BY <1>3, <2>1, <3>1 DEF AllQuiet
    <3>3. c <= n
      BY <2>3
    <3> HIDE DEF n
    <3> QED
      BY <1>1, <1>2, <2>3, <3>2, <3>3, RunStays
  <2>6. f[c] = TraefikStep(Mw(c), path)
    <3>1. f[c] = PathStep(chain, middlewares, c, f[c - 1])
      <4>1. \A i \in 0 .. n : f[i] = IF i = 0 THEN path ELSE PathStep(chain, middlewares, i, f[i - 1])
        BY <1>1 DEF IsRun
      <4>2. c # 0
        BY <2>3
      <4> QED
        BY <2>3, <4>1, <4>2
    <3>2. chain[c] \in DOMAIN middlewares
      BY DEF Known
    <3> QED
      BY <2>4, <3>1, <3>2 DEF PathStep
  <2>7. \/ Mw(c).kind = "replacePath"
        \/ Mw(c).kind = "addPrefix" /\ prefix = <<>>
        \/ /\ Mw(c).kind = "stripPrefix" /\ StartsWith(path, prefix)
           /\ \E v : Mw(c).prefixes = <<v>> /\ Segments[v] = prefix
    BY DEF Expressible
  <2>8. RoutedPath(filters, prefix, path) = TraefikStep(Mw(c), path)
    <3> HIDE DEF filters
    <3> QED
      BY <2>2, <2>7, SameStep
  <2> QED
    BY <2>5, <2>6, <2>8
<1> QED
  BY <1>1, <1>4, <1>5

-----------------------------------------------------------------------------
(* Routes.  A route carries the parsed rule of its router, which is usable,*)
(* and the filters of the middlewares of this router.                      *)

RouteParsed(k) ==
  /\ desired[k].of \in DOMAIN conf.http.routers
  /\ desired[k].parsed = parse(conf.http.routers[desired[k].of].rule)
  /\ is_usable(desired[k].parsed)
  /\ desired[k].filters = Filters(conf.http.routers[desired[k].of])

ParsedInv == \A k \in HttpRoutes : RouteParsed(k)

(***************************************************************************)
(* A step that writes no HTTPRoute.                                        *)
(***************************************************************************)
LEMMA OtherWriteParsed ==
  ASSUME ParsedInv, NEW objects, desired' = Inserted(objects), conf' = conf,
         \A o \in objects : o[1].kind # "HTTPRoute"
  PROVE  ParsedInv'
<1>1. HttpRoutes' = HttpRoutes /\ \A k \in HttpRoutes : desired'[k] = desired[k]
  BY InsertedElsewhere DEF HttpRoutes
<1> QED
  BY <1>1 DEF ParsedInv, RouteParsed, Filters

(***************************************************************************)
(* build_routes drops a router whose rule is not usable                    *)
(* (src/transform/route.rs:30-53).                                         *)
(***************************************************************************)
LEMMA BuildRouteParsed ==
  ASSUME ParsedInv, KnownHosts, NEW name \in Name, BuildRoute(name)
  PROVE  ParsedInv'
<1> DEFINE key == RouteKey(name)
           router == conf.http.routers[name]
           route == HttpRoute(name, router)
           policies == {<<p, [target |-> key]>> : p \in route.guards}
           objects == {<<key, route>>} \cup policies
<1>1. desired' = Inserted(objects) /\ conf' = conf /\ name \in DOMAIN conf.http.routers
  BY DEF BuildRoute, Takes, KnownHosts
<1>2. /\ route.of = name /\ route.parsed = parse(router.rule) /\ is_usable(route.parsed)
      /\ route.filters = Filters(router)
  BY DEF BuildRoute, HttpRoute, Unwanted, Parsed
<1>3. \A o \in policies : o[1].kind = "SecurityPolicy"
  BY DEF HttpRoute, PolicyOf, Key
<1>4. key.kind = "HTTPRoute"
  BY DEF RouteKey, Key
<1>5. <<key, route>> \in objects /\ \A o \in objects : o[1].kind = "HTTPRoute" => o = <<key, route>>
  BY <1>3
<1> HIDE DEF objects, route, policies
<1>6. desired'[key] = route
  BY <1>1, <1>4, <1>5, InsertedThere
<1>7. ASSUME NEW k \in HttpRoutes', k # key
      PROVE  k \in HttpRoutes /\ desired'[k] = desired[k]
  <2>1. k.kind = "HTTPRoute"
    BY <1>7 DEF HttpRoutes
  <2>2. \A o \in objects : o[1] # k
    BY <1>5, <1>7, <2>1
  <2> QED
    BY <1>1, <1>7, <2>2, InsertedElsewhere DEF HttpRoutes
<1>8. ASSUME NEW k \in HttpRoutes'
      PROVE  RouteParsed(k)'
  BY <1>1, <1>2, <1>6, <1>7, <1>8 DEF ParsedInv, RouteParsed, Filters
<1> QED
  BY <1>8 DEF ParsedInv

(***************************************************************************)
(* Every step of build_desired keeps a route with the rule of its router.  *)
(***************************************************************************)
LEMMA NextParsedInv == ParsedInv /\ ListenerInv /\ [Next]_vars => ParsedInv'
<1> SUFFICES ASSUME ParsedInv, ListenerInv, [Next]_vars
             PROVE  ParsedInv'
  OBVIOUS
<1>1. CASE UNCHANGED <<conf, desired>>
  BY <1>1 DEF ParsedInv, RouteParsed, HttpRoutes, Filters
<1>2. ASSUME NEW name \in Name, BuildBackend(name)
      PROVE  ParsedInv'
  <2> DEFINE service == Family.services[name]
             class == classify_entries(service.servers, cfg.backend_kind)
             objects == emit_backend(name, Infix, class, SkipsVerify(service), cfg).objects
  <2>1. desired' = Inserted(objects) /\ conf' = conf
    BY <1>2 DEF BuildBackend
  <2>2. \A o \in objects : o[1].kind # "HTTPRoute"
    BY ClassKnown, EmittedKinds DEF BackendKinds
  <2> QED
    BY <2>1, <2>2, OtherWriteParsed
<1>3. ASSUME NEW name \in Name, BuildL4Route(name)
      PROVE  ParsedInv'
  <2>1. PICK route : desired' = Inserted({<<L4Key(name), route>>})
    BY <1>3 DEF BuildL4Route
  <2>2. L4Key(name).kind # "HTTPRoute" /\ conf' = conf
    BY <1>3 DEF L4Key, Key, BuildL4Route
  <2> QED
    BY <2>1, <2>2, OtherWriteParsed
<1>4. CASE BuildListenerSet
  <2>1. PICK content : desired' = Inserted({<<ListenerSetKey, content>>})
    BY <1>4 DEF BuildListenerSet
  <2>2. ListenerSetKey.kind # "HTTPRoute" /\ conf' = conf
    BY <1>4 DEF ListenerSetKey, Key, BuildListenerSet
  <2> QED
    BY <2>1, <2>2, OtherWriteParsed
<1>5. KnownHosts
  BY DEF ListenerInv
<1> QED
  BY <1>1, <1>2, <1>3, <1>4, <1>5, BuildRouteParsed
     DEF Next, vars, NextStage, SkipRoute, SkipL4Route, Returned

(***************************************************************************)
(* Rules are dropped or mean the same, for every rule that a response may  *)
(* hold, however long: no router is misrouted by its rule.                 *)
(***************************************************************************)
THEOREM RulesMeanTheSame == TranslateSpec => []RuleExact
<1>1. Init => ParsedInv
  <2>1. DOMAIN <<>> = {}
    OBVIOUS
  <2> QED
    BY <2>1 DEF Init, ParsedInv, HttpRoutes
<1>2. ParsedInv /\ ListenerInv => RuleExact
  <2> SUFFICES ASSUME ParsedInv, ListenerInv, NEW k \in Routes, k.kind = "HTTPRoute",
                      NEW rule, rule = conf.http.routers[desired[k].of].rule,
                      AtMostOne(rule, {"Host"}), AtMostOne(rule, PathIdent), OnePath(rule),
                      NEW request \in Request
               PROVE  Routed(desired[k].parsed, request) <=> Meant(rule, request)
    BY DEF RuleExact
  <2>1. RouteParsed(k)
    BY DEF ParsedInv, HttpRoutes, Routes
  <2>2. rule \in Seq(Token)
    BY <2>1, RuleAssumption DEF ListenerInv, KnownHosts, RouteParsed
  <2> QED
    BY <2>1, <2>2, UsableIsExact DEF RouteParsed
<1> QED
  BY <1>1, <1>2, InitListenerInv, InitRefInv, NextListenerInv, NextRefInv, NextParsedInv, PTL
     DEF TranslateSpec

(***************************************************************************)
(* A response that MiddlewareAssumption admits has chains of strings.      *)
(***************************************************************************)
LEMMA ChainsHoldStrings ==
  ASSUME NEW name \in DOMAIN conf.http.routers, conf \in TraefikDynamicConfig
  PROVE  LET chain == conf.http.routers[name].middlewares
             middlewares == conf.http.middlewares
         IN  /\ chain \in Seq(STRING)
             /\ StringlyChain(chain, middlewares)
             /\ Paired(chain, middlewares)
<1> DEFINE chain == conf.http.routers[name].middlewares
           middlewares == conf.http.middlewares
<1>1. chain \in Seq(STRING)
  BY MiddlewareAssumption
<1>2. \A m \in DOMAIN middlewares :
        /\ middlewares[m].kind = "addPrefix" => middlewares[m].prefix \in STRING \cup {Absent}
        /\ middlewares[m].kind = "replacePath" => middlewares[m].path \in STRING \cup {Absent}
        /\ middlewares[m].kind = "headers" =>
             \A side \in {"request", "response"} : middlewares[m][side] \subseteq STRING \X STRING
  BY MiddlewareAssumption
<1>3. \A i \in Known(chain, middlewares) : chain[i] \in DOMAIN middlewares
  BY DEF Known
<1> HIDE DEF chain, middlewares
<1>4. StringlyChain(chain, middlewares)
  BY <1>2, <1>3 DEF StringlyChain, Stringly
<1>5. Paired(chain, middlewares)
  BY <1>2, <1>3 DEF Paired, Carriers
<1> QED
  BY <1>1, <1>4, <1>5 DEF chain, middlewares

(***************************************************************************)
(* The filters of a route forward a request as its router means it.        *)
(***************************************************************************)
LEMMA RouteForwards ==
  ASSUME ListenerInv, NEW k, RouteParsed(k),
         NEW router, router = conf.http.routers[desired[k].of]
  PROVE  /\ PathExpressible(router, desired[k].parsed) => SamePath(k, router)
         /\ HeadersDiffer(router, "request") /\ HeadersDiffer(router, "response") =>
              SameHeaders(desired[k].filters, router)
<1> DEFINE chain == router.middlewares
           middlewares == conf.http.middlewares
           filters == desired[k].filters
           match == desired[k].parsed.path
           prefix == MatchedPrefix(desired[k].parsed)
<1>1. conf \in TraefikDynamicConfig /\ desired[k].of \in DOMAIN conf.http.routers
  BY DEF ListenerInv, KnownHosts, RouteParsed
<1>2. chain \in Seq(STRING) /\ StringlyChain(chain, middlewares) /\ Paired(chain, middlewares)
  BY <1>1, ChainsHoldStrings
<1>3. filters = build_filters(chain, middlewares)
  BY DEF RouteParsed, Filters
<1>4. prefix = IF match.kind = "PathPrefix" THEN Segments[match.value] ELSE <<>>
  BY DEF MatchedPrefix
<1>5. match = parse(conf.http.routers[desired[k].of].rule).path
  BY DEF RouteParsed
<1>6. match.kind = "PathPrefix" =>
        /\ prefix \in Seq(STRING)
        /\ \A request \in Request :
             Fits("PathPrefix", request.path, match.value) => StartsWith(Segments[request.path], prefix)
  BY <1>1, <1>4, <1>5, PathAssumption
<1>7. prefix \in Seq(STRING)
  <2>1. <<>> \in Seq(STRING)
    OBVIOUS
  <2> HIDE DEF prefix, match
  <2> QED
    BY <1>4, <1>6, <2>1
<1>8. /\ DOMAIN Chain(router) = Known(chain, middlewares)
      /\ \A i \in Known(chain, middlewares) : Chain(router)[i] = middlewares[chain[i]]
  BY DEF Chain
<1>9. ASSUME PathExpressible(router, desired[k].parsed), NEW request \in Request,
             Routed(desired[k].parsed, request)
      PROVE  RoutedPath(filters, prefix, Segments[request.path])
               = MeantPath(chain, middlewares, Segments[request.path])
  <2> DEFINE path == Segments[request.path]
  <2>1. path \in Seq(STRING)
    BY PathAssumption
  <2>2. match.kind = "PathPrefix" => StartsWith(path, prefix)
    <3> SUFFICES ASSUME match.kind = "PathPrefix"
                 PROVE  StartsWith(path, prefix)
      OBVIOUS
    <3>1. match # NoPath
      <4>1. NoPath.kind = "None"
        BY DEF NoPath
      <4> HIDE DEF match
      <4> QED
        BY <4>1
    <3>2. Fits("PathPrefix", request.path, match.value)
      BY <1>9, <3>1 DEF Routed
    <3> QED
      BY <1>6, <3>2
  <2>3. Expressible(chain, middlewares, match)
    <3> DEFINE changes == {i \in Known(chain, middlewares) : middlewares[chain[i]].kind \in PathKinds}
    <3>1. /\ \A i, j \in changes : i = j
          /\ \A i \in changes :
               \/ Chain(router)[i].kind = "replacePath"
               \/ Chain(router)[i].kind = "addPrefix" /\ prefix = <<>>
               \/ Chain(router)[i].kind = "stripPrefix" /\ match.kind = "PathPrefix"
                    /\ Chain(router)[i].prefixes = <<match.value>>
      <4>1. {i \in DOMAIN Chain(router) : Chain(router)[i].kind \in PathKinds} = changes
        <5> HIDE DEF chain, middlewares
        <5> QED
          BY <1>8
      <4> HIDE DEF changes
      <4> QED
        BY <1>9, <4>1 DEF PathExpressible
    <3>2. \A i \in changes : Chain(router)[i] = middlewares[chain[i]]
      BY <1>8
    <3> HIDE DEF chain, middlewares
    <3> DEFINE Suits(m) == \/ m.kind = "replacePath"
                           \/ m.kind = "addPrefix" /\ prefix = <<>>
                           \/ m.kind = "stripPrefix" /\ match.kind = "PathPrefix"
                                /\ m.prefixes = <<match.value>>
    <3>3. \A i \in changes : Suits(Chain(router)[i])
      BY <3>1
    <3>4. \A i \in changes : Suits(middlewares[chain[i]])
      <4> HIDE DEF Suits, changes
      <4> QED
        BY <3>2, <3>3
    <3> QED
      BY <1>4, <3>1, <3>4 DEF Expressible
  <2> HIDE DEF path, chain, middlewares, match, prefix, filters
  <2>4. RoutedPath(build_filters(chain, middlewares), prefix, path) = MeantPath(chain, middlewares, path)
    BY <1>2, <1>4, <1>7, <2>1, <2>2, <2>3, SamePathThere
  <2> QED
    BY <1>3, <2>4 DEF path
<1>10. ASSUME NEW side, HeadersDiffer(router, side)
       PROVE  Differ(chain, middlewares, side)
  <2>1. {i \in DOMAIN Chain(router) : Chain(router)[i].kind = "headers"} = Carriers(chain, middlewares)
    <3> HIDE DEF chain, middlewares
    <3> QED
      BY <1>8 DEF Carriers
  <2> DEFINE Agree(i, j, here, there) ==
               \A g \in here, h \in there :
                 g[1] = h[1] => IF i = j THEN g = h ELSE side = "request" /\ g[1] = "Host"
             carriers == {i \in DOMAIN Chain(router) : Chain(router)[i].kind = "headers"}
  <2>2. \A i, j \in carriers : Agree(i, j, Chain(router)[i][side], Chain(router)[j][side])
    BY <1>10 DEF HeadersDiffer
  <2>3. \A i \in Carriers(chain, middlewares) : Chain(router)[i] = middlewares[chain[i]]
    BY <1>8 DEF Carriers
  <2>4. carriers = Carriers(chain, middlewares)
    BY <2>1
  <2> HIDE DEF chain, middlewares, Agree, carriers
  <2>5. \A i, j \in Carriers(chain, middlewares) :
          Agree(i, j, middlewares[chain[i]][side], middlewares[chain[j]][side])
    BY <2>2, <2>3, <2>4
  <2> QED
    BY <2>5 DEF Differ, Agree
<1>11. ASSUME HeadersDiffer(router, "request"), HeadersDiffer(router, "response")
       PROVE  SameHeaders(filters, router)
  <2>1. Differ(chain, middlewares, "request") /\ Differ(chain, middlewares, "response")
    BY <1>10, <1>11
  <2> DEFINE request == MeantHeaders(chain, middlewares, "request")
  <2>2. /\ RoutedHeaders(build_filters(chain, middlewares), "RequestHeaderModifier")
              = request \ HostHeaders(request)
        /\ RoutedHeaders(build_filters(chain, middlewares), "ResponseHeaderModifier")
              = MeantHeaders(chain, middlewares, "response")
    BY <1>2, <2>1, SameModifiers
  <2>3. RoutedHosts(build_filters(chain, middlewares)) = {h[2] : h \in HostHeaders(request)}
    BY <1>2, <2>1, SameHosts
  <2> QED
    BY <1>3, <2>2, <2>3 DEF SameHeaders
<1>12. PathExpressible(router, desired[k].parsed) => SamePath(k, router)
  BY <1>9 DEF SamePath
<1> QED
  BY <1>11, <1>12

(***************************************************************************)
(* The filters that build_filters merges forward a request as Traefik's    *)
(* middlewares do, for chains of any length: ForwardedAsMeant.             *)
(***************************************************************************)
THEOREM FiltersMeanTheSame == TranslateSpec => []ForwardedAsMeant
<1>1. Init => ParsedInv
  <2>1. DOMAIN <<>> = {}
    OBVIOUS
  <2> QED
    BY <2>1 DEF Init, ParsedInv, HttpRoutes
<1>2. ParsedInv /\ ListenerInv => ForwardedAsMeant
  <2> SUFFICES ASSUME ParsedInv, ListenerInv, NEW k \in HttpRoutes
               PROVE  LET router == conf.http.routers[desired[k].of]
                          filters == desired[k].filters
                      IN  /\ OfType(filters, "RequestRedirect")
                               = {<<i, Redirect(Chain(router)[i].scheme)>> : i \in Redirects(router)}
                          /\ \A p, q \in filters :
                               p[2].type = q[2].type => p = q \/ {p[1], q[1]} \subseteq Redirects(router)
                          /\ desired[k].backend # None =>
                               /\ PathExpressible(router, desired[k].parsed) => SamePath(k, router)
                               /\ HeadersDiffer(router, "request") /\ HeadersDiffer(router, "response") =>
                                    SameHeaders(filters, router)
    BY DEF ForwardedAsMeant
  <2>1. RouteParsed(k)
    BY DEF ParsedInv
  <2> DEFINE router == conf.http.routers[desired[k].of]
             middlewares == conf.http.middlewares
             F == Raw(router.middlewares, middlewares)
             redirects == {<<i, Redirect(Chain(router)[i].scheme)>> : i \in Redirects(router)}
  <2>2. desired[k].filters = merge_filters(F)
    BY <2>1 DEF RouteParsed, Filters, build_filters, Raw
  <2>3. OfType(F, "RequestRedirect") = redirects
    <3>1. \A i : i \in Redirects(router) <=> i \in Redirecting(router.middlewares, middlewares)
      BY DEF Redirects, Redirecting, Chain
    <3>2. \A i \in Redirects(router) : Chain(router)[i] = middlewares[router.middlewares[i]]
      BY DEF Redirects, Chain
    <3>3. redirects = RedirectsOf(router.middlewares, middlewares)
      BY <3>1, <3>2 DEF RedirectsOf
    <3> QED
      BY <3>3, RawRedirects
  <2>4. OfType(desired[k].filters, "RequestRedirect") = redirects
    BY <2>2, <2>3, RedirectsPassedOn
  <2>5. ASSUME NEW p \in desired[k].filters, NEW q \in desired[k].filters, p[2].type = q[2].type
        PROVE  p = q \/ {p[1], q[1]} \subseteq Redirects(router)
    <3>1. CASE p[2].type = "RequestRedirect"
      <4>1. p \in redirects /\ q \in redirects
        BY <2>4, <2>5, <3>1 DEF OfType
      <4>2. \A r \in redirects : r[1] \in Redirects(router)
        OBVIOUS
      <4> HIDE DEF redirects
      <4> QED
        BY <4>1, <4>2
    <3>2. CASE p[2].type # "RequestRedirect"
      BY <2>2, <2>5, <3>2, MergedOnce
    <3> QED
      BY <3>1, <3>2
  <2> QED
    BY <2>1, <2>4, <2>5, RouteForwards
<1> QED
  BY <1>1, <1>2, InitListenerInv, InitRefInv, NextListenerInv, NextRefInv, NextParsedInv, PTL
     DEF TranslateSpec
=============================================================================
