-------------------------------- MODULE Rule --------------------------------
(***************************************************************************)
(* The rule of a Traefik router, as the parser of src/transform/rule.rs    *)
(* reads it and as Traefik means it.  A rule is the sequence of its        *)
(* tokens: a predicate with its arguments, one of the operators && || !,   *)
(* or anything else ("junk": a parenthesis, a name without arguments).     *)
(***************************************************************************)
EXTENDS Naturals, Sequences, Functions

CONSTANTS
  NormalizePath(_),    \* normalize_path: a path that starts with "/"
  Fits(_, _, _)        \* Fits(kind, path, value): a path matcher takes the path

Operator(tok) == [tok |-> tok, ident |-> "", args |-> <<>>]

Predicate(ident, args) == [tok |-> "predicate", ident |-> ident, args |-> args]

Token ==
  [tok : {"predicate", "&&", "||", "!", "junk"}, ident : STRING, args : Seq(STRING)]

NoPath == [kind |-> "None", value |-> ""]

PathIdent == {"Path", "PathPrefix", "PathRegexp"}

Has(rule, tok) == \E i \in DOMAIN rule : rule[i].tok = tok

\* The parser stops at the first token that starts no predicate.
Reached(rule, i) ==
  \A j \in 1 .. i : rule[j].tok \in {"predicate", "&&", "||"}

\* The predicates that the parser gets to, in the order of the rule.
Walked(rule) == {i \in DOMAIN rule : rule[i].tok = "predicate" /\ Reached(rule, i)}

\* Only the first argument of a path predicate is read, and a later path
\* predicate replaces an earlier one.  A path is put under "/".
PathPredicates(rule) ==
  {i \in Walked(rule) : rule[i].ident \in PathIdent /\ rule[i].args # <<>>}

PathOf(rule) ==
  IF PathPredicates(rule) = {}
    THEN NoPath
    ELSE LET i == CHOOSE i \in PathPredicates(rule) : \A j \in PathPredicates(rule) : j <= i
             arg == rule[i].args[1]
         IN  [kind |-> rule[i].ident,
              value |-> IF rule[i].ident = "PathRegexp" THEN arg ELSE NormalizePath(arg)]

parse(rule) ==
  [hosts |-> UNION {Range(rule[i].args) : i \in {j \in Walked(rule) : rule[j].ident = "Host"}},
   path |-> PathOf(rule),
   host_regexp |-> \E i \in Walked(rule) : rule[i].ident = "HostRegexp",
   unsupported |-> \/ \E i \in Walked(rule) : rule[i].ident \notin PathIdent \cup {"Host", "HostRegexp"}
                   \/ \E i \in DOMAIN rule : ~Reached(rule, i),
   has_disjunction |-> Has(rule, "||"),
   has_negation |-> Has(rule, "!")]

\* Mutant: a disjunction is overlooked.
UsableWithDisjunction(parsed) ==
  ~parsed.has_negation /\ ~parsed.host_regexp /\ ~parsed.unsupported /\ parsed.hosts # {}

is_usable(parsed) ==
  /\ ~parsed.has_disjunction /\ ~parsed.has_negation
  /\ ~parsed.host_regexp /\ ~parsed.unsupported
  /\ parsed.hosts # {}

-----------------------------------------------------------------------------
(* What requests are matched: a request has a host and a path.             *)

\* By the HTTPRoute that is built from the parsed rule.
Routed(parsed, request) ==
  /\ request.host \in parsed.hosts
  /\ parsed.path # NoPath => Fits(parsed.path.kind, request.path, parsed.path.value)

\* By Traefik.  && binds tighter than ||, and ! tightest; a rule without
\* parentheses is a disjunction of the stretches between its || tokens.
Literal(rule, i, request) ==
  LET holds ==
        CASE rule[i].ident = "Host" -> request.host \in Range(rule[i].args)
          [] rule[i].ident \in PathIdent ->
               \E arg \in Range(rule[i].args) :
                 Fits(rule[i].ident, request.path,
                      IF rule[i].ident = "PathRegexp" THEN arg ELSE NormalizePath(arg))
          [] OTHER -> request.other
  IN  holds # (i > 1 /\ rule[i - 1].tok = "!")

Stretch(rule, i, j) == \A n \in i .. j : rule[n].tok # "||"

Meant(rule, request) ==
  \E i \in DOMAIN rule :
    /\ rule[i].tok = "predicate"
    /\ \A j \in DOMAIN rule :
         rule[j].tok = "predicate" /\ Stretch(rule, IF i < j THEN i ELSE j, IF i < j THEN j ELSE i)
           => Literal(rule, j, request)
=============================================================================
