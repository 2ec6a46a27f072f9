-------------------------------- MODULE Shim --------------------------------
(***************************************************************************)
(* The badger ext-authz shim between Envoy and pangolin, with the tabs of  *)
(* one browser in front of it.  Envoy sends every request to a protected   *)
(* route to the shim first, under a prefix, and lets it through only when  *)
(* the shim answers 200.  The shim keeps nothing between requests: what it *)
(* does with one depends on its path, on the session cookie it carries, on *)
(* the one-time token in its query, and on what pangolin answers.  The     *)
(* tabs share the cookie jar, so the handlers of several requests          *)
(* interleave over it.                                                     *)
(*                                                                         *)
(* A handler awaits pangolin once or twice (exchange-session and           *)
(* verify-session), and pangolin may have acted on a call whose answer is  *)
(* lost.  Pangolin, its login portal, Envoy and the browser are external.  *)
(***************************************************************************)
EXTENDS Naturals, Sequences

CONSTANTS
  Tab,       \* tabs of the browser; each has at most one request under way
  Session,   \* values of the resource session cookie
  Token,     \* one-time session-request tokens
  Page,      \* pages of the resource, a path being the sequence of its segments
  Public,    \* pages that pangolin's rules let through without a session
  Prefix,    \* SHIM_PATH_PREFIX, and the controller's CONFIG_EXT_AUTHZ_PATH
  None,
  Faults     \* of this instance: "outage", "malformed", "abandon", "revoke", "expire"

ASSUME ShimAssumption ==
  /\ None \notin Session \cup Token \cup Page
  /\ Page \subseteq Seq(STRING) /\ Public \subseteq Page
  /\ Prefix \in Seq(STRING)

VARIABLES
  live,      \* sessions that pangolin accepts
  valid,     \* tokens that pangolin would exchange
  jar,       \* the session cookie of the browser, or None
  calm,      \* no fault happens any more
  at,        \* where the tab is: in the browser, at an await of its handler, ...
  url,       \* the first value of the session-request parameter in its URL, or None
  page,      \* the path in its URL
  sent,      \* the session that its request carries, or None
  want,      \* history: the page that the user went to
  begun      \* history: whether the request was to be let through when it came in

vars == <<live, valid, jar, calm, at, url, page, sent, want, begun>>

TypeOK ==
  /\ live \subseteq Session
  /\ valid \subseteq Token
  /\ jar \in Session \cup {None}
  /\ calm \in BOOLEAN
  /\ at \in [Tab -> {"asking", "exchange", "verify", "portal", "served", "refused"}]
  /\ url \in [Tab -> Token \cup {None}]
  /\ page \in [Tab -> Page] /\ want \in [Tab -> Page]
  /\ sent \in [Tab -> Session \cup {None}]
  /\ begun \in [Tab -> BOOLEAN]

Init ==
  /\ live = {} /\ valid = {}
  /\ jar = None
  /\ calm = FALSE
  /\ at = [t \in Tab |-> "asking"]
  /\ url = [t \in Tab |-> None]
  /\ page \in [Tab -> Page] /\ want = page
  /\ sent = [t \in Tab |-> None]
  /\ begun = [t \in Tab |-> FALSE]

Fault(f) == f \in Faults /\ ~calm

Moves(t, place) == at' = [at EXCEPT ![t] = place]

\* The handler answers, or is dropped, and its request is over.
Ends(t, place) ==
  /\ Moves(t, place)
  /\ sent' = [sent EXCEPT ![t] = None]
  /\ begun' = [begun EXCEPT ![t] = place = "served" /\ @]

-----------------------------------------------------------------------------
(* The path of a request.                                                  *)

StartsWith(path, prefix) == Len(prefix) <= Len(path) /\ SubSeq(path, 1, Len(prefix)) = prefix

\* Mutant: nothing is taken away.
StripNothing(prefix, path) == path

\* A path without segments is "/", and so is a prefix that is empty or "/".
\* The slash that a prefix may end with, and a query, are below the segments.
strip_path_prefix(prefix, path) ==
  IF StartsWith(path, prefix) THEN SubSeq(path, Len(prefix) + 1, Len(path)) ELSE None

\* What Envoy sends to the shim.
CheckPath(t) == Prefix \o page[t]

\* The original path; a request without the prefix is taken as it is.
OriginalPath(t) ==
  IF strip_path_prefix(Prefix, CheckPath(t)) = None THEN CheckPath(t)
    ELSE strip_path_prefix(Prefix, CheckPath(t))

-----------------------------------------------------------------------------
(* The handler `check', one action per await.                              *)

\* The request arrives: a token in its query is exchanged first.
Check(t) ==
  /\ at[t] = "asking"
  /\ sent' = [sent EXCEPT ![t] = jar]
  /\ begun' = [begun EXCEPT ![t] = jar \in live \/ page[t] \in Public]
  /\ Moves(t, IF url[t] # None THEN "exchange" ELSE "verify")
  /\ UNCHANGED <<live, valid, jar, calm, url, page, want>>

\* Sessions that neither the jar nor a request carries.  Pangolin may remember
\* them, but nothing can show it, so a new session takes one of their values,
\* which one does not matter.
NewSessions == Session \ ({jar} \cup {sent[t] : t \in Tab})

\* Pangolin takes the token and opens a session.  The answer sets the cookie
\* and sends the browser to the URL without the token.
ExchangeAccepted(t) ==
  /\ at[t] = "exchange"
  /\ url[t] \in valid
  /\ valid' = valid \ {url[t]}
  /\ NewSessions # {}
  /\ jar' = CHOOSE s \in NewSessions : TRUE
  /\ live' = (live \ NewSessions) \cup {jar'}
  /\ url' = [url EXCEPT ![t] = None]
  /\ page' = [page EXCEPT ![t] = OriginalPath(t)]
  /\ Ends(t, "asking")
  /\ UNCHANGED <<calm, want>>

\* Mutant: a rejected token is answered at once.
RejectedTokenRefused(t) ==
  /\ at[t] = "exchange"
  /\ url[t] \notin valid
  /\ Ends(t, "refused")
  /\ UNCHANGED <<live, valid, jar, calm, url, page, want>>

\* Mutant: a rejected token is presented again.
RejectedTokenRetried(t) ==
  /\ at[t] = "exchange"
  /\ url[t] \notin valid
  /\ UNCHANGED vars

\* A token that was used or has expired: go on with a normal verification.
ExchangeRejected(t) ==
  /\ at[t] = "exchange"
  /\ url[t] \notin valid
  /\ Moves(t, "verify")
  /\ UNCHANGED <<live, valid, jar, calm, url, sent, begun, page, want>>

\* No answer, or one that is no JSON, from a pangolin that may have taken the
\* token.  The handler answers 503.
ExchangeFails(t) ==
  /\ at[t] = "exchange"
  /\ Fault("outage")
  /\ valid' \in {valid, valid \ {url[t]}}
  /\ Ends(t, "refused")
  /\ UNCHANGED <<live, jar, calm, url, page, want>>

\* Mutant: an answer without a cookie is taken for a login.
EmptyCookieAccepted(t) ==
  /\ at[t] = "exchange"
  /\ Fault("malformed")
  /\ jar' = ""
  /\ Ends(t, "asking")
  /\ UNCHANGED <<live, valid, calm, url, page, want>>

\* An error status without JSON, or a success whose cookie is missing or is no
\* header value, the token taken or not: the handler goes on with a
\* verification, or answers 503.
ExchangeMalformed(t) ==
  /\ at[t] = "exchange"
  /\ Fault("malformed")
  /\ valid' \in {valid, valid \ {url[t]}}
  /\ \/ Moves(t, "verify") /\ UNCHANGED <<sent, begun>>
     \/ Ends(t, "refused")
  /\ UNCHANGED <<live, jar, calm, url, page, want>>

\* What pangolin may answer to verify-session, in any HTTP status.
Answers(t) ==
  IF sent[t] \in live \/ OriginalPath(t) \in Public
    THEN {[redirect |-> FALSE, challenge |-> FALSE, valid |-> TRUE]}
    ELSE {[redirect |-> TRUE, challenge |-> FALSE, valid |-> FALSE]}
           \cup IF Fault("malformed")
                  THEN {[redirect |-> FALSE, challenge |-> c, valid |-> FALSE] : c \in BOOLEAN}
                  ELSE {}

\* 302, 401 or 200; Envoy serves the request on a 200 only.
Outcome(answer) ==
  CASE answer.redirect -> "portal"
    [] ~answer.redirect /\ answer.challenge -> "refused"
    [] ~answer.redirect /\ ~answer.challenge /\ answer.valid -> "served"
    [] OTHER -> "refused"

\* The portal is told to return to the original URL.
Verify(t) ==
  /\ at[t] = "verify"
  /\ \E answer \in Answers(t) :
       /\ Ends(t, Outcome(answer))
       /\ page' = IF Outcome(answer) = "portal" THEN [page EXCEPT ![t] = OriginalPath(t)] ELSE page
  /\ UNCHANGED <<live, valid, jar, calm, url, want>>

\* Mutant: without pangolin the request is let through.
VerifyFailsOpen(t) ==
  /\ at[t] = "verify"
  /\ Fault("outage")
  /\ Ends(t, "served")
  /\ UNCHANGED <<live, valid, jar, calm, url, page, want>>

\* No answer, or a success that is no JSON: 503, which Envoy takes as a denial.
VerifyFails(t) ==
  /\ at[t] = "verify"
  /\ Fault("outage")
  /\ Ends(t, "refused")
  /\ UNCHANGED <<live, valid, jar, calm, url, page, want>>

-----------------------------------------------------------------------------
(* External: the browser and its user, the portal, pangolin's own clock.   *)

\* The client or Envoy gives up on the handler, which is dropped at its await.
\* Pangolin may have exchanged the token already.
Abandon(t) ==
  /\ at[t] \in {"exchange", "verify"}
  /\ Fault("abandon")
  /\ valid' \in {valid, IF at[t] = "exchange" THEN valid \ {url[t]} ELSE valid}
  /\ Ends(t, "refused")
  /\ UNCHANGED <<live, jar, calm, url, page, want>>

\* The user logs in, and the portal puts a new token into the URL it was given,
\* in place of the one that was there.
Portal(t) ==
  /\ at[t] = "portal"
  /\ Token \ {url[u] : u \in Tab} # {}
  /\ url' = [url EXCEPT ![t] = CHOOSE tok \in Token \ {url[u] : u \in Tab} : TRUE]
  /\ valid' = valid \cup {url'[t]}
  /\ Moves(t, "asking")
  /\ UNCHANGED <<live, jar, calm, sent, begun, page, want>>

\* The user reloads the page.
Reload(t) ==
  /\ at[t] \in {"refused", "served"}
  /\ Moves(t, "asking")
  /\ UNCHANGED <<live, valid, jar, calm, url, sent, begun, page, want>>

\* The user goes to a page of the resource.
Visit(t) ==
  /\ at[t] \in {"refused", "served"}
  /\ \E p \in Page : page' = [page EXCEPT ![t] = p] /\ want' = [want EXCEPT ![t] = p]
  /\ url' = [url EXCEPT ![t] = None]
  /\ Moves(t, "asking")
  /\ UNCHANGED <<live, valid, jar, calm, sent, begun>>

Revoke ==
  /\ Fault("revoke")
  /\ \E s \in live : live' = live \ {s}
  /\ UNCHANGED <<valid, jar, calm, at, url, sent, begun, page, want>>

Expire ==
  /\ Fault("expire")
  /\ \E tok \in valid : valid' = valid \ {tok}
  /\ UNCHANGED <<live, jar, calm, at, url, sent, begun, page, want>>

CalmDown ==
  /\ ~calm
  /\ calm' = TRUE
  /\ UNCHANGED <<live, valid, jar, at, url, sent, begun, page, want>>

-----------------------------------------------------------------------------
Handler(t) ==
  \/ Check(t)
  \/ ExchangeAccepted(t) \/ ExchangeRejected(t) \/ ExchangeFails(t) \/ ExchangeMalformed(t)
  \/ Verify(t) \/ VerifyFails(t)

\* Progress of a tab: its handler, and a user who wants the page.
Advance(t) == Handler(t) \/ Portal(t) \/ (at[t] = "refused" /\ Reload(t))

Next ==
  \/ \E t \in Tab : Handler(t) \/ Abandon(t) \/ Portal(t) \/ Reload(t) \/ Visit(t)
  \/ Revoke \/ Expire \/ CalmDown

(***************************************************************************)
(* Both calls to pangolin have a timeout, so every handler ends; the user  *)
(* follows redirects, logs in and reloads.                                 *)
(***************************************************************************)
Fairness == \A t \in Tab : WF_vars(Advance(t))

ShimSpec == Init /\ [][Next]_vars /\ Fairness

-----------------------------------------------------------------------------
(***************************************************************************)
(* A request is served only when it carries a session that was live when   *)
(* the request came in, or its page needs none: an outage, a malformed or  *)
(* a lost answer and a rejected token never let it through, no verdict     *)
(* outlives the session it was given for, and none is given for another    *)
(* page (src/shim.rs:236-246, 302-364, the module comment's "an outage     *)
(* fails closed").                                                         *)
(***************************************************************************)
ServedWasAuthorized ==
  \A t \in Tab : at[t] = "served" => begun[t]

(***************************************************************************)
(* The user is served the page they went to: the prefix that Envoy puts    *)
(* before a path is gone from the URL that the portal returns to and from  *)
(* the one that the exchange of a token leads to, and nothing else is,     *)
(* also in a page that has the prefix in its own path                      *)
(* (src/shim.rs:281-284, 313, 447-467).                                    *)
(***************************************************************************)
PageKept ==
  \A t \in Tab : page[t] = want[t]

(***************************************************************************)
(* No answer of pangolin, and nothing that other tabs do, leaves a tab     *)
(* waiting for ever: each await of the handler leads somewhere             *)
(* (src/shim.rs:233-364).                                                  *)
(***************************************************************************)
TabsGoOn ==
  \A t \in Tab : []<>(at[t] = "served") \/ []<><<Advance(t)>>_vars

(***************************************************************************)
(* Once faults end, every tab gets its page again and again: lost answers  *)
(* and abandoned requests may have spent its token, and another tab may    *)
(* have replaced the cookie, but a rejected token leads back to the portal *)
(* (src/shim.rs:273-336).                                                  *)
(***************************************************************************)
LoginCompletes == \A t \in Tab : calm ~> at[t] = "served"
=============================================================================
