----------------------------- MODULE ShimProofs -----------------------------
(***************************************************************************)
(* What the shim guarantees for any number of tabs, sessions and tokens,   *)
(* any pages and any prefix, under every fault.                            *)
(***************************************************************************)
EXTENDS Shim, SequenceTheorems, TLAPS

(***************************************************************************)
(* What is put before a path is what is taken away, also when the path has *)
(* it itself (src/shim.rs:449-468).                                        *)
(***************************************************************************)
LEMMA StripUndoesPrefix ==
  ASSUME NEW prefix \in Seq(STRING), NEW path \in Seq(STRING)
  PROVE  strip_path_prefix(prefix, prefix \o path) = path
<1> DEFINE full == prefix \o path
<1>1. full \in Seq(STRING) /\ Len(full) = Len(prefix) + Len(path)
      /\ Len(prefix) \in Nat /\ Len(path) \in Nat
  BY ConcatProperties
<1>2. \A i \in 1 .. Len(prefix) : full[i] = prefix[i]
  BY ConcatProperties
<1>3. \A i \in 1 .. Len(path) : full[Len(prefix) + i] = path[i]
  BY <1>1, ConcatProperties
<1> HIDE DEF full
<1>4. SubSeq(full, 1, Len(prefix)) = prefix
  <2> DEFINE head == SubSeq(full, 1, Len(prefix))
  <2>1. /\ head \in Seq(STRING) /\ Len(head) = Len(prefix)
        /\ \A i \in 1 .. Len(prefix) : head[i] = full[i]
    BY <1>1, SubSeqProperties
  <2> HIDE DEF head
  <2>2. head = prefix
    BY <1>2, <2>1, SeqEqual
  <2> QED
    BY <2>2 DEF head
<1>5. SubSeq(full, Len(prefix) + 1, Len(full)) = path
  <2> DEFINE rest == SubSeq(full, Len(prefix) + 1, Len(full))
  <2>1. /\ rest \in Seq(STRING) /\ Len(rest) = Len(path)
        /\ \A i \in 1 .. Len(path) : rest[i] = full[Len(prefix) + i]
    BY <1>1, SubSeqProperties
  <2> HIDE DEF rest
  <2>2. rest = path
    BY <1>3, <2>1, SeqEqual
  <2> QED
    BY <2>2 DEF rest
<1>6. StartsWith(full, prefix)
  BY <1>1, <1>4 DEF StartsWith
<1> QED
  BY <1>5, <1>6 DEF strip_path_prefix, full

(***************************************************************************)
(* The handler works on the page that the browser asked for.               *)
(***************************************************************************)
LEMMA OriginalPathIsPage ==
  ASSUME TypeOK, NEW t \in Tab
  PROVE  OriginalPath(t) = page[t]
<1>1. page[t] \in Page /\ page[t] \in Seq(STRING) /\ page[t] # None
  BY ShimAssumption DEF TypeOK
<1>2. strip_path_prefix(Prefix, CheckPath(t)) = page[t]
  BY <1>1, StripUndoesPrefix, ShimAssumption DEF CheckPath
<1> QED
  BY <1>1, <1>2 DEF OriginalPath

(***************************************************************************)
(* A new session is one that no request under way carries.                 *)
(***************************************************************************)
LEMMA NewSessionIsNew ==
  ASSUME TypeOK, NEW t \in Tab, ExchangeAccepted(t)
  PROVE  jar' \in Session /\ jar' \in NewSessions /\ \A u \in Tab : sent[u] # jar'
<1>1. jar' \in NewSessions
  BY DEF ExchangeAccepted
<1> QED
  BY <1>1 DEF NewSessions

(***************************************************************************)
(* Every step keeps the types (all await points of src/shim.rs:233-364).   *)
(***************************************************************************)
LEMMA NextTypeOK == TypeOK /\ [Next]_vars => TypeOK'
<1> SUFFICES ASSUME TypeOK, [Next]_vars PROVE TypeOK'
  OBVIOUS
<1> USE DEF TypeOK
<1>1. ASSUME NEW t \in Tab, NEW place \in {"asking", "exchange", "verify", "portal", "served", "refused"},
             Ends(t, place)
      PROVE  /\ at' \in [Tab -> {"asking", "exchange", "verify", "portal", "served", "refused"}]
             /\ sent' \in [Tab -> Session \cup {None}]
             /\ begun' \in [Tab -> BOOLEAN]
  BY <1>1 DEF Ends, Moves
<1>2. ASSUME NEW t \in Tab, Check(t) PROVE TypeOK'
  BY <1>2 DEF Check, Moves
<1>3. ASSUME NEW t \in Tab, ExchangeAccepted(t) PROVE TypeOK'
  <2>1. jar' \in Session
    BY <1>3, NewSessionIsNew
  <2>2. url' \in [Tab -> Token \cup {None}] /\ page' \in [Tab -> Page] /\ want' = want /\ calm' = calm
    BY <1>3, OriginalPathIsPage DEF ExchangeAccepted
  <2>3. live' \subseteq Session /\ valid' \subseteq Token
    BY <1>3, <2>1 DEF ExchangeAccepted
  <2> QED
    BY <1>1, <1>3, <2>1, <2>2, <2>3 DEF ExchangeAccepted
<1>4. ASSUME NEW t \in Tab, ExchangeRejected(t) PROVE TypeOK'
  BY <1>4 DEF ExchangeRejected, Moves
<1>5. ASSUME NEW t \in Tab, ExchangeFails(t) PROVE TypeOK'
  BY <1>1, <1>5 DEF ExchangeFails
<1>6. ASSUME NEW t \in Tab, ExchangeMalformed(t) PROVE TypeOK'
  BY <1>1, <1>6 DEF ExchangeMalformed, Moves
<1>7. ASSUME NEW t \in Tab, Verify(t) PROVE TypeOK'
  <2>1. PICK answer \in Answers(t) :
          /\ Ends(t, Outcome(answer))
          /\ page' = IF Outcome(answer) = "portal" THEN [page EXCEPT ![t] = OriginalPath(t)] ELSE page
    BY <1>7 DEF Verify
  <2>2. Outcome(answer) \in {"portal", "served", "refused"}
    BY DEF Outcome
  <2>3. page' \in [Tab -> Page]
    BY <2>1, OriginalPathIsPage
  <2> QED
    BY <1>1, <1>7, <2>1, <2>2, <2>3 DEF Verify
<1>8. ASSUME NEW t \in Tab, VerifyFails(t) PROVE TypeOK'
  BY <1>1, <1>8 DEF VerifyFails
<1>9. ASSUME NEW t \in Tab, Abandon(t) PROVE TypeOK'
  BY <1>1, <1>9 DEF Abandon
<1>10. ASSUME NEW t \in Tab, Portal(t) PROVE TypeOK'
  <2>1. url'[t] \in Token /\ url' \in [Tab -> Token \cup {None}]
    BY <1>10 DEF Portal
  <2> QED
    BY <1>10, <2>1 DEF Portal, Moves
<1>11. ASSUME NEW t \in Tab, Reload(t) PROVE TypeOK'
  BY <1>11 DEF Reload, Moves
<1>12. ASSUME NEW t \in Tab, Visit(t) PROVE TypeOK'
  BY <1>12 DEF Visit, Moves
<1>13. CASE Revoke \/ Expire \/ CalmDown
  BY <1>13 DEF Revoke, Expire, CalmDown
<1>14. CASE UNCHANGED vars
  BY <1>14 DEF vars
<1> QED
  BY <1>2, <1>3, <1>4, <1>5, <1>6, <1>7, <1>8, <1>9, <1>10, <1>11, <1>12, <1>13, <1>14
     DEF Next, Handler

(***************************************************************************)
(* The initial state is well typed.                                        *)
(***************************************************************************)
LEMMA InitTypeOK == Init => TypeOK
  BY DEF Init, TypeOK

(***************************************************************************)
(* The types of all variables of the shim and of the browser.              *)
(***************************************************************************)
THEOREM TypeCorrect == ShimSpec => []TypeOK
  BY InitTypeOK, NextTypeOK, PTL DEF ShimSpec

-----------------------------------------------------------------------------
(***************************************************************************)
(* ServedWasAuthorized is not inductive: a request is served at its last   *)
(* await, on what pangolin says of a session then, and must have been let  *)
(* in when it came.  A session that is live at an await was live before.   *)
(***************************************************************************)
UnderWay(t) ==
  at[t] \in {"exchange", "verify"} => (sent[t] \in live \/ page[t] \in Public => begun[t])

AuthInv == TypeOK /\ ServedWasAuthorized /\ PageKept /\ \A t \in Tab : UnderWay(t)

(***************************************************************************)
(* Pangolin lets a request through only for its session or its page.       *)
(***************************************************************************)
LEMMA ServedOnlyIfValid ==
  ASSUME TypeOK, NEW t \in Tab, NEW answer \in Answers(t), Outcome(answer) = "served"
  PROVE  sent[t] \in live \/ page[t] \in Public
<1>1. CASE ~(sent[t] \in live \/ OriginalPath(t) \in Public)
  <2>1. \/ answer = [redirect |-> TRUE, challenge |-> FALSE, valid |-> FALSE]
        \/ \E c \in BOOLEAN : answer = [redirect |-> FALSE, challenge |-> c, valid |-> FALSE]
    BY <1>1 DEF Answers
  <2>2. Outcome(answer) # "served"
    <3>1. answer.redirect = TRUE \/ answer.valid = FALSE
      BY <2>1
    <3> QED
      BY <3>1, Zenon DEF Outcome
  <2> QED
    BY <2>2
<1> QED
  BY <1>1, OriginalPathIsPage

(***************************************************************************)
(* A step of one tab that leaves sessions and pages alone, and does not    *)
(* serve it, keeps the invariant (the error paths of src/shim.rs:233-364). *)
(***************************************************************************)
LEMMA RefusalKeepsAuth ==
  ASSUME AuthInv, NEW t \in Tab, NEW place \in {"asking", "portal", "refused"}, Ends(t, place),
         UNCHANGED <<live, page, want>>
  PROVE  ServedWasAuthorized' /\ PageKept' /\ \A u \in Tab : UnderWay(u)'
  BY DEF AuthInv, TypeOK, Ends, Moves, ServedWasAuthorized, PageKept, UnderWay

(***************************************************************************)
(* A step of one tab that moves it within the handler or back to the       *)
(* browser, and leaves sessions and pages alone.                           *)
(***************************************************************************)
LEMMA MoveKeepsAuth ==
  ASSUME AuthInv, NEW t \in Tab, NEW place \in {"asking", "verify"}, Moves(t, place),
         place = "verify" => at[t] = "exchange",
         UNCHANGED <<live, page, want, sent, begun>>
  PROVE  ServedWasAuthorized' /\ PageKept' /\ \A u \in Tab : UnderWay(u)'
  BY DEF AuthInv, TypeOK, Moves, ServedWasAuthorized, PageKept, UnderWay

(***************************************************************************)
(* Every step keeps the invariant.                                         *)
(***************************************************************************)
LEMMA NextAuthInv == AuthInv /\ [Next]_vars => AuthInv'
<1> SUFFICES ASSUME AuthInv, [Next]_vars
             PROVE  ServedWasAuthorized' /\ PageKept' /\ \A u \in Tab : UnderWay(u)'
  BY NextTypeOK DEF AuthInv
<1> DEFINE Goal == ServedWasAuthorized' /\ PageKept' /\ \A u \in Tab : UnderWay(u)'
<1>1. ASSUME NEW t \in Tab, Check(t) PROVE Goal
  <2>1. UNCHANGED <<live, page, want>>
    BY <1>1 DEF Check
  <2>2. \A u \in Tab : u # t => at'[u] = at[u] /\ sent'[u] = sent[u] /\ begun'[u] = begun[u]
    BY <1>1 DEF Check, Moves, AuthInv, TypeOK
  <2>3. /\ at'[t] \in {"exchange", "verify"} /\ sent'[t] = jar
        /\ begun'[t] = (jar \in live \/ page[t] \in Public)
    BY <1>1 DEF Check, Moves, AuthInv, TypeOK
  <2> QED
    BY <2>1, <2>2, <2>3 DEF AuthInv, ServedWasAuthorized, PageKept, UnderWay
<1>2. ASSUME NEW t \in Tab, ExchangeAccepted(t) PROVE Goal
  <2>1. page' = page /\ want' = want
    BY <1>2, OriginalPathIsPage DEF ExchangeAccepted, AuthInv, TypeOK
  <2>2. \A u \in Tab : sent[u] \in live' => sent[u] \in live
    BY <1>2, NewSessionIsNew DEF ExchangeAccepted, AuthInv
  <2>3. at'[t] = "asking"
    BY <1>2 DEF ExchangeAccepted, Ends, Moves, AuthInv, TypeOK
  <2>4. \A u \in Tab : u # t => at'[u] = at[u] /\ sent'[u] = sent[u] /\ begun'[u] = begun[u]
    BY <1>2 DEF ExchangeAccepted, Ends, Moves, AuthInv, TypeOK
  <2> QED
    BY <2>1, <2>2, <2>3, <2>4 DEF AuthInv, ServedWasAuthorized, PageKept, UnderWay
<1>3. ASSUME NEW t \in Tab, ExchangeRejected(t) PROVE Goal
  BY <1>3, MoveKeepsAuth DEF ExchangeRejected
<1>4. ASSUME NEW t \in Tab, ExchangeFails(t) \/ VerifyFails(t) \/ Abandon(t) PROVE Goal
  BY <1>4, RefusalKeepsAuth DEF ExchangeFails, VerifyFails, Abandon
<1>5. ASSUME NEW t \in Tab, ExchangeMalformed(t) PROVE Goal
  BY <1>5, RefusalKeepsAuth, MoveKeepsAuth DEF ExchangeMalformed
<1>6. ASSUME NEW t \in Tab, Verify(t) PROVE Goal
  <2>1. PICK answer \in Answers(t) :
          /\ Ends(t, Outcome(answer))
          /\ page' = IF Outcome(answer) = "portal" THEN [page EXCEPT ![t] = OriginalPath(t)] ELSE page
    BY <1>6 DEF Verify
  <2>2. page' = page /\ want' = want /\ live' = live
    BY <1>6, <2>1, OriginalPathIsPage DEF Verify, AuthInv, TypeOK
  <2>3. Outcome(answer) \in {"portal", "served", "refused"}
    BY DEF Outcome
  <2>4. CASE Outcome(answer) = "served"
    <3>1. begun[t] = TRUE
      BY <1>6, <2>4, ServedOnlyIfValid DEF Verify, AuthInv, UnderWay, TypeOK
    <3>2. at'[t] = "served" /\ begun'[t] = TRUE
      BY <2>1, <2>4, <3>1 DEF Ends, Moves, AuthInv, TypeOK
    <3>3. \A u \in Tab : u # t => at'[u] = at[u] /\ sent'[u] = sent[u] /\ begun'[u] = begun[u]
      BY <2>1 DEF Ends, Moves, AuthInv, TypeOK
    <3> QED
      BY <2>2, <3>2, <3>3 DEF AuthInv, ServedWasAuthorized, PageKept, UnderWay
  <2> QED
    BY <2>1, <2>2, <2>3, <2>4, RefusalKeepsAuth
<1>7. ASSUME NEW t \in Tab, Portal(t) \/ Reload(t) PROVE Goal
  BY <1>7, MoveKeepsAuth DEF Portal, Reload
<1>8. ASSUME NEW t \in Tab, Visit(t) PROVE Goal
  BY <1>8 DEF Visit, Moves, AuthInv, TypeOK, ServedWasAuthorized, PageKept, UnderWay
<1>9. CASE Revoke \/ Expire \/ CalmDown
  BY <1>9 DEF Revoke, Expire, CalmDown, AuthInv, ServedWasAuthorized, PageKept, UnderWay
<1>10. CASE UNCHANGED vars
  BY <1>10 DEF vars, AuthInv, ServedWasAuthorized, PageKept, UnderWay
<1> QED
  BY <1>1, <1>2, <1>3, <1>4, <1>5, <1>6, <1>7, <1>8, <1>9, <1>10 DEF Next, Handler

(***************************************************************************)
(* The invariant holds in every state.                                     *)
(***************************************************************************)
LEMMA AlwaysAuth == ShimSpec => []AuthInv
<1>1. Init => AuthInv
  BY InitTypeOK DEF Init, AuthInv, ServedWasAuthorized, PageKept, UnderWay
<1> QED
  BY <1>1, NextAuthInv, PTL DEF ShimSpec

(***************************************************************************)
(* A request is served only when it carried a session that was live when   *)
(* it came in, or asked for a page that needs none, whatever fails, is     *)
(* lost, revoked or done by other tabs meanwhile (src/shim.rs:233-364).    *)
(***************************************************************************)
THEOREM ServedIsAuthorized == ShimSpec => []ServedWasAuthorized
<1>1. AuthInv => ServedWasAuthorized
  BY DEF AuthInv
<1> QED
  BY <1>1, AlwaysAuth, PTL

(***************************************************************************)
(* No redirect leads a tab away from the page that the user went to, for   *)
(* every prefix and every page (src/shim.rs:279-285, 313, 449-468).        *)
(***************************************************************************)
THEOREM PageIsKept == ShimSpec => []PageKept
<1>1. AuthInv => PageKept
  BY DEF AuthInv
<1> QED
  BY <1>1, AlwaysAuth, PTL

-----------------------------------------------------------------------------
(* The way of a tab to its page once faults have ended.                    *)

\* A token is in one URL only.
TokensApart == \A t, u \in Tab : t # u /\ url[t] = url[u] => url[t] = None

TabInv == AuthInv /\ TokensApart

(***************************************************************************)
(* The portal hands out tokens that no URL has.                            *)
(***************************************************************************)
LEMMA NextTabInv == TabInv /\ [Next]_vars => TabInv'
<1> SUFFICES ASSUME TabInv, [Next]_vars
             PROVE  TokensApart'
  BY NextAuthInv DEF TabInv
<1> USE DEF TabInv, AuthInv, TypeOK, TokensApart
<1>1. CASE url' = url
  BY <1>1
<1>2. ASSUME NEW t \in Tab, url' = [url EXCEPT ![t] = None]
      PROVE  TokensApart'
  BY <1>2
<1>3. ASSUME NEW t \in Tab, Portal(t)
      PROVE  TokensApart'
  <2>1. PICK tok \in Token \ {url[u] : u \in Tab} : url' = [url EXCEPT ![t] = tok]
    BY <1>3 DEF Portal
  <2> QED
    BY <2>1
<1>4. ASSUME NEW t \in Tab, ExchangeAccepted(t) \/ Visit(t)
      PROVE  TokensApart'
  BY <1>2, <1>4 DEF ExchangeAccepted, Visit
<1> QED
  BY <1>1, <1>3, <1>4
     DEF Next, Handler, Check, ExchangeRejected, ExchangeFails, ExchangeMalformed, Verify,
       VerifyFails, Abandon, Reload, Revoke, Expire, CalmDown, vars

Accepted(t) == sent[t] \in live \/ page[t] \in Public

\* A step leaves the tab where it is, its token and the session that it sent as
\* good as they were, and the cookie of the browser too.
Kept(t) ==
  /\ at'[t] = at[t] /\ url'[t] = url[t]
  /\ url[t] \in valid => url'[t] \in valid'
  /\ Accepted(t) => Accepted(t)'
  /\ jar \in live => jar' \in live'

\* Where a step of the tab itself leads, without faults.
Goes(t) ==
  \/ at[t] = "refused" /\ at'[t] = "asking"
  \/ at[t] = "asking" /\ url[t] # None /\ at'[t] = "exchange"
       /\ (url[t] \in valid => url'[t] \in valid')
  \/ at[t] = "asking" /\ url[t] = None /\ at'[t] = "verify" /\ (jar \in live => Accepted(t)')
  \/ at[t] = "exchange" /\ at'[t] = "asking" /\ url'[t] = None /\ jar' \in live'
  \/ at[t] = "exchange" /\ url[t] \notin valid /\ at'[t] = "verify"
  \/ at[t] = "verify" /\ Accepted(t) /\ at'[t] = "served"
  \/ at[t] = "verify" /\ at'[t] = "portal"  /\ ~Accepted(t)
  \/ at[t] = "portal" /\ at'[t] = "asking" /\ url'[t] \in valid'
  \/ at[t] = "served"

(***************************************************************************)
(* Without faults the handler has one outcome at each await, and a login   *)
(* leaves a cookie that pangolin accepts (src/shim.rs:273-364).            *)
(***************************************************************************)
LEMMA OwnStep ==
  ASSUME TabInv, calm, NEW t \in Tab, Handler(t) \/ Abandon(t) \/ Portal(t) \/ Reload(t) \/ Visit(t)
  PROVE  Goes(t)
<1> USE DEF TabInv, AuthInv, TypeOK, Goes
<1>1. \A f : ~Fault(f)
  BY DEF Fault
<1>2. CASE Check(t)
  BY <1>2 DEF Check, Moves, Accepted
<1>3. CASE ExchangeAccepted(t)
  BY <1>3 DEF ExchangeAccepted, Ends, Moves
<1>4. CASE ExchangeRejected(t)
  BY <1>4 DEF ExchangeRejected, Moves
<1>5. CASE Verify(t)
  <2>1. PICK answer \in Answers(t) : Ends(t, Outcome(answer)) /\ at[t] = "verify"
    BY <1>5 DEF Verify
  <2>2. at'[t] = Outcome(answer)
    BY <2>1 DEF Ends, Moves
  <2>3. CASE Accepted(t)
    <3>1. answer = [redirect |-> FALSE, challenge |-> FALSE, valid |-> TRUE]
      BY <2>3, OriginalPathIsPage DEF Answers, Accepted
    <3>2. answer.redirect = FALSE /\ answer.challenge = FALSE /\ answer.valid = TRUE
      BY <3>1
    <3>3. Outcome(answer) = "served"
      BY <3>2, Zenon DEF Outcome
    <3> QED
      BY <2>1, <2>2, <2>3, <3>3
  <2>4. CASE ~Accepted(t)
    <3>1. answer = [redirect |-> TRUE, challenge |-> FALSE, valid |-> FALSE]
      BY <1>1, <2>4, OriginalPathIsPage DEF Answers, Accepted
    <3>2. answer.redirect = TRUE
      BY <3>1
    <3>3. Outcome(answer) = "portal"
      BY <3>2, Zenon DEF Outcome
    <3> QED
      BY <2>1, <2>2, <2>4, <3>3
  <2> QED
    BY <2>3, <2>4
<1>6. CASE Portal(t)
  BY <1>6 DEF Portal, Moves
<1>7. CASE Reload(t) \/ Visit(t)
  BY <1>7 DEF Reload, Visit, Moves
<1> QED
  BY <1>1, <1>2, <1>3, <1>4, <1>5, <1>6, <1>7
     DEF Handler, ExchangeFails, ExchangeMalformed, VerifyFails, Abandon

(***************************************************************************)
(* Other tabs may replace the cookie and use tokens, but neither the token *)
(* of this tab nor the session that its request carries.                   *)
(***************************************************************************)
LEMMA OtherStep ==
  ASSUME TabInv, calm, NEW t \in Tab, NEW u \in Tab, t # u,
         Handler(u) \/ Abandon(u) \/ Portal(u) \/ Reload(u) \/ Visit(u)
  PROVE  Kept(t)
<1> USE DEF TabInv, AuthInv, TypeOK
<1>1. \A f : ~Fault(f)
  BY DEF Fault
<1>2. CASE Check(u)
  BY <1>2 DEF Check, Moves, Kept, Accepted
<1>3. CASE ExchangeAccepted(u)
  <2>1. at'[t] = at[t] /\ url'[t] = url[t] /\ sent'[t] = sent[t]
    BY <1>3 DEF ExchangeAccepted, Ends, Moves
  <2>2. page'[t] = page[t]
    BY <1>3 DEF ExchangeAccepted
  <2>3. sent[t] \in live => sent[t] \in live'
    BY <1>3 DEF ExchangeAccepted, NewSessions
  <2>4. url[t] # url[u]
    BY <1>3, ShimAssumption DEF ExchangeAccepted, TokensApart
  <2>5. url[t] \in valid => url[t] \in valid'
    BY <1>3, <2>4 DEF ExchangeAccepted
  <2>6. jar' \in live'
    BY <1>3 DEF ExchangeAccepted
  <2> QED
    BY <2>1, <2>2, <2>3, <2>5, <2>6 DEF Kept, Accepted
<1>4. CASE ExchangeRejected(u)
  BY <1>4 DEF ExchangeRejected, Moves, Kept, Accepted
<1>5. CASE Verify(u)
  <2>1. at'[t] = at[t] /\ sent'[t] = sent[t] /\ page'[t] = page[t]
    BY <1>5 DEF Verify, Ends, Moves
  <2> QED
    BY <1>5, <2>1 DEF Verify, Kept, Accepted
<1>6. CASE Portal(u)
  BY <1>6 DEF Portal, Moves, Kept, Accepted
<1>7. CASE Reload(u) \/ Visit(u)
  BY <1>7 DEF Reload, Visit, Moves, Kept, Accepted
<1> QED
  BY <1>1, <1>2, <1>3, <1>4, <1>5, <1>6, <1>7
     DEF Handler, ExchangeFails, ExchangeMalformed, VerifyFails, Abandon

(***************************************************************************)
(* Every step keeps the tab's prospects or is a step of the tab itself.    *)
(***************************************************************************)
LEMMA TabStep ==
  ASSUME TabInv, calm, NEW t \in Tab, [Next]_vars
  PROVE  calm' /\ (Kept(t) \/ Goes(t)) /\ (<<Advance(t)>>_vars => Goes(t))
<1>1. ~Revoke /\ ~Expire /\ ~CalmDown
  BY DEF Revoke, Expire, CalmDown, Fault
<1>2. Kept(t) \/ Goes(t)
  <2>1. CASE UNCHANGED vars
    BY <2>1 DEF vars, Kept, Accepted
  <2> QED
    BY <1>1, <2>1, OwnStep, OtherStep DEF Next
<1>3. calm'
  BY <1>1
     DEF Next, Handler, Check, ExchangeAccepted, ExchangeRejected, ExchangeFails,
       ExchangeMalformed, Verify, VerifyFails, Abandon, Portal, Reload, Visit, vars
<1>4. Advance(t) => Goes(t)
  BY OwnStep DEF Advance
<1> QED
  BY <1>2, <1>3, <1>4

(***************************************************************************)
(* A tab that goes on gets its page.  Its token may have been spent before *)
(* faults ended, so the first exchange may fail; the token that the portal *)
(* then puts into its URL is accepted, and from there on whatever cookie   *)
(* the browser has is accepted.                                            *)
(***************************************************************************)
LEMMA LoginOfTab ==
  ASSUME NEW t \in Tab
  PROVE  ShimSpec /\ ([]<>(at[t] = "served") \/ []<><<Advance(t)>>_vars)
           => (calm ~> at[t] = "served")
<1> DEFINE Served   == at[t] = "served"
           Refused  == calm /\ at[t] = "refused"
           Asking   == calm /\ at[t] = "asking"
           Exchange == calm /\ at[t] = "exchange"
           Checking == calm /\ at[t] = "verify"
           AtPortal == calm /\ at[t] = "portal"
           TokenAsking   == calm /\ at[t] = "asking" /\ url[t] \in valid
           TokenExchange == calm /\ at[t] = "exchange" /\ url[t] \in valid
           CookieAsking  == calm /\ at[t] = "asking" /\ url[t] = None /\ jar \in live
           CookieChecked == calm /\ at[t] = "verify" /\ Accepted(t)
           Step == TabInv /\ [Next]_vars
           Own  == TabInv /\ [Next]_vars /\ <<Advance(t)>>_vars
<1>1. Init => TabInv
  <2>1. Init => AuthInv
    BY InitTypeOK DEF Init, AuthInv, ServedWasAuthorized, PageKept, UnderWay
  <2> QED
    BY <2>1 DEF Init, TabInv, TokensApart
<1>2. TabInv /\ calm => Served \/ Refused \/ Asking \/ Exchange \/ Checking \/ AtPortal
  BY DEF TabInv, AuthInv, TypeOK
<1>3. TabInv => (url[t] \in valid => url[t] # None)
  BY ShimAssumption DEF TabInv, AuthInv, TypeOK
<1>4. /\ Refused /\ Step => Refused' \/ Asking'
      /\ Refused /\ Own => Asking'
  BY TabStep DEF Kept, Goes
<1>5. /\ Asking /\ Step => Asking' \/ Exchange' \/ Checking'
      /\ Asking /\ Own => Exchange' \/ Checking'
  BY TabStep DEF Kept, Goes
<1>6. /\ Exchange /\ Step => Exchange' \/ CookieAsking' \/ Checking'
      /\ Exchange /\ Own => CookieAsking' \/ Checking'
  BY TabStep DEF Kept, Goes
<1>7. /\ Checking /\ Step => Checking' \/ Served' \/ AtPortal'
      /\ Checking /\ Own => Served' \/ AtPortal'
  BY TabStep DEF Kept, Goes
<1>8. /\ AtPortal /\ Step => AtPortal' \/ TokenAsking'
      /\ AtPortal /\ Own => TokenAsking'
  BY TabStep DEF Kept, Goes
<1>9. /\ TokenAsking /\ Step => TokenAsking' \/ TokenExchange'
      /\ TokenAsking /\ Own => TokenExchange'
  BY <1>3, TabStep DEF Kept, Goes
<1>10. /\ TokenExchange /\ Step => TokenExchange' \/ CookieAsking'
       /\ TokenExchange /\ Own => CookieAsking'
  BY TabStep DEF Kept, Goes
<1>11. /\ CookieAsking /\ Step => CookieAsking' \/ CookieChecked'
       /\ CookieAsking /\ Own => CookieChecked'
  BY TabStep DEF Kept, Goes
<1>12. /\ CookieChecked /\ Step => CookieChecked' \/ Served'
       /\ CookieChecked /\ Own => Served'
  BY TabStep DEF Kept, Goes
<1> HIDE DEF Refused, Asking, Exchange, Checking, AtPortal, TokenAsking, TokenExchange,
             CookieAsking, CookieChecked
<1> QED
  BY <1>1, <1>2, <1>4, <1>5, <1>6, <1>7, <1>8, <1>9, <1>10, <1>11, <1>12, NextTabInv, PTL
     DEF ShimSpec

(***************************************************************************)
(* For any number of tabs, sessions and tokens: once faults end, every tab *)
(* gets its page again and again, whatever state outages, lost answers,    *)
(* revoked sessions and the other tabs have left it in, given that no      *)
(* handler and no user waits for ever (src/shim.rs:273-336).               *)
(***************************************************************************)
THEOREM LoginsComplete == ShimSpec /\ TabsGoOn => LoginCompletes
<1>1. ASSUME NEW t \in Tab
      PROVE  TabsGoOn => []<>(at[t] = "served") \/ []<><<Advance(t)>>_vars
  BY DEF TabsGoOn
<1>2. ASSUME NEW t \in Tab
      PROVE  ShimSpec /\ TabsGoOn => (calm ~> at[t] = "served")
  BY <1>1, LoginOfTab
<1> QED
  BY <1>2 DEF LoginCompletes
=============================================================================
