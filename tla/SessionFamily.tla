--------------------------- MODULE SessionFamily ---------------------------
(***************************************************************************)
(* The session of one person on one device: the family of refresh tokens   *)
(* a login opens (models/RefreshToken.js), the renewals that the tabs of   *)
(* the browser send with its one cookie (controllers/authController.js,    *)
(* rotateCookie), and what ends a session or changes its version. A token  *)
(* is its place in the chain: the successor is computed, not drawn, so a   *)
(* token has one.                                                          *)
(***************************************************************************)
EXTENDS Integers, FiniteSets

CONSTANTS
  Tabs,          \* renewals the server handles at the same time
  MaxHops,       \* links a late renewal may follow (3 in the code)
  MaxTokens,     \* bound of the model: the last token of the chain
  MaxVersion     \* bound of the model: changes of the person's version

ASSUME SessionAssumption ==
  /\ MaxHops \in Nat \ {0} /\ MaxTokens \in Nat \ {0} /\ MaxVersion \in Nat

VARIABLES
  tok,           \* refresh_tokens, the rows of the family
  stale,         \* tokens below it were rotated longer ago than the grace
  version,       \* token_version of the person
  lapsed,        \* the newest token is past its expiry
  member,        \* the person still belongs to the provider
  jar,           \* the browser's cookie
  tab,           \* each renewal, between its awaits
  gesture,       \* what the person is doing to the session, one thing at a time
  ended,         \* ghost: signing out of this or of all sessions was asked, was answered
  missed,        \* ghost: a row was inserted while the UPDATE that ends ran
  behind,        \* ghost: an answer was lost or overtaken, or a renewal was too slow
  crossed        \* ghost: the change of the version was not one step for a renewal

vars == <<tok, stale, version, lapsed, member, jar, tab, gesture, ended, missed, behind, crossed>>
world == <<stale, lapsed, member>>
ghosts == <<ended, missed, behind, crossed>>

Tokens == 0..MaxTokens
None == -1

Row == [st : {"none", "live", "rotated"}, revoked : BOOLEAN, ver : 0..MaxVersion]
\* cur: the token being looked at. row: what was read of it. seen: the rows the running
\* UPDATE of the family found. out: the token the answer sets, None clears the cookie.
Tab == [pc : {"idle", "find", "user", "try", "reread", "next", "access", "look", "write",
              "answer"},
        cur : Tokens, row : Row, since : 0..MaxTokens + 1, hop : 0..MaxHops,
        seen : SUBSET Tokens, out : Tokens \cup {None}]
Gesture == [kind : {"none", "one", "all", "mfa"}, pc : {"idle", "bump", "look", "write", "answer"},
            ver : 0..MaxVersion, seen : SUBSET Tokens]

\* What the rows, the renewals and the gesture may hold: the chain has one token that is
\* not rotated, at its end.
TypeOK ==
  /\ tok \in [Tokens -> Row] /\ stale \in 0..MaxTokens + 1
  /\ version \in 0..MaxVersion /\ lapsed \in BOOLEAN /\ member \in BOOLEAN
  /\ jar \in Tokens \cup {None}
  /\ tab \in [Tabs -> Tab]
  /\ gesture \in Gesture
  /\ ended \in {"no", "asked", "one", "all"}
  /\ missed \in BOOLEAN /\ behind \in BOOLEAN /\ crossed \in BOOLEAN
  /\ \E head \in Tokens : \A t \in Tokens :
       tok[t].st = IF t < head THEN "rotated" ELSE IF t = head THEN "live" ELSE "none"

Unborn == [st |-> "none", revoked |-> FALSE, ver |-> 0]
Idle == [pc |-> "idle", cur |-> 0, row |-> Unborn, since |-> 0, hop |-> 0, seen |-> {}, out |-> None]
NoGesture == [kind |-> "none", pc |-> "idle", ver |-> 0, seen |-> {}]

\* startFamily: a login opened the family and set the cookie.
Init ==
  /\ tok = [t \in Tokens |-> IF t = 0 THEN [Unborn EXCEPT !.st = "live"] ELSE Unborn]
  /\ stale = 0 /\ version = 0 /\ lapsed = FALSE /\ member = TRUE
  /\ jar = 0
  /\ tab = [t \in Tabs |-> Idle]
  /\ gesture = NoGesture
  /\ ended = "no" /\ missed = FALSE /\ behind = FALSE /\ crossed = FALSE

-----------------------------------------------------------------------------
(* UPDATE ... WHERE family_id AND revoked_at IS NULL. PostgreSQL takes the rows from a   *)
(* snapshot, waits for their locks and checks them again: a row that a transaction       *)
(* commits in between is not among them. SQLite and MySQL find every row: the two steps  *)
(* one after the other.                                                                  *)

Alive(t) == tok[t].st # "none" /\ ~tok[t].revoked
Visible == {t \in Tokens : Alive(t)}
Revoked(seen) == [t \in Tokens |-> IF t \in seen THEN [tok[t] EXCEPT !.revoked = TRUE] ELSE tok[t]]

-----------------------------------------------------------------------------
(* rotateCookie: one renewal.                                              *)

Becomes(r, x) == tab' = [tab EXCEPT ![r] = x]
Goes(r, step, t) == Becomes(r, [Idle EXCEPT !.pc = step, !.cur = t])
Refuses(r) == Becomes(r, [Idle EXCEPT !.pc = "answer"])
Revokes(r) == Becomes(r, [Idle EXCEPT !.pc = "look"])
Accepts(r, t) == Becomes(r, [Idle EXCEPT !.pc = "access", !.out = t])

\* A tab loads, or its access token ran out: the cookie goes with the request.
Send(r) ==
  /\ tab[r].pc = "idle" /\ jar # None
  /\ Goes(r, "find", jar)
  /\ crossed' = (crossed \/ gesture.kind = "mfa")
  /\ UNCHANGED <<tok, version, jar, gesture, ended, missed, behind, world>>

Find(r) ==
  /\ tab[r].pc = "find"
  /\ Becomes(r, [tab[r] EXCEPT !.pc = "user", !.row = tok[tab[r].cur]])
  /\ UNCHANGED <<tok, version, jar, gesture, ghosts, world>>

\* The person is read, then rotate judges the row read before.
ReadUser(r) ==
  LET old == tab[r].row  cur == tab[r].cur IN
  /\ tab[r].pc = "user"
  /\ \/ old.revoked /\ Refuses(r)
     \/ ~old.revoked /\ old.ver # version /\ Revokes(r)
     \/ /\ ~old.revoked /\ old.ver = version /\ old.st = "live"
        /\ IF lapsed THEN Refuses(r)
           ELSE Becomes(r, [tab[r] EXCEPT !.pc = "try", !.since = stale])
     \/ /\ ~old.revoked /\ old.ver = version /\ old.st = "rotated"
        /\ IF cur < stale THEN Revokes(r) ELSE Goes(r, "next", cur)
  /\ UNCHANGED <<tok, version, jar, gesture, ghosts, world>>

Regardless(r) == ~tok[tab[r].cur].revoked            \* mutant: rotated_at is not asked
UnlessRotated(r) == tok[tab[r].cur].st = "live"      \* mutant: revoked_at is not asked
Rotatable(r) == tok[tab[r].cur].st = "live" /\ ~tok[tab[r].cur].revoked

OfThePerson(r) == [Unborn EXCEPT !.st = "live", !.ver = version] \* mutant: the version of now
\* The successor has the version of the row as it was read.
Successor(r) == [Unborn EXCEPT !.st = "live", !.ver = tab[r].row.ver]

\* The transaction: the conditional UPDATE and the successor's INSERT. The one that
\* loses goes on as a late tab.
Rotate(r) ==
  LET cur == tab[r].cur IN
  /\ tab[r].pc = "try"
  /\ IF Rotatable(r)
       THEN /\ cur < MaxTokens
            /\ tok' = [tok EXCEPT ![cur].st = "rotated", ![cur + 1] = Successor(r)]
            /\ Accepts(r, cur + 1)
       ELSE Becomes(r, [tab[r] EXCEPT !.pc = "reread", !.row = Unborn]) /\ UNCHANGED tok
  /\ UNCHANGED <<version, jar, gesture, ghosts, world>>

LostForGood(r) == tab[r].pc = "reread" /\ Refuses(r) \* mutant: the loser is turned away
Judged(r) ==
  LET cur == tab[r].cur IN
  /\ tab[r].pc = "reread"
  /\ IF tok[cur].revoked THEN Refuses(r)
     ELSE IF cur < tab[r].since THEN Revokes(r)
     ELSE Goes(r, "next", cur)

Reread(r) ==
  /\ Judged(r)
  /\ UNCHANGED <<tok, version, jar, gesture, ghosts, world>>

Head == CHOOSE t \in Tokens : tok[t].st = "live"

\* The next link: the newest is the answer, a rotated one is followed, but not for ever. A
\* link was rotated after the one before it, which was in its grace, and so is in its own.
Follow(r) ==
  LET next == tab[r].cur + 1 IN
  /\ tab[r].pc = "next"
  /\ \/ tok[next].revoked /\ Refuses(r)
     \/ ~tok[next].revoked /\ tok[next].st = "live" /\ IF lapsed THEN Refuses(r) ELSE Accepts(r, next)
     \/ /\ ~tok[next].revoked /\ tok[next].st = "rotated"
        /\ IF tab[r].hop + 1 >= MaxHops THEN Revokes(r)
           ELSE Becomes(r, [tab[r] EXCEPT !.cur = next, !.hop = @ + 1])
  /\ behind' = (behind \/ Head - (tab[r].cur - tab[r].hop) > MaxHops)
  /\ UNCHANGED <<tok, version, jar, gesture, ended, missed, crossed, world>>

\* accessFor: the membership is read again.
Access(r) ==
  /\ tab[r].pc = "access"
  /\ IF member THEN Becomes(r, [tab[r] EXCEPT !.pc = "answer"]) ELSE Revokes(r)
  /\ UNCHANGED <<tok, version, jar, gesture, ghosts, world>>

RevokeLook(r) ==
  /\ tab[r].pc = "look"
  /\ Becomes(r, [tab[r] EXCEPT !.pc = "write", !.seen = Visible])
  /\ UNCHANGED <<tok, version, jar, gesture, ghosts, world>>

RevokeWrite(r) ==
  /\ tab[r].pc = "write"
  /\ tok' = Revoked(tab[r].seen)
  /\ Refuses(r)
  /\ UNCHANGED <<version, jar, gesture, ghosts, world>>

\* The answer reaches the browser, which takes its cookie whatever it holds by then.
Arrive(r) ==
  /\ tab[r].pc = "answer"
  /\ jar' = tab[r].out
  /\ behind' = (behind \/ tab[r].out < jar)
  /\ Becomes(r, Idle)
  /\ UNCHANGED <<tok, version, gesture, ended, missed, crossed, world>>

\* The answer is lost, or the handler fails or dies on its way to it.
Drop(r) ==
  /\ tab[r].pc # "idle"
  /\ Becomes(r, Idle)
  /\ behind' = (behind \/ tab[r].out # None)
  /\ UNCHANGED <<tok, version, jar, gesture, ended, missed, crossed, world>>

-----------------------------------------------------------------------------
(* What a person does to the session, and time.                            *)

Busy == \E r \in Tabs : tab[r].pc # "idle"

Begin(kind, step) ==
  /\ gesture = NoGesture
  /\ gesture' = [NoGesture EXCEPT !.kind = kind, !.pc = step]
  /\ UNCHANGED <<tok, version, jar, tab, missed, behind, world>>

SignsOut == ended' = (IF ended = "no" THEN "asked" ELSE ended)

\* "Sair" of this device, or "Encerrar" from another.
Logout == Begin("one", "look") /\ ended \in {"no", "asked"} /\ SignsOut /\ UNCHANGED crossed
\* "Sair de todos", from any device of the person.
LogoutAll == Begin("all", "bump") /\ version < MaxVersion /\ SignsOut /\ UNCHANGED crossed
\* The second factor changes, from this session.
ChangeFactor ==
  /\ Begin("mfa", "bump") /\ version < MaxVersion
  /\ \E t \in Tokens : Alive(t) /\ tok[t].ver = version
  /\ crossed' = (crossed \/ Busy)
  /\ UNCHANGED ended

\* token_version + 1: the rows of every session are of an older version now.
Bump ==
  /\ gesture.pc = "bump"
  /\ version' = version + 1
  /\ gesture' = [gesture EXCEPT !.pc = "look", !.ver = version + 1]
  /\ UNCHANGED <<tok, jar, tab, ghosts, world>>

Look ==
  /\ gesture.pc = "look"
  /\ gesture' = [gesture EXCEPT !.pc = "write", !.seen = Visible]
  /\ UNCHANGED <<tok, version, jar, tab, ghosts, world>>

\* revokeOwnFamily, revokeAllForUser: the answer is "signed out".
End ==
  /\ gesture.kind \in {"one", "all"} /\ gesture.pc = "write"
  /\ tok' = Revoked(gesture.seen)
  /\ missed' = (missed \/ \E t \in Tokens \ gesture.seen : Alive(t))
  /\ ended' = IF ended = "all" THEN ended ELSE gesture.kind
  /\ gesture' = [NoGesture EXCEPT !.kind = gesture.kind, !.pc = "answer"]
  /\ UNCHANGED <<version, jar, tab, behind, crossed, world>>

\* It reaches this browser, which forgets the cookie, or is lost, or was another's.
SignedOut ==
  /\ gesture.pc = "answer"
  /\ gesture' = NoGesture
  /\ jar' \in {jar, None}
  /\ UNCHANGED <<tok, version, tab, ghosts, world>>

\* The handler fails or dies before its last write.
Fails ==
  /\ gesture.pc \in {"bump", "look", "write"}
  /\ gesture' = NoGesture
  /\ crossed' = (crossed \/ gesture.kind = "mfa")
  /\ UNCHANGED <<tok, version, jar, tab, ended, missed, behind, world>>

\* adoptVersion: the family goes on, in the new version.
Adopted(seen) ==
  [t \in Tokens |-> IF t \in seen /\ ~tok[t].revoked THEN [tok[t] EXCEPT !.ver = gesture.ver]
                    ELSE tok[t]]

Adopt ==
  /\ gesture.kind = "mfa" /\ gesture.pc = "write"
  /\ tok' = Adopted(gesture.seen)
  /\ gesture' = NoGesture
  /\ UNCHANGED <<version, jar, tab, ghosts, world>>

\* Ten seconds after its rotation, a token is out of its grace.
GracePasses ==
  /\ stale < MaxTokens /\ tok[stale].st = "rotated"
  /\ stale' = stale + 1
  /\ behind' = (behind \/ Busy)
  /\ UNCHANGED <<tok, version, jar, tab, gesture, ended, missed, lapsed, member, crossed>>

\* Seven days without a renewal: nothing under way lasts as long.
Lapse ==
  /\ ~lapsed /\ ~Busy /\ gesture = NoGesture
  /\ lapsed' = TRUE
  /\ UNCHANGED <<tok, version, jar, tab, gesture, ghosts, stale, member>>

\* The provider lets the person go.
Leave ==
  /\ member
  /\ member' = FALSE
  /\ UNCHANGED <<tok, version, jar, tab, gesture, ghosts, stale, lapsed>>

-----------------------------------------------------------------------------
Renew(r) ==
  \/ Send(r) \/ Find(r) \/ ReadUser(r) \/ Rotate(r) \/ Reread(r) \/ Follow(r) \/ Access(r)
  \/ RevokeLook(r) \/ RevokeWrite(r) \/ Arrive(r) \/ Drop(r)

Person == Logout \/ LogoutAll \/ ChangeFactor \/ Bump \/ Look \/ End \/ SignedOut \/ Adopt \/ Fails

Next == (\E r \in Tabs : Renew(r)) \/ Person \/ GracePasses \/ Lapse \/ Leave

Spec == Init /\ [][Next]_vars

-----------------------------------------------------------------------------
(* What signing out, and staying signed in, mean (RefreshToken.js:332-335,  *)
(* 345-349, 224-225; authController.js:1452-1456).                          *)

\* Once "Sair" or "Encerrar" was answered, the family stays ended: no renewal that was
\* under way leaves a token of it that is not revoked, but for the row inserted under
\* the UPDATE itself (PostgreSQL).
EndedStaysEnded ==
  ended \in {"one", "all"} /\ ~missed => \A t \in Tokens : ~Alive(t)

\* "Sair de todos" holds even then: a token that escaped it is of an older version, which
\* every later renewal refuses.
AllOut == ended = "all" => \A t \in Tokens : Alive(t) => tok[t].ver # version

\* Tabs that renew together do not sign the person out, and neither does changing the
\* second factor: a refusal has a cause outside of them.
KeptSignedIn ==
  (\E r \in Tabs : tab[r].pc = "answer" /\ tab[r].out = None)
    => ended # "no" \/ lapsed \/ ~member \/ behind \/ crossed
=============================================================================
