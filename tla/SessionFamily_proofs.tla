------------------------ MODULE SessionFamily_proofs ------------------------
(***************************************************************************)
(* For any number of tabs, any length of the chain of tokens and any limit *)
(* of links: a session that was ended stays ended (EndedStaysEnded,        *)
(* AllOut), and tabs that renew together keep theirs (KeptSignedIn).       *)
(***************************************************************************)
EXTENDS SessionFamily, TLAPS

Born(t) == tok[t].st # "none"

\* Cookies, requests and answers are of tokens that exist, and what a renewal knows of its
\* token stays true: a rotation is for ever.
Fits(x) ==
  /\ Born(x.cur)
  /\ x.out # None => Born(x.out) /\ x.pc \in {"access", "answer"}
  /\ x.row.st = "rotated" => tok[x.cur].st = "rotated"
  /\ x.pc = "next" => tok[x.cur].st = "rotated"
  /\ x.pc = "reread" => tok[x.cur].st = "rotated" \/ tok[x.cur].revoked

Known == (jar # None => Born(jar)) /\ \A r \in Tabs : Fits(tab[r])

BumpHasRoom == gesture.pc = "bump" => version < MaxVersion

Shape == TypeOK /\ Known /\ BumpHasRoom

\* No token is of a later version than the person.
Versions ==
  /\ \A t \in Tokens : tok[t].ver <= version
  /\ \A r \in Tabs : tab[r].row.ver <= version
  /\ gesture.kind = "mfa" /\ gesture.pc \in {"look", "write"} => gesture.ver = version

\* "Sair de todos" has changed the version.
Left == ended = "all" \/ (gesture.kind = "all" /\ gesture.pc \in {"look", "write", "answer"})

\* From then on every token, and every token read, is of an older version, and no session of
\* this family is there to change the second factor from.
Outdated ==
  Left => /\ \A t \in Tokens : tok[t].ver < version
          /\ \A r \in Tabs : tab[r].row.ver < version
          /\ gesture.kind # "mfa"

\* Nothing that may end a session happened.
Clean == ended = "no" /\ ~lapsed /\ member /\ ~behind /\ ~crossed

\* Then a renewal presents a token within its grace, read in the version of the person, and
\* is answered with one.
GoesWell(x) ==
  /\ x.pc \notin {"look", "write"}
  /\ x.pc \in {"find", "user", "try", "reread", "next"} => stale <= x.cur
  /\ x.pc \in {"access", "answer"} => x.out # None /\ stale <= x.out
  /\ x.pc \in {"user", "try"} => x.row.ver = version /\ x.row.st # "none"
  /\ ~x.row.revoked
  /\ x.since <= x.cur

\* The browser, or an answer on its way, has the newest token.
NewestIsHeld ==
  \A t \in Tokens : tok[t].st = "live" => jar = t \/ \E r \in Tabs : tab[r].out = t

\* The second factor changes with no renewal under way, and moves every token.
ChangesAlone ==
  /\ gesture # NoGesture => gesture.kind = "mfa" /\ gesture.pc \in {"bump", "look", "write"} /\ ~Busy
  /\ gesture.pc = "write" => gesture.seen = Visible
  /\ gesture.pc \notin {"look", "write"} => \A t \in Tokens : Born(t) => tok[t].ver = version

Fine ==
  Clean => /\ NewestIsHeld /\ ChangesAlone
           /\ \A t \in Tokens : ~tok[t].revoked
           /\ jar # None /\ stale <= jar
           /\ \A r \in Tabs : GoesWell(tab[r])

-----------------------------------------------------------------------------
(* What the steps do to the rows and to a renewal.                         *)

LEMMA Consts ==
  ASSUME SessionAssumption
  PROVE /\ None \notin Tokens /\ 0 \in Tokens /\ Tokens \subseteq Nat
        /\ Unborn \in Row /\ Idle \in Tab /\ NoGesture \in Gesture
  BY DEF SessionAssumption, None, Tokens, Unborn, Idle, NoGesture, Row, Tab, Gesture

\* The chain has one token that is not rotated, its end.
ChainTo(h) ==
  \A t \in Tokens :
    tok[t].st = IF t < h THEN "rotated" ELSE IF t = h THEN "live" ELSE "none"

Chain == \E h \in Tokens : ChainTo(h)

\* The rows are those of before, or further on: rotation and revocation are for ever.
Grows ==
  /\ tok' \in [Tokens -> Row] /\ Chain'
  /\ \A t \in Tokens :
       /\ Born(t) => Born(t)'
       /\ tok[t].st = "rotated" => tok'[t].st = "rotated"
       /\ Born(t) /\ tok[t].revoked => tok'[t].revoked

RestOK ==
  /\ stale \in 0..MaxTokens + 1 /\ version \in 0..MaxVersion
  /\ lapsed \in BOOLEAN /\ member \in BOOLEAN /\ gesture \in Gesture
  /\ ended \in {"no", "asked", "one", "all"}
  /\ missed \in BOOLEAN /\ behind \in BOOLEAN /\ crossed \in BOOLEAN

LEMMA TypeParts ==
  TypeOK <=> /\ tok \in [Tokens -> Row] /\ Chain /\ jar \in Tokens \cup {None}
             /\ tab \in [Tabs -> Tab] /\ RestOK
  BY DEF TypeOK, Chain, ChainTo, RestOK

LEMMA TypePrime ==
  ASSUME tok' \in [Tokens -> Row], Chain', jar' \in Tokens \cup {None},
         tab' \in [Tabs -> Tab], RestOK'
  PROVE TypeOK'
  BY DEF TypeOK, Chain, ChainTo, RestOK

LEMMA SameTok ==
  ASSUME TypeOK, tok' = tok
  PROVE Grows
  BY TypeParts DEF Grows, Chain, ChainTo, Born

\* Marking rows as revoked, or in another version, moves no token.
LEMMA SameChain ==
  ASSUME TypeOK, tok' \in [Tokens -> Row],
         \A t \in Tokens : tok'[t].st = tok[t].st /\ (tok[t].revoked => tok'[t].revoked)
  PROVE Grows
  BY TypeParts DEF Grows, Chain, ChainTo, Born

LEMMA RevokedRows ==
  ASSUME TypeOK, NEW seen, tok' = Revoked(seen)
  PROVE /\ Grows
        /\ \A t \in Tokens : /\ tok'[t].st = tok[t].st /\ tok'[t].ver = tok[t].ver
                             /\ tok'[t].revoked = (tok[t].revoked \/ t \in seen)
<1>1. tok \in [Tokens -> Row]
  BY TypeParts
<1>2. ASSUME NEW t \in Tokens
      PROVE /\ tok'[t] \in Row /\ tok'[t].st = tok[t].st /\ tok'[t].ver = tok[t].ver
            /\ tok'[t].revoked = (tok[t].revoked \/ t \in seen)
  <2>1. tok'[t] = IF t \in seen THEN [tok[t] EXCEPT !.revoked = TRUE] ELSE tok[t]
    BY DEF Revoked
  <2>2. tok[t] \in Row
    BY <1>1
  <2> QED
    BY <2>1, <2>2 DEF Row
<1>3. tok' \in [Tokens -> Row]
  BY <1>2 DEF Revoked
<1> QED
  BY <1>2, <1>3, SameChain

LEMMA AdoptedRows ==
  ASSUME TypeOK, NEW seen, tok' = Adopted(seen)
  PROVE /\ Grows
        /\ \A t \in Tokens :
             /\ tok'[t].st = tok[t].st /\ tok'[t].revoked = tok[t].revoked
             /\ tok'[t].ver = IF t \in seen /\ ~tok[t].revoked THEN gesture.ver ELSE tok[t].ver
<1>1. tok \in [Tokens -> Row] /\ gesture.ver \in 0..MaxVersion
  BY TypeParts DEF RestOK, Gesture
<1>2. ASSUME NEW t \in Tokens
      PROVE /\ tok'[t] \in Row /\ tok'[t].st = tok[t].st /\ tok'[t].revoked = tok[t].revoked
            /\ tok'[t].ver = IF t \in seen /\ ~tok[t].revoked THEN gesture.ver ELSE tok[t].ver
  <2>1. tok'[t] = IF t \in seen /\ ~tok[t].revoked THEN [tok[t] EXCEPT !.ver = gesture.ver]
                  ELSE tok[t]
    BY DEF Adopted
  <2>2. tok[t] \in Row
    BY <1>1
  <2> QED
    BY <1>1, <2>1, <2>2 DEF Row
<1>3. tok' \in [Tokens -> Row]
  BY <1>2 DEF Adopted
<1> QED
  BY <1>2, <1>3, SameChain

\* The newest token is rotated, and its successor is the newest.
LEMMA RotatedRows ==
  ASSUME SessionAssumption, TypeOK, NEW c \in Tokens, c < MaxTokens, tok[c].st = "live",
         NEW s \in Row, s.st = "live",
         tok' = [tok EXCEPT ![c].st = "rotated", ![c + 1] = s]
  PROVE /\ Grows /\ c + 1 \in Tokens
        /\ tok'[c + 1] = s
        /\ tok'[c].st = "rotated" /\ tok'[c].revoked = tok[c].revoked /\ tok'[c].ver = tok[c].ver
        /\ \A t \in Tokens \ {c, c + 1} : tok'[t] = tok[t]
<1>1. tok \in [Tokens -> Row] /\ Chain
  BY TypeParts
<1>2. c \in Nat /\ c + 1 \in Tokens /\ c # c + 1
  BY DEF Tokens, SessionAssumption
<1>3. tok'[c] = [tok[c] EXCEPT !.st = "rotated"] /\ tok'[c + 1] = s
  BY <1>1, <1>2
<1>4. \A t \in Tokens \ {c, c + 1} : tok'[t] = tok[t]
  BY <1>1, <1>2
<1>5. [tok[c] EXCEPT !.st = "rotated"] \in Row
  BY <1>1 DEF Row
<1>6. tok'[c].st = "rotated" /\ tok'[c].revoked = tok[c].revoked /\ tok'[c].ver = tok[c].ver
  BY <1>1, <1>3 DEF Row
<1>7. tok' \in [Tokens -> Row]
  BY <1>1, <1>5
<1>8. PICK h \in Tokens : ChainTo(h)
  BY <1>1 DEF Chain
<1>9. h = c
  BY <1>8, <1>2 DEF ChainTo, Tokens
<1>10. ChainTo(c + 1)'
  <2>1. SUFFICES ASSUME NEW t \in Tokens
                 PROVE tok'[t].st = IF t < c + 1 THEN "rotated"
                                    ELSE IF t = c + 1 THEN "live" ELSE "none"
    BY DEF ChainTo, Tokens
  <2>2. t \in Int /\ c \in Int
    BY Consts
  <2>3. CASE t = c
    BY <1>6, <2>2, <2>3
  <2>4. CASE t = c + 1
    BY <1>3, <2>2, <2>4
  <2>5. CASE t # c /\ t # c + 1
    <3>1. tok'[t] = tok[t]
      BY <1>4, <2>5
    <3>2. tok[t].st = IF t < c THEN "rotated" ELSE IF t = c THEN "live" ELSE "none"
      BY <1>8, <1>9 DEF ChainTo
    <3> QED
      BY <3>1, <3>2, <2>2, <2>5
  <2> QED
    BY <2>3, <2>4, <2>5
<1>11. Chain'
  BY <1>10, <1>2 DEF Chain, Tokens
<1>12. \A t \in Tokens :
         /\ Born(t) => Born(t)'
         /\ tok[t].st = "rotated" => tok'[t].st = "rotated"
         /\ Born(t) /\ tok[t].revoked => tok'[t].revoked
  <2>1. TAKE t \in Tokens
  <2>2. tok[c + 1].st = "none"
    BY <1>2, <1>8, <1>9, Consts DEF ChainTo
  <2>3. CASE t = c + 1
    BY <1>3, <2>2, <2>3 DEF Born
  <2>4. CASE t # c + 1
    BY <1>4, <1>6, <2>4 DEF Born
  <2> QED
    BY <2>3, <2>4
<1> QED
  BY <1>2, <1>3, <1>4, <1>6, <1>7, <1>11, <1>12 DEF Grows

LEMMA TabMoves ==
  ASSUME TypeOK, NEW r \in Tabs, NEW x \in Tab, Becomes(r, x)
  PROVE /\ tab' \in [Tabs -> Tab] /\ tab'[r] = x
        /\ \A q \in Tabs \ {r} : tab'[q] = tab[q]
  BY TypeParts DEF Becomes

\* What was known of the tokens is true of the rows further on.
LEMMA StillFits ==
  ASSUME SessionAssumption, TypeOK, Grows, NEW x \in Tab, Fits(x)
  PROVE Fits(x)'
<1>1. x.cur \in Tokens /\ x.out \in Tokens \cup {None}
  BY DEF Tab
<1> QED
  BY <1>1 DEF Fits, Grows, Born

-----------------------------------------------------------------------------
(* Shape: the type invariant, and what it takes to keep it.                *)

\* One renewal moves, to what fits the rows of the next state.
LEMMA TabStep ==
  ASSUME SessionAssumption, Shape, Grows, RestOK', BumpHasRoom',
         jar' \in Tokens \cup {None}, jar' # None => Born(jar)',
         NEW r \in Tabs, NEW x \in Tab, Becomes(r, x), Fits(x)'
  PROVE Shape'
<1>1. TypeOK /\ \A q \in Tabs : tab[q] \in Tab /\ Fits(tab[q])
  BY TypeParts DEF Shape, Known
<1>2. tab' \in [Tabs -> Tab] /\ tab'[r] = x /\ \A q \in Tabs \ {r} : tab'[q] = tab[q]
  BY <1>1, TabMoves
<1>3. TypeOK'
  BY <1>2, TypePrime DEF Grows
<1>4. ASSUME NEW q \in Tabs PROVE Fits(tab[q])'
  <2>1. CASE q = r
    BY <1>2, <2>1
  <2>2. CASE q # r
    <3>1. Fits(tab[q]) /\ tab[q] \in Tab
      BY <1>1
    <3>2. Fits(tab[q])' <=> /\ tok'[tab[q].cur].st # "none"
                            /\ tab[q].out # None => tok'[tab[q].out].st # "none" /\ tab[q].pc \in {"access", "answer"}
                            /\ tab[q].row.st = "rotated" => tok'[tab[q].cur].st = "rotated"
                            /\ tab[q].pc = "next" => tok'[tab[q].cur].st = "rotated"
                            /\ tab[q].pc = "reread" => tok'[tab[q].cur].st = "rotated" \/ tok'[tab[q].cur].revoked
      BY <1>2, <2>2 DEF Fits, Born
    <3>3. tab[q].cur \in Tokens /\ tab[q].out \in Tokens \cup {None}
      BY <3>1 DEF Tab
    <3> QED
      BY <3>1, <3>2, <3>3 DEF Fits, Grows, Born
  <2> QED
    BY <2>1, <2>2
<1> QED
  BY <1>3, <1>4 DEF Shape, Known, Born

\* No renewal moves.
LEMMA RestStep ==
  ASSUME SessionAssumption, Shape, Grows, RestOK', BumpHasRoom',
         jar' \in Tokens \cup {None}, jar' # None => Born(jar)', tab' = tab
  PROVE Shape'
<1>1. TypeOK /\ \A q \in Tabs : tab[q] \in Tab /\ Fits(tab[q])
  BY TypeParts DEF Shape, Known
<1>2. TypeOK'
  BY <1>1, TypeParts, TypePrime DEF Grows
<1>3. ASSUME NEW q \in Tabs PROVE Fits(tab[q])'
  <2>1. Fits(tab[q]) /\ tab[q].cur \in Tokens /\ tab[q].out \in Tokens \cup {None}
    BY <1>1 DEF Tab
  <2> QED
    BY <2>1 DEF Fits, Grows, Born
<1> QED
  BY <1>2, <1>3 DEF Shape, Known

LEMMA ShapeInit ==
  ASSUME SessionAssumption, Init
  PROVE Shape
<1>1. tok \in [Tokens -> Row] /\ jar \in Tokens \cup {None} /\ tab \in [Tabs -> Tab] /\ RestOK
  <2>1. Unborn \in Row /\ [Unborn EXCEPT !.st = "live"] \in Row
    BY Consts DEF Unborn, Row
  <2>2. tok \in [Tokens -> Row]
    BY <2>1 DEF Init
  <2>3. /\ stale = 0 /\ version = 0 /\ lapsed = FALSE /\ member = TRUE /\ gesture = NoGesture
        /\ ended = "no" /\ missed = FALSE /\ behind = FALSE /\ crossed = FALSE
    BY DEF Init
  <2>4. RestOK
    <3>1. 0 \in 0..MaxTokens + 1 /\ 0 \in 0..MaxVersion
      BY DEF SessionAssumption
    <3> QED
      BY <2>3, <3>1, Consts DEF RestOK
  <2> QED
    BY <2>2, <2>4, Consts DEF Init
<1>2. ChainTo(0)
  BY Consts DEF Init, ChainTo, Unborn
<1>3. Known
  BY Consts DEF Init, Known, Fits, Born, Idle, Unborn
<1> QED
  BY <1>1, <1>2, <1>3, Consts, TypeParts DEF Shape, Chain, BumpHasRoom, Init, NoGesture

\* The first token is of the chain.
LEMMA FirstBorn ==
  ASSUME SessionAssumption, TypeOK
  PROVE Born(0)
<1>1. PICK h \in Tokens : ChainTo(h)
  BY TypeParts DEF Chain
<1> QED
  BY <1>1, Consts DEF ChainTo, Born

\* A token whose successor exists is rotated, and a rotated token has a successor.
LEMMA Links ==
  ASSUME SessionAssumption, TypeOK, NEW t \in Tokens, tok[t].st = "rotated"
  PROVE t + 1 \in Tokens /\ Born(t + 1)
<1>1. PICK h \in Tokens : ChainTo(h)
  BY TypeParts DEF Chain
<1>2. t < h /\ t \in Nat /\ h \in Nat
  BY <1>1, Consts DEF ChainTo
<1>3. t + 1 \in Tokens /\ t + 1 <= h
  BY <1>2 DEF Tokens, SessionAssumption
<1> QED
  BY <1>1, <1>2, <1>3 DEF ChainTo, Born

\* What a renewal becomes when it refuses, revokes, rests or answers fits any rows.
LEMMA Ends ==
  ASSUME SessionAssumption, TypeOK
  PROVE /\ \A s \in {"answer", "look", "idle"} :
             [Idle EXCEPT !.pc = s] \in Tab /\ Fits([Idle EXCEPT !.pc = s])
        /\ Fits(Idle) /\ Idle \in Tab
        /\ \A t \in Tokens : Born(t) =>
             /\ [Idle EXCEPT !.pc = "access", !.out = t] \in Tab
             /\ Fits([Idle EXCEPT !.pc = "access", !.out = t])
        /\ \A t \in Tokens : Born(t) =>
             /\ [Idle EXCEPT !.pc = "find", !.cur = t] \in Tab
             /\ Fits([Idle EXCEPT !.pc = "find", !.cur = t])
        /\ \A t \in Tokens : tok[t].st = "rotated" =>
             /\ [Idle EXCEPT !.pc = "next", !.cur = t] \in Tab
             /\ Fits([Idle EXCEPT !.pc = "next", !.cur = t])
  BY Consts, FirstBorn DEF Idle, Tab, Fits, Born, Unborn, SessionAssumption

\* A renewal's step that leaves the rows, the person and the gesture alone.
LEMMA QuietStep ==
  ASSUME SessionAssumption, Shape, NEW r \in Tabs, NEW x \in Tab, Becomes(r, x), Fits(x),
         UNCHANGED <<tok, version, jar, gesture, ended, missed, world>>,
         behind' \in BOOLEAN, crossed' \in BOOLEAN
  PROVE Shape'
<1>1. Grows
  BY SameTok DEF Shape
<1>2. RestOK' /\ BumpHasRoom'
  BY TypeParts DEF Shape, RestOK, BumpHasRoom, world
<1>3. jar' \in Tokens \cup {None} /\ (jar' # None => Born(jar)')
  BY TypeParts DEF Shape, Known, Born
<1>4. Fits(x)'
  BY DEF Fits, Born
<1> QED
  BY <1>1, <1>2, <1>3, <1>4, TabStep

LEMMA RenewKeepsShape ==
  ASSUME SessionAssumption, Shape, NEW r \in Tabs, Renew(r)
  PROVE Shape'
<1> DEFINE x == tab[r]
<1>1. /\ TypeOK /\ x \in Tab /\ Fits(x) /\ tok \in [Tokens -> Row] /\ RestOK
      /\ x.cur \in Tokens /\ tok[x.cur] \in Row /\ Born(x.cur)
  BY TypeParts DEF Shape, Known, Tab, Fits
<1>2. CASE Send(r)
  <2>1. jar \in Tokens /\ Born(jar)
    BY <1>1, <1>2, TypeParts DEF Send, Shape, Known
  <2>2. crossed' \in BOOLEAN /\ behind' \in BOOLEAN
    BY <1>1, <1>2 DEF Send, RestOK
  <2> QED
    BY <1>1, <1>2, <2>1, <2>2, Ends, QuietStep DEF Send, Goes
<1>3. CASE Find(r)
  <2> DEFINE y == [x EXCEPT !.pc = "user", !.row = tok[x.cur]]
  <2>1. y \in Tab /\ Fits(y)
    BY <1>1, <1>3 DEF Find, Tab, Fits
  <2> QED
    BY <1>1, <1>3, <2>1, QuietStep DEF Find, ghosts, RestOK
<1>4. CASE ReadUser(r)
  <2> DEFINE y == [x EXCEPT !.pc = "try", !.since = stale]
  <2>1. x.row.st = "rotated" => tok[x.cur].st = "rotated"
    BY <1>1 DEF Fits
  <2>2. y \in Tab /\ Fits(y)
    BY <1>1, <1>4 DEF ReadUser, Tab, Fits, RestOK
  <2>3. UNCHANGED <<tok, version, jar, gesture, ghosts, world>>
    BY <1>4 DEF ReadUser
  <2>4. Becomes(r, y) \/ Refuses(r) \/ Revokes(r)
          \/ (x.row.st = "rotated" /\ Goes(r, "next", x.cur))
    BY <1>4 DEF ReadUser
  <2>5. \E z \in Tab : Becomes(r, z) /\ Fits(z)
    BY <1>1, <2>1, <2>2, <2>4, Ends DEF Refuses, Revokes, Goes
  <2> QED
    BY <1>1, <2>3, <2>5, QuietStep DEF ghosts, RestOK
<1>5. CASE Rotate(r)
  <2> DEFINE y == [x EXCEPT !.pc = "reread", !.row = Unborn]
  <2>1. CASE Rotatable(r)
    <3>1. /\ x.cur < MaxTokens /\ tok[x.cur].st = "live"
          /\ tok' = [tok EXCEPT ![x.cur].st = "rotated", ![x.cur + 1] = Successor(r)]
          /\ Accepts(r, x.cur + 1)
          /\ UNCHANGED <<version, jar, gesture, ghosts, world>>
      BY <1>5, <2>1 DEF Rotate, Rotatable
    <3>2. Successor(r) \in Row /\ Successor(r).st = "live"
      BY <1>1 DEF Successor, Tab, Row, Unborn
    <3>3. Grows /\ x.cur + 1 \in Tokens /\ tok'[x.cur + 1].st = "live"
      BY <1>1, <3>1, <3>2, RotatedRows
    <3>4. PICK c \in Tokens : c = x.cur + 1
      BY <3>3
    <3>5. /\ [Idle EXCEPT !.pc = "access", !.out = c] \in Tab
          /\ Fits([Idle EXCEPT !.pc = "access", !.out = c])'
      <4>1. Born(0)' /\ Born(c)'
        BY <1>1, <3>3, <3>4, FirstBorn, Consts DEF Grows, Born
      <4> QED
        BY <4>1, Consts DEF Idle, Tab, Unborn, Fits, Born
    <3>6. RestOK' /\ BumpHasRoom' /\ jar' \in Tokens \cup {None}
      BY <1>1, <3>1, TypeParts DEF RestOK, Shape, BumpHasRoom, ghosts, world
    <3>7. jar' # None => Born(jar)'
      BY <3>1, <3>3, <3>6 DEF Shape, Known, Grows, Born
    <3> QED
      BY <3>1, <3>3, <3>4, <3>5, <3>6, <3>7, TabStep DEF Accepts
  <2>2. CASE ~Rotatable(r)
    <3>1. x.pc = "try" /\ Becomes(r, y) /\ UNCHANGED <<tok, version, jar, gesture, ghosts, world>>
      BY <1>5, <2>2 DEF Rotate
    <3>2. tok[x.cur].st = "rotated" \/ tok[x.cur].revoked
      BY <1>1, <2>2 DEF Rotatable, Born, Row
    <3>3. y \in Tab /\ Fits(y)
      BY <1>1, <3>1, <3>2, Consts DEF Tab, Fits, Unborn, Born
    <3> QED
      BY <1>1, <3>1, <3>3, QuietStep DEF ghosts, RestOK
  <2> QED
    BY <2>1, <2>2
<1>6. CASE Reread(r)
  <2>1. tok[x.cur].st = "rotated" \/ tok[x.cur].revoked
    BY <1>1, <1>6 DEF Reread, Judged, Fits
  <2>2. Refuses(r) \/ Revokes(r) \/ (tok[x.cur].st = "rotated" /\ Goes(r, "next", x.cur))
    BY <1>6, <2>1 DEF Reread, Judged
  <2>3. \E z \in Tab : Becomes(r, z) /\ Fits(z)
    BY <1>1, <2>2, Ends DEF Refuses, Revokes, Goes
  <2> QED
    BY <1>1, <1>6, <2>3, QuietStep DEF Reread, ghosts, RestOK
<1>7. CASE Follow(r)
  <2> DEFINE y == [x EXCEPT !.cur = x.cur + 1, !.hop = @ + 1]
  <2>1. x.pc = "next" /\ tok[x.cur].st = "rotated"
    BY <1>1, <1>7 DEF Follow, Fits
  <2>2. x.cur + 1 \in Tokens /\ Born(x.cur + 1)
    BY <1>1, <2>1, Links
  <2>3. \/ Refuses(r) \/ Revokes(r) \/ Accepts(r, x.cur + 1)
        \/ tok[x.cur + 1].st = "rotated" /\ ~(x.hop + 1 >= MaxHops) /\ Becomes(r, y)
    BY <1>7 DEF Follow
  <2>4. ASSUME tok[x.cur + 1].st = "rotated", ~(x.hop + 1 >= MaxHops)
        PROVE y \in Tab /\ Fits(y)
    <3>1. x.hop + 1 \in 0..MaxHops
      BY <1>1, <2>4 DEF Tab, SessionAssumption
    <3> QED
      BY <1>1, <2>1, <2>2, <2>4, <3>1 DEF Tab, Fits, Born
  <2>5. \E z \in Tab : Becomes(r, z) /\ Fits(z)
    BY <1>1, <2>2, <2>3, <2>4, Ends DEF Refuses, Revokes, Accepts
  <2>6. behind' \in BOOLEAN /\ crossed' \in BOOLEAN
        /\ UNCHANGED <<tok, version, jar, gesture, ended, missed, world>>
    BY <1>1, <1>7 DEF Follow, RestOK
  <2> QED
    BY <1>1, <2>5, <2>6, QuietStep
<1>8. CASE Access(r)
  <2> DEFINE y == [x EXCEPT !.pc = "answer"]
  <2>1. y \in Tab /\ Fits(y)
    BY <1>1, <1>8 DEF Access, Tab, Fits
  <2>2. \E z \in Tab : Becomes(r, z) /\ Fits(z)
    BY <1>1, <1>8, <2>1, Ends DEF Access, Revokes
  <2> QED
    BY <1>1, <1>8, <2>2, QuietStep DEF Access, ghosts, RestOK
<1>9. CASE RevokeLook(r)
  <2> DEFINE y == [x EXCEPT !.pc = "write", !.seen = Visible]
  <2>1. y \in Tab /\ Fits(y)
    BY <1>1, <1>9 DEF RevokeLook, Visible, Tab, Fits
  <2> QED
    BY <1>1, <1>9, <2>1, QuietStep DEF RevokeLook, ghosts, RestOK
<1>10. CASE RevokeWrite(r)
  <2>1. Grows /\ UNCHANGED <<version, jar, gesture, ghosts, world>> /\ Refuses(r)
    BY <1>1, <1>10, RevokedRows DEF RevokeWrite
  <2>2. [Idle EXCEPT !.pc = "answer"] \in Tab /\ Fits([Idle EXCEPT !.pc = "answer"])
    BY <1>1, Ends
  <2>3. Fits([Idle EXCEPT !.pc = "answer"])'
    BY <1>1, <2>1, <2>2, StillFits
  <2>4. RestOK' /\ BumpHasRoom' /\ jar' \in Tokens \cup {None}
    BY <1>1, <2>1, TypeParts DEF RestOK, Shape, BumpHasRoom, ghosts, world
  <2>5. jar' # None => Born(jar)'
    BY <2>1, <2>4, TypeParts DEF Shape, Known, Grows, Born
  <2> QED
    BY <2>1, <2>2, <2>3, <2>4, <2>5, TabStep DEF Refuses
<1>11. CASE Arrive(r)
  <2>1. Grows /\ RestOK' /\ BumpHasRoom'
    BY <1>1, <1>11, SameTok DEF Arrive, RestOK, Shape, BumpHasRoom, world
  <2>2. jar' \in Tokens \cup {None} /\ (jar' # None => Born(jar)')
    BY <1>1, <1>11 DEF Arrive, Fits, Tab, Born
  <2>3. Fits(Idle)'
    BY <1>1, <2>1, Ends, StillFits
  <2> QED
    BY <1>1, <1>11, <2>1, <2>2, <2>3, Ends, TabStep DEF Arrive
<1>12. CASE Drop(r)
  BY <1>1, <1>12, Ends, QuietStep DEF Drop, RestOK
<1> QED
  BY <1>2, <1>3, <1>4, <1>5, <1>6, <1>7, <1>8, <1>9, <1>10, <1>11, <1>12 DEF Renew

LEMMA PersonKeepsShape ==
  ASSUME SessionAssumption, Shape, Person \/ GracePasses \/ Lapse \/ Leave
  PROVE Shape'
<1>1. TypeOK /\ RestOK /\ jar \in Tokens \cup {None} /\ (jar # None => Born(jar))
  BY TypeParts DEF Shape, Known
<1>2. ASSUME Grows, RestOK', BumpHasRoom', tab' = tab, jar' = jar \/ jar' = None PROVE Shape'
  <2>1. jar' \in Tokens \cup {None} /\ (jar' # None => Born(jar)')
    BY <1>1, <1>2 DEF Grows, Born
  <2> QED
    BY <1>2, <2>1, RestStep
<1>3. tok' = tok => Grows
  BY <1>1, SameTok
<1>4. gesture.ver \in 0..MaxVersion /\ version \in 0..MaxVersion /\ MaxVersion \in Nat
  BY <1>1 DEF RestOK, Gesture, SessionAssumption
<1>5. NoGesture \in Gesture /\ NoGesture.pc = "idle"
  BY Consts DEF NoGesture
<1>6. CASE Logout
  BY <1>1, <1>2, <1>3, <1>5, <1>6 DEF Logout, Begin, SignsOut, RestOK, BumpHasRoom, Gesture, world
<1>7. CASE LogoutAll
  BY <1>1, <1>2, <1>3, <1>5, <1>7 DEF LogoutAll, Begin, SignsOut, RestOK, BumpHasRoom, Gesture, world
<1>8. CASE ChangeFactor
  BY <1>1, <1>2, <1>3, <1>5, <1>8 DEF ChangeFactor, Begin, RestOK, BumpHasRoom, Gesture, world, Busy
<1>9. CASE Bump
  <2>1. version < MaxVersion
    BY <1>9 DEF Bump, Shape, BumpHasRoom
  <2>2. version' \in 0..MaxVersion /\ gesture' \in Gesture /\ gesture'.pc = "look"
    <3>1. version + 1 \in 0..MaxVersion
      BY <1>4, <2>1
    <3>2. gesture \in Gesture /\ version' = version + 1
          /\ gesture' = [gesture EXCEPT !.pc = "look", !.ver = version + 1]
      BY <1>1, <1>9 DEF Bump, RestOK
    <3> QED
      BY <3>1, <3>2 DEF Gesture
  <2> QED
    BY <1>1, <1>2, <1>3, <1>9, <2>2 DEF Bump, RestOK, BumpHasRoom, ghosts, world
<1>10. CASE Look
  BY <1>1, <1>2, <1>3, <1>10 DEF Look, Visible, RestOK, BumpHasRoom, Gesture, ghosts, world
<1>11. CASE End
  <2>1. Grows
    BY <1>1, <1>11, RevokedRows DEF End
  <2>2. gesture' \in Gesture /\ gesture'.pc = "answer" /\ ended' \in {"no", "asked", "one", "all"}
    BY <1>1, <1>5, <1>11 DEF End, RestOK, Gesture
  <2>3. missed' \in BOOLEAN
    BY <1>1, <1>11 DEF End, RestOK
  <2> QED
    BY <1>1, <1>2, <1>11, <2>1, <2>2, <2>3 DEF End, RestOK, BumpHasRoom, world
<1>12. CASE SignedOut
  BY <1>1, <1>2, <1>3, <1>5, <1>12 DEF SignedOut, RestOK, BumpHasRoom, ghosts, world
<1>13. CASE Adopt
  BY <1>1, <1>2, <1>5, <1>13, AdoptedRows DEF Adopt, RestOK, BumpHasRoom, ghosts, world
<1>14. CASE Fails
  BY <1>1, <1>2, <1>3, <1>5, <1>14 DEF Fails, RestOK, BumpHasRoom, world
<1>15. CASE GracePasses
  <2>1. stale' \in 0..MaxTokens + 1
    BY <1>1, <1>15 DEF GracePasses, RestOK, SessionAssumption
  <2>2. behind' \in BOOLEAN
    BY <1>1, <1>15 DEF GracePasses, RestOK
  <2> QED
    BY <1>1, <1>2, <1>3, <1>15, <2>1, <2>2 DEF GracePasses, RestOK, Shape, BumpHasRoom
<1>16. CASE Lapse \/ Leave
  BY <1>1, <1>2, <1>3, <1>16 DEF Lapse, Leave, RestOK, Shape, BumpHasRoom, ghosts
<1> QED
  BY <1>6, <1>7, <1>8, <1>9, <1>10, <1>11, <1>12, <1>13, <1>14, <1>15, <1>16 DEF Person

LEMMA ShapeNext ==
  ASSUME SessionAssumption, Shape, [Next]_vars
  PROVE Shape'
<1>1. CASE Next
  BY <1>1, RenewKeepsShape, PersonKeepsShape DEF Next
<1>2. CASE UNCHANGED vars
  <2>1. tok' = tok /\ tab' = tab /\ jar' = jar /\ gesture' = gesture /\ version' = version
        /\ RestOK'
    BY <1>2, TypeParts DEF vars, Shape, RestOK
  <2> QED
    BY <2>1, SameTok, TypeParts, RestStep DEF Shape, Known, BumpHasRoom, Born
<1> QED
  BY <1>1, <1>2

\* A family is a chain with one token that is not rotated, whatever renewals overlap.
THEOREM TypeCorrect == Spec => []TypeOK
<1>1. Init => Shape
  BY SessionAssumption, ShapeInit
<1>2. Shape /\ [Next]_vars => Shape'
  BY SessionAssumption, ShapeNext
<1>3. Shape => TypeOK
  BY DEF Shape
<1> QED
  BY <1>1, <1>2, <1>3, PTL DEF Spec

-----------------------------------------------------------------------------
(* Signing out.                                                            *)

\* A step writes the rows in four ways.
LEMMA RowWrites ==
  ASSUME SessionAssumption, Shape, [Next]_vars
  PROVE \/ tok' = tok
        \/ \E r \in Tabs : Rotate(r) /\ Rotatable(r)
        \/ \E r \in Tabs : RevokeWrite(r)
        \/ End
        \/ Adopt
<1>1. ASSUME NEW r \in Tabs, Renew(r)
      PROVE tok' = tok \/ (Rotate(r) /\ Rotatable(r)) \/ RevokeWrite(r)
  BY <1>1 DEF Renew, Send, Find, ReadUser, Rotate, Reread, Follow, Access, RevokeLook, Arrive, Drop
<1>2. Person => tok' = tok \/ End \/ Adopt
  BY DEF Person, Logout, LogoutAll, ChangeFactor, Begin, Bump, Look, SignedOut, Fails
<1>3. GracePasses \/ Lapse \/ Leave => tok' = tok
  BY DEF GracePasses, Lapse, Leave
<1> QED
  BY <1>1, <1>2, <1>3 DEF Next, vars

LEMMA EndedNext ==
  ASSUME SessionAssumption, Shape, EndedStaysEnded, [Next]_vars
  PROVE EndedStaysEnded'
<1>1. SUFFICES ASSUME ended' \in {"one", "all"}, ~missed', NEW t \in Tokens
               PROVE ~Alive(t)'
  BY DEF EndedStaysEnded
<1>2. TypeOK /\ missed \in BOOLEAN /\ tok \in [Tokens -> Row] /\ tab \in [Tabs -> Tab]
  BY TypeParts DEF Shape, RestOK
<1>3. CASE End
  <2>1. t \notin gesture.seen => ~Alive(t)
    BY <1>1, <1>2, <1>3 DEF End
  <2>2. tok'[t].st = tok[t].st /\ tok'[t].revoked = (tok[t].revoked \/ t \in gesture.seen)
    BY <1>2, <1>3, RevokedRows DEF End
  <2> QED
    BY <2>1, <2>2 DEF Alive
<1>4. CASE ~End
  <2>1. ended \in {"one", "all"} /\ ~missed
    <3>1. ASSUME NEW r \in Tabs, Renew(r) PROVE ended' = ended /\ missed' = missed
      BY <3>1 DEF Renew, Send, Find, ReadUser, Rotate, Reread, Follow, Access, RevokeLook,
                  RevokeWrite, Arrive, Drop, ghosts
    <3>2. Person => missed' = missed /\ (ended' = ended \/ ended' = "asked")
      BY <1>4 DEF Person, Logout, LogoutAll, ChangeFactor, Begin, SignsOut, Bump, Look, SignedOut,
                  Adopt, Fails, ghosts
    <3>3. GracePasses \/ Lapse \/ Leave \/ UNCHANGED vars => ended' = ended /\ missed' = missed
      BY DEF GracePasses, Lapse, Leave, vars, ghosts
    <3> QED
      BY <1>1, <3>1, <3>2, <3>3 DEF Next
  <2>2. \A u \in Tokens : ~Alive(u)
    BY <2>1 DEF EndedStaysEnded
  <2>3. ASSUME NEW r \in Tabs PROVE ~Rotatable(r)
    <3>1. tab[r].cur \in Tokens
      BY <1>2 DEF Tab
    <3> QED
      BY <2>2, <3>1 DEF Rotatable, Alive
  <2>4. CASE tok' = tok
    BY <2>2, <2>4 DEF Alive
  <2>5. ASSUME NEW r \in Tabs, RevokeWrite(r) PROVE ~Alive(t)'
    <3>1. tok'[t].st = tok[t].st /\ tok'[t].revoked = (tok[t].revoked \/ t \in tab[r].seen)
      BY <1>2, <2>5, RevokedRows DEF RevokeWrite
    <3> QED
      BY <2>2, <3>1 DEF Alive
  <2>6. CASE Adopt
    <3>1. tok'[t].st = tok[t].st /\ tok'[t].revoked = tok[t].revoked
      BY <1>2, <2>6, AdoptedRows DEF Adopt
    <3> QED
      BY <2>2, <3>1 DEF Alive
  <2> QED
    BY <1>4, <2>3, <2>4, <2>5, <2>6, RowWrites
<1> QED
  BY <1>3, <1>4

\* "Sair" and "Encerrar": a renewal under way does not bring an ended session back.
THEOREM EndedStaysEndedAlways == Spec => []EndedStaysEnded
<1>1. Init => Shape /\ EndedStaysEnded
  BY SessionAssumption, ShapeInit DEF Init, EndedStaysEnded
<1>2. Shape /\ EndedStaysEnded /\ [Next]_vars => (Shape /\ EndedStaysEnded)'
  BY SessionAssumption, ShapeNext, EndedNext
<1> QED
  BY <1>1, <1>2, PTL DEF Spec

\* A renewal makes no token, and reads none, newer than the newest there is.
LEMMA RenewOlder ==
  ASSUME SessionAssumption, Shape, NEW r \in Tabs, Renew(r), NEW b \in Nat,
         \A t \in Tokens : tok[t].ver <= b,
         \A q \in Tabs : tab[q].row.ver <= b
  PROVE /\ \A t \in Tokens : tok'[t].ver <= b
        /\ \A q \in Tabs : tab'[q].row.ver <= b
<1>1. TypeOK /\ tok \in [Tokens -> Row] /\ tab \in [Tabs -> Tab] /\ tab[r] \in Tab
      /\ tab[r].cur \in Tokens
  BY TypeParts DEF Shape, Tab
<1>2. \A q \in Tabs \ {r} : tab'[q] = tab[q]
  BY <1>1 DEF Renew, Send, Find, ReadUser, Rotate, Reread, Judged, Follow, Access, RevokeLook,
              RevokeWrite, Arrive, Drop, Becomes, Goes, Refuses, Revokes, Accepts
<1>3. tab'[r].row \in {Unborn, tab[r].row, tok[tab[r].cur]}
  <2>1. Refuses(r) \/ Revokes(r) \/ Becomes(r, Idle) => tab'[r].row = Unborn
    BY <1>1 DEF Refuses, Revokes, Becomes, Idle
  <2>2. ASSUME NEW s, NEW t, Goes(r, s, t) PROVE tab'[r].row = Unborn
    BY <1>1, <2>2 DEF Goes, Becomes, Idle
  <2>3. ASSUME NEW t, Accepts(r, t) PROVE tab'[r].row = Unborn
    BY <1>1, <2>3 DEF Accepts, Becomes, Idle
  <2>4. CASE Send(r) \/ Reread(r) \/ RevokeWrite(r) \/ Arrive(r) \/ Drop(r)
    BY <2>1, <2>2, <2>4 DEF Send, Reread, Judged, RevokeWrite, Arrive, Drop
  <2>5. CASE Find(r)
    <3> DEFINE y == [tab[r] EXCEPT !.pc = "user", !.row = tok[tab[r].cur]]
    <3>1. Becomes(r, y) /\ y.row = tok[tab[r].cur]
      BY <1>1, <2>5 DEF Find, Tab
    <3> QED
      BY <1>1, <3>1 DEF Becomes
  <2>6. CASE RevokeLook(r)
    <3> DEFINE y == [tab[r] EXCEPT !.pc = "write", !.seen = Visible]
    <3>1. Becomes(r, y) /\ y.row = tab[r].row
      BY <1>1, <2>6 DEF RevokeLook, Tab
    <3> QED
      BY <1>1, <3>1 DEF Becomes
  <2>7. CASE Access(r)
    <3> DEFINE y == [tab[r] EXCEPT !.pc = "answer"]
    <3>1. (Becomes(r, y) \/ Revokes(r)) /\ y.row = tab[r].row
      BY <1>1, <2>7 DEF Access, Tab
    <3> QED
      BY <1>1, <2>1, <3>1 DEF Becomes
  <2>8. CASE ReadUser(r)
    <3> DEFINE y == [tab[r] EXCEPT !.pc = "try", !.since = stale]
    <3>1. Becomes(r, y) \/ Refuses(r) \/ Revokes(r) \/ Goes(r, "next", tab[r].cur)
      BY <2>8 DEF ReadUser
    <3>2. y.row = tab[r].row
      BY <1>1 DEF Tab
    <3> QED
      BY <1>1, <2>1, <2>2, <3>1, <3>2 DEF Becomes
  <2>9. CASE Rotate(r)
    <3> DEFINE y == [tab[r] EXCEPT !.pc = "reread", !.row = Unborn]
    <3>1. Becomes(r, y) \/ Accepts(r, tab[r].cur + 1)
      BY <2>9 DEF Rotate
    <3>2. y.row = Unborn
      BY <1>1 DEF Tab
    <3> QED
      BY <1>1, <2>3, <3>1, <3>2 DEF Becomes
  <2>10. CASE Follow(r)
    <3> DEFINE y == [tab[r] EXCEPT !.cur = tab[r].cur + 1, !.hop = @ + 1]
    <3>1. Becomes(r, y) \/ Refuses(r) \/ Revokes(r) \/ Accepts(r, tab[r].cur + 1)
      BY <2>10 DEF Follow
    <3>2. y.row = tab[r].row
      BY <1>1 DEF Tab
    <3> QED
      BY <1>1, <2>1, <2>3, <3>1, <3>2 DEF Becomes
  <2> QED
    BY <2>4, <2>5, <2>6, <2>7, <2>8, <2>9, <2>10 DEF Renew
<1>4. Unborn.ver <= b
  BY DEF Unborn
<1>5. \A q \in Tabs : tab'[q].row.ver <= b
  BY <1>1, <1>2, <1>3, <1>4
<1>6. ASSUME Rotate(r), Rotatable(r) PROVE \A t \in Tokens : tok'[t].ver <= b
  <2>1. PICK c \in Tokens : c = tab[r].cur
    BY <1>1
  <2>2. Successor(r) \in Row /\ Successor(r).st = "live" /\ Successor(r).ver = tab[r].row.ver
    BY <1>1 DEF Successor, Tab, Row, Unborn
  <2>3. c < MaxTokens /\ tok[c].st = "live"
        /\ tok' = [tok EXCEPT ![c].st = "rotated", ![c + 1] = Successor(r)]
    BY <1>6, <2>1 DEF Rotate, Rotatable
  <2>4. /\ tok'[c].ver = tok[c].ver /\ tok'[c + 1] = Successor(r)
        /\ \A t \in Tokens \ {c, c + 1} : tok'[t] = tok[t]
    BY <1>1, <2>2, <2>3, RotatedRows
  <2> QED
    BY <2>2, <2>4
<1>7. ASSUME RevokeWrite(r) PROVE \A t \in Tokens : tok'[t].ver <= b
  BY <1>1, <1>7, RevokedRows DEF RevokeWrite
<1>8. tok' = tok \/ (Rotate(r) /\ Rotatable(r)) \/ RevokeWrite(r)
  BY DEF Renew, Send, Find, ReadUser, Rotate, Reread, Follow, Access, RevokeLook, Arrive, Drop
<1> QED
  BY <1>5, <1>6, <1>7, <1>8

LEMMA VersionsNext ==
  ASSUME SessionAssumption, Shape, Versions, Outdated, [Next]_vars
  PROVE Versions' /\ Outdated'
<1>1. /\ TypeOK /\ tok \in [Tokens -> Row] /\ tab \in [Tabs -> Tab] /\ gesture \in Gesture
      /\ version \in Nat /\ 0 \in Tokens
      /\ \A t \in Tokens : tok[t].ver \in Nat
      /\ \A q \in Tabs : tab[q].row.ver \in Nat
  BY TypeParts, Consts DEF Shape, RestOK, Row, Tab
<1>2. ASSUME NEW r \in Tabs, Renew(r) PROVE Versions' /\ Outdated'
  <2>1. version' = version /\ gesture' = gesture /\ ended' = ended
    BY <1>2 DEF Renew, Send, Find, ReadUser, Rotate, Reread, Follow, Access, RevokeLook,
                RevokeWrite, Arrive, Drop, ghosts
  <2>2. Versions'
    BY <1>1, <1>2, <2>1, RenewOlder DEF Versions
  <2>3. ASSUME Left
        PROVE /\ \A t \in Tokens : tok'[t].ver < version
              /\ \A q \in Tabs : tab'[q].row.ver < version
    <3>1. version - 1 \in Nat
      BY <1>1, <2>3 DEF Outdated
    <3>2. /\ \A t \in Tokens : tok[t].ver <= version - 1
          /\ \A q \in Tabs : tab[q].row.ver <= version - 1
      BY <1>1, <2>3 DEF Outdated
    <3>3. /\ \A t \in Tokens : tok'[t].ver <= version - 1
          /\ \A q \in Tabs : tab'[q].row.ver <= version - 1
      BY <1>2, <3>1, <3>2, RenewOlder
    <3>4. tok' \in [Tokens -> Row] /\ tab' \in [Tabs -> Tab]
      BY <1>2, RenewKeepsShape, TypeParts DEF Shape, TypeOK
    <3>5. (\A t \in Tokens : tok'[t].ver \in Nat) /\ \A q \in Tabs : tab'[q].row.ver \in Nat
      BY <3>4 DEF Row, Tab
    <3> QED
      BY <1>1, <3>3, <3>5
  <2> QED
    BY <2>1, <2>2, <2>3 DEF Outdated, Left
<1>3. CASE Bump
  BY <1>1, <1>3 DEF Bump, ghosts, Versions, Outdated, Left, Gesture
<1>4. CASE End
  <2>1. \A t \in Tokens : tok'[t].ver = tok[t].ver
    BY <1>1, <1>4, RevokedRows DEF End
  <2>2. UNCHANGED <<version, tab>> /\ gesture'.kind # "mfa" /\ (Left' => Left)
    BY <1>1, <1>4 DEF End, NoGesture, Left, Gesture
  <2> QED
    BY <2>1, <2>2 DEF Versions, Outdated
<1>5. CASE Adopt
  <2>1. ~Left /\ gesture.ver = version
    BY <1>5 DEF Adopt, Versions, Outdated
  <2>2. UNCHANGED <<version, tab, ended>> /\ gesture' = NoGesture
    BY <1>5 DEF Adopt, ghosts
  <2>3. \A t \in Tokens : tok'[t].ver <= version
    BY <1>1, <1>5, <2>1, AdoptedRows DEF Adopt, Versions
  <2>4. ~Left'
    BY <2>1, <2>2 DEF Left, NoGesture
  <2> QED
    BY <2>2, <2>3, <2>4 DEF Versions, Outdated, NoGesture
<1>6. CASE ChangeFactor
  <2>1. ~Left
    BY <1>1, <1>6 DEF ChangeFactor, Outdated
  <2>2. UNCHANGED <<tok, version, tab, ended>> /\ gesture'.kind = "mfa" /\ gesture'.pc = "bump"
    BY <1>6 DEF ChangeFactor, Begin, NoGesture
  <2> QED
    BY <2>1, <2>2 DEF Versions, Outdated, Left
<1>7. CASE Logout \/ LogoutAll
  BY <1>7 DEF Logout, LogoutAll, Begin, SignsOut, NoGesture, Versions, Outdated, Left
<1>8. CASE Look
  <2>1. UNCHANGED <<tok, version, tab, ended>> /\ gesture.pc = "look" /\ gesture'.pc = "write"
        /\ gesture'.kind = gesture.kind /\ gesture'.ver = gesture.ver
    BY <1>1, <1>8 DEF Look, Gesture, ghosts
  <2> QED
    BY <2>1 DEF Versions, Outdated, Left
<1>9. CASE SignedOut \/ Fails
  BY <1>9 DEF SignedOut, Fails, NoGesture, ghosts, Versions, Outdated, Left
<1>10. CASE GracePasses \/ Lapse \/ Leave \/ UNCHANGED vars
  BY <1>10 DEF GracePasses, Lapse, Leave, vars, ghosts, Versions, Outdated, Left
<1> QED
  BY <1>2, <1>3, <1>4, <1>5, <1>6, <1>7, <1>8, <1>9, <1>10 DEF Next, Person

\* "Sair de todos": what escapes the revocation is of a version nobody renews any more.
THEOREM AllOutAlways == Spec => []AllOut
<1> DEFINE I == Shape /\ Versions /\ Outdated
<1>1. Init => I
  <2>1. SUFFICES ASSUME Init PROVE I
    OBVIOUS
  <2>2. version = 0 /\ ended = "no" /\ gesture.kind = "none"
    BY <2>1 DEF Init, NoGesture
  <2>3. \A t \in Tokens : tok[t].ver = 0
    BY <2>1 DEF Init, Unborn
  <2>4. \A r \in Tabs : tab[r].row.ver = 0
    BY <2>1 DEF Init, Idle, Unborn
  <2>5. Shape
    BY <2>1, SessionAssumption, ShapeInit
  <2> QED
    BY <2>2, <2>3, <2>4, <2>5 DEF Versions, Outdated, Left
<1>2. I /\ [Next]_vars => I'
  BY SessionAssumption, ShapeNext, VersionsNext
<1>3. I => AllOut
  <2>1. SUFFICES ASSUME I, ended = "all", NEW t \in Tokens PROVE tok[t].ver # version
    BY DEF AllOut
  <2>2. tok[t].ver < version /\ tok[t].ver \in Int /\ version \in Int
    BY <2>1, TypeParts DEF Outdated, Left, Shape, RestOK, Row
  <2> QED
    BY <2>2
<1> QED
  BY <1>1, <1>2, <1>3, PTL DEF Spec

-----------------------------------------------------------------------------
(* Staying signed in.                                                      *)

\* What may end a session is never undone.
LEMMA CleanBefore ==
  ASSUME SessionAssumption, Shape, [Next]_vars, Clean'
  PROVE Clean
<1>1. RestOK
  BY TypeParts DEF Shape
<1>2. ASSUME NEW r \in Tabs, Renew(r) PROVE Clean
  BY <1>1, <1>2 DEF Renew, Send, Find, ReadUser, Rotate, Reread, Follow, Access, RevokeLook,
                    RevokeWrite, Arrive, Drop, ghosts, world, Clean, RestOK
<1>3. CASE Person
  BY <1>1, <1>3 DEF Person, Logout, LogoutAll, ChangeFactor, Begin, SignsOut, Bump, Look, End,
                    SignedOut, Adopt, Fails, ghosts, world, Clean, RestOK
<1>4. CASE GracePasses \/ Lapse \/ Leave \/ UNCHANGED vars
  BY <1>1, <1>4 DEF GracePasses, Lapse, Leave, vars, ghosts, Clean, RestOK
<1> QED
  BY <1>2, <1>3, <1>4 DEF Next

LEMMA Numbers ==
  ASSUME SessionAssumption, Shape
  PROVE /\ tok \in [Tokens -> Row] /\ tab \in [Tabs -> Tab] /\ RestOK /\ TypeOK
        /\ stale \in Nat /\ version \in Nat /\ Tokens \subseteq Nat
        /\ \A r \in Tabs : /\ tab[r] \in Tab /\ Fits(tab[r])
                           /\ tab[r].cur \in Tokens /\ Born(tab[r].cur)
                           /\ tab[r].out \in Tokens \cup {None}
                           /\ tab[r].row \in Row /\ tab[r].since \in Nat
<1>1. tok \in [Tokens -> Row] /\ tab \in [Tabs -> Tab] /\ RestOK /\ TypeOK
  BY TypeParts DEF Shape
<1>2. stale \in Nat /\ version \in Nat
  BY <1>1 DEF RestOK, SessionAssumption
<1>3. \A r \in Tabs : tab[r] \in Tab /\ Fits(tab[r])
  BY <1>1 DEF Shape, Known
<1>4. \A r \in Tabs : tab[r].cur \in Tokens /\ tab[r].out \in Tokens \cup {None}
                      /\ tab[r].row \in Row /\ tab[r].since \in Nat
  BY <1>1 DEF Tab, SessionAssumption
<1> QED
  BY <1>1, <1>2, <1>3, <1>4, Consts DEF Fits

\* A renewal's step that leaves the rows and the cookie alone.
LEMMA FineQuiet ==
  ASSUME SessionAssumption, Shape, Clean, Fine, NEW r \in Tabs, NEW x \in Tab, Becomes(r, x),
         GoesWell(x), tab[r].out # None => x.out = tab[r].out, gesture = NoGesture,
         UNCHANGED <<tok, version, jar, gesture, stale>>
  PROVE Fine'
<1>1. tab'[r] = x /\ \A q \in Tabs \ {r} : tab'[q] = tab[q]
  BY TabMoves DEF Shape
<1>2. NewestIsHeld'
  <2>1. SUFFICES ASSUME NEW t \in Tokens, tok[t].st = "live"
                 PROVE jar = t \/ \E q \in Tabs : tab'[q].out = t
    BY DEF NewestIsHeld
  <2>2. jar = t \/ \E q \in Tabs : tab[q].out = t
    BY <2>1 DEF Fine, NewestIsHeld
  <2>3. t # None
    BY Consts
  <2> QED
    BY <1>1, <2>2, <2>3
<1>3. ChangesAlone'
  BY DEF Fine, ChangesAlone, Born, NoGesture
<1>4. \A q \in Tabs : GoesWell(tab[q])'
  BY <1>1 DEF Fine, GoesWell
<1> QED
  BY <1>2, <1>3, <1>4 DEF Fine

\* The newest token, and what a rotated successor says of it.
LEMMA HeadIs ==
  ASSUME SessionAssumption, TypeOK
  PROVE /\ Head \in Tokens /\ tok[Head].st = "live"
        /\ \A t \in Tokens : Born(t) => t <= Head
        /\ \A t \in Tokens : tok[t].st = "rotated" => t < Head
<1>1. PICK h \in Tokens : ChainTo(h)
  BY TypeParts DEF Chain
<1>2. tok[h].st = "live" /\ \A t \in Tokens : tok[t].st = "live" => t = h
  BY <1>1, Consts DEF ChainTo
<1>3. Head = h
  BY <1>2 DEF Head
<1>4. \A t \in Tokens : (Born(t) => t <= h) /\ (tok[t].st = "rotated" => t < h)
  BY <1>1, Consts DEF ChainTo, Born
<1> QED
  BY <1>2, <1>3, <1>4

\* While nothing ended the session, a renewal runs outside of every gesture.
LEMMA NoGestureRuns ==
  ASSUME SessionAssumption, Shape, Fine, Clean, NEW r \in Tabs, Renew(r), Clean'
  PROVE gesture = NoGesture
<1>1. SUFFICES ASSUME gesture # NoGesture PROVE FALSE
  OBVIOUS
<1>2. gesture.kind = "mfa" /\ tab[r].pc = "idle"
  BY <1>1 DEF Fine, ChangesAlone, Busy
<1>3. Send(r)
  BY <1>2 DEF Renew, Find, ReadUser, Rotate, Reread, Judged, Follow, Access, RevokeLook,
              RevokeWrite, Arrive, Drop
<1> QED
  BY <1>2, <1>3 DEF Send, Clean

LEMMA RotateKeepsFine ==
  ASSUME SessionAssumption, Shape, Fine, Clean, NEW r \in Tabs, Rotate(r), Rotatable(r),
         gesture = NoGesture
  PROVE Fine'
<1>1. PICK c \in Tokens : c = tab[r].cur
  BY Numbers
<1>2. Successor(r) \in Row /\ Successor(r).st = "live" /\ ~Successor(r).revoked
      /\ Successor(r).ver = tab[r].row.ver
  BY Numbers DEF Successor, Row, Unborn
<1>3. /\ c < MaxTokens /\ tok[c].st = "live" /\ ~tok[c].revoked /\ tab[r].pc = "try"
      /\ tok' = [tok EXCEPT ![c].st = "rotated", ![c + 1] = Successor(r)]
      /\ Accepts(r, c + 1)
      /\ UNCHANGED <<version, jar, gesture, ghosts, world>>
  BY <1>1 DEF Rotate, Rotatable
<1>4. /\ Grows /\ c + 1 \in Tokens /\ tok'[c + 1] = Successor(r)
      /\ tok'[c].st = "rotated" /\ tok'[c].revoked = tok[c].revoked /\ tok'[c].ver = tok[c].ver
      /\ \A t \in Tokens \ {c, c + 1} : tok'[t] = tok[t]
  BY <1>2, <1>3, RotatedRows, Numbers
<1>5. PICK n \in Tokens : n = c + 1 /\ n # None
  BY <1>4, Consts
<1> DEFINE x == [Idle EXCEPT !.pc = "access", !.out = n]
<1>6. x \in Tab /\ x.out = n /\ x.pc = "access" /\ x.row = Unborn /\ x.since = 0 /\ x.cur = 0
  BY Consts DEF Idle, Tab
<1>7. tab'[r] = x /\ \A q \in Tabs \ {r} : tab'[q] = tab[q]
  BY <1>3, <1>5, <1>6, TabMoves, Numbers DEF Accepts
<1>8. NewestIsHeld'
  <2>1. \A t \in Tokens : tok'[t].st = "live" => t = n
    <3>1. SUFFICES ASSUME NEW t \in Tokens, tok'[t].st = "live", t # n PROVE FALSE
      OBVIOUS
    <3>2. t # c
      BY <1>4, <3>1
    <3>3. tok[t].st = "live"
      BY <1>4, <1>5, <3>1, <3>2
    <3>4. PICK h \in Tokens : ChainTo(h)
      BY Numbers, TypeParts DEF Chain
    <3>5. t = h /\ c = h
      BY <1>3, <3>3, <3>4, Consts DEF ChainTo
    <3> QED
      BY <3>2, <3>5
  <2> QED
    BY <1>6, <1>7, <2>1 DEF NewestIsHeld
<1>9. \A t \in Tokens : ~tok'[t].revoked
  BY <1>2, <1>3, <1>4 DEF Fine
<1>10. ChangesAlone'
  <2>1. tab[r].row.ver = version
    BY <1>3 DEF Fine, GoesWell
  <2>2. \A t \in Tokens : Born(t) => tok[t].ver = version
    BY DEF Fine, ChangesAlone, NoGesture
  <2>3. \A t \in Tokens : Born(t)' => tok'[t].ver = version
    <3>1. TAKE t \in Tokens
    <3>2. CASE t = c
      BY <1>3, <1>4, <2>2, <3>2 DEF Born
    <3>3. CASE t = c + 1
      BY <1>2, <1>4, <2>1, <3>3
    <3>4. CASE t # c /\ t # c + 1
      BY <1>4, <2>2, <3>4 DEF Born
    <3> QED
      BY <3>2, <3>3, <3>4
  <2> QED
    BY <1>3, <2>3 DEF ChangesAlone, NoGesture
<1>11. \A q \in Tabs : GoesWell(tab[q])'
  <2>1. stale <= c
    BY <1>1, <1>3 DEF Fine, GoesWell
  <2>2. stale <= n
    BY <1>5, <2>1, Numbers
  <2>3. UNCHANGED <<stale, version>>
    BY <1>3 DEF world
  <2>4. GoesWell(tab[r])'
    BY <1>5, <1>6, <1>7, <2>2, <2>3 DEF GoesWell, Unborn
  <2>5. \A q \in Tabs \ {r} : GoesWell(tab[q])'
    BY <1>7, <2>3 DEF Fine, GoesWell
  <2> QED
    BY <2>4, <2>5
<1>12. jar' # None /\ stale' <= jar'
  BY <1>3 DEF Fine, world
<1> QED
  BY <1>8, <1>9, <1>10, <1>11, <1>12 DEF Fine

LEMMA ArriveKeepsFine ==
  ASSUME SessionAssumption, Shape, Fine, Clean, NEW r \in Tabs, Arrive(r), Clean',
         gesture = NoGesture
  PROVE Fine'
<1>1. PICK n : n = tab[r].out
  OBVIOUS
<1>2. n # None /\ stale <= n /\ n \in Tokens /\ Born(n) /\ jar \in Tokens
  BY <1>1, Numbers, TypeParts DEF Arrive, Fine, GoesWell, Fits
<1>3. /\ jar' = n /\ ~(n < jar) /\ Becomes(r, Idle)
      /\ UNCHANGED <<tok, version, gesture, stale>>
  BY <1>1 DEF Arrive, Clean, world
<1>4. tab'[r] = Idle /\ \A q \in Tabs \ {r} : tab'[q] = tab[q]
  BY <1>3, Consts, TabMoves, Numbers
<1>5. NewestIsHeld'
  <2>1. SUFFICES ASSUME NEW t \in Tokens, tok[t].st = "live"
                 PROVE n = t \/ \E q \in Tabs : tab'[q].out = t
    BY <1>3 DEF NewestIsHeld
  <2>2. jar = t \/ \E q \in Tabs : tab[q].out = t
    BY <2>1 DEF Fine, NewestIsHeld
  <2>3. ASSUME jar = t PROVE n = t
    <3>1. PICK h \in Tokens : ChainTo(h)
      BY Numbers, TypeParts DEF Chain
    <3>2. t = h /\ n <= h
      BY <1>2, <2>1, <3>1, Consts DEF ChainTo, Born
    <3> QED
      BY <1>2, <1>3, <2>3, <3>2, Consts
  <2> QED
    BY <1>1, <1>4, <2>2, <2>3
<1>6. ChangesAlone'
  BY <1>3 DEF Fine, ChangesAlone, Born, NoGesture
<1>7. \A q \in Tabs : GoesWell(tab[q])'
  <2>1. GoesWell(tab[r])'
    BY <1>4, Consts DEF GoesWell, Idle, Unborn
  <2>2. \A q \in Tabs \ {r} : GoesWell(tab[q])'
    BY <1>3, <1>4 DEF Fine, GoesWell
  <2> QED
    BY <2>1, <2>2
<1> QED
  BY <1>2, <1>3, <1>5, <1>6, <1>7 DEF Fine

LEMMA RenewKeepsFine ==
  ASSUME SessionAssumption, Shape, Fine, Clean, NEW r \in Tabs, Renew(r), Clean'
  PROVE Fine'
<1> DEFINE x == tab[r]
<1>1. gesture = NoGesture
  BY NoGestureRuns
<1>2. /\ x \in Tab /\ Fits(x) /\ GoesWell(x) /\ x.cur \in Tokens /\ Born(x.cur)
      /\ tok[x.cur] \in Row /\ ~tok[x.cur].revoked /\ tok[x.cur].ver = version
      /\ x.out # None => x.pc \in {"access", "answer"}
  BY <1>1, Numbers DEF Fine, ChangesAlone, NoGesture, Fits
<1>3. \A t \in Tokens : ~tok[t].revoked
  BY DEF Fine
<1>4. Idle.out = None /\ Idle.pc = "idle" /\ Idle.row = Unborn /\ Idle.since = 0 /\ Idle.cur = 0
  BY DEF Idle
<1>5. ASSUME NEW z \in Tab, Becomes(r, z), GoesWell(z), x.out # None => z.out = x.out,
             UNCHANGED <<tok, version, jar, gesture, stale>>
      PROVE Fine'
  BY <1>1, <1>5, FineQuiet
\* A request with a token within its grace, and a link followed from one.
<1>6. ASSUME NEW t \in Tokens, NEW s \in {"find", "next"}, stale <= t, Goes(r, s, t),
             Born(t), s = "next" => tok[t].st = "rotated",
             x.out = None, UNCHANGED <<tok, version, jar, gesture, stale>>
      PROVE Fine'
  <2> DEFINE z == [Idle EXCEPT !.pc = s, !.cur = t]
  <2>1. z \in Tab
    BY <1>6, Consts DEF Idle, Tab
  <2>2. GoesWell(z)
    BY <1>6, Numbers, Consts DEF GoesWell, Idle, Unborn
  <2> QED
    BY <1>5, <1>6, <2>1, <2>2 DEF Goes
<1>7. CASE Send(r)
  <2>1. jar \in Tokens /\ Born(jar) /\ stale <= jar /\ x.out = None
    BY <1>2, <1>7, TypeParts DEF Send, Shape, Known, Fine
  <2> QED
    BY <1>6, <1>7, <2>1 DEF Send, world
<1>8. CASE Find(r)
  <2> DEFINE y == [x EXCEPT !.pc = "user", !.row = tok[x.cur]]
  <2>1. y \in Tab /\ y.pc = "user" /\ y.row = tok[x.cur] /\ y.cur = x.cur /\ y.out = x.out
        /\ y.since = x.since
    BY <1>2, <1>8 DEF Find, Tab
  <2>2. GoesWell(y)
    BY <1>2, <1>8, <2>1 DEF Find, GoesWell, Born
  <2> QED
    BY <1>5, <1>8, <2>1, <2>2 DEF Find, world
<1>9. CASE ReadUser(r)
  <2> DEFINE y == [x EXCEPT !.pc = "try", !.since = stale]
  <2>1. ~x.row.revoked /\ x.row.ver = version /\ x.row.st # "none" /\ stale <= x.cur /\ x.out = None
    BY <1>2, <1>9 DEF ReadUser, GoesWell
  <2>2. Becomes(r, y) \/ (x.row.st = "rotated" /\ Goes(r, "next", x.cur))
    <3>1. ~lapsed /\ ~(x.cur < stale)
      BY <1>2, <2>1, Numbers DEF Clean
    <3> QED
      BY <1>9, <2>1, <3>1 DEF ReadUser
  <2>3. y \in Tab /\ y.pc = "try" /\ y.row = x.row /\ y.cur = x.cur /\ y.out = x.out
        /\ y.since = stale
    BY <1>2, <1>9, Numbers DEF ReadUser, Tab, RestOK
  <2>4. GoesWell(y)
    BY <2>1, <2>3 DEF GoesWell
  <2>5. UNCHANGED <<tok, version, jar, gesture, stale>>
    BY <1>9 DEF ReadUser, world
  <2>6. x.row.st = "rotated" => tok[x.cur].st = "rotated"
    BY <1>2 DEF Fits
  <2> QED
    BY <1>2, <1>5, <1>6, <2>1, <2>2, <2>3, <2>4, <2>5, <2>6
<1>10. CASE Rotate(r)
  <2>1. CASE Rotatable(r)
    BY <1>1, <1>10, <2>1, RotateKeepsFine
  <2>2. CASE ~Rotatable(r)
    <3> DEFINE y == [x EXCEPT !.pc = "reread", !.row = Unborn]
    <3>1. y \in Tab /\ y.pc = "reread" /\ y.row = Unborn /\ y.cur = x.cur /\ y.out = x.out
          /\ y.since = x.since
      BY <1>2, Consts DEF Tab
    <3>2. GoesWell(y)
      BY <1>2, <1>10, <3>1 DEF Rotate, GoesWell, Unborn
    <3>3. Becomes(r, y) /\ UNCHANGED <<tok, version, jar, gesture, stale>>
      BY <1>10, <2>2 DEF Rotate, world
    <3> QED
      BY <1>5, <3>1, <3>2, <3>3
  <2> QED
    BY <2>1, <2>2
<1>11. CASE Reread(r)
  <2>1. stale <= x.cur /\ x.since <= x.cur /\ x.out = None /\ tok[x.cur].st = "rotated"
    BY <1>2, <1>11 DEF Reread, Judged, GoesWell, Fits
  <2>2. Goes(r, "next", x.cur)
    <3>1. ~(x.cur < x.since)
      BY <2>1, Numbers
    <3> QED
      BY <1>2, <1>11, <3>1 DEF Reread, Judged
  <2> QED
    BY <1>2, <1>6, <1>11, <2>1, <2>2 DEF Reread, world
<1>12. CASE Follow(r)
  <2> DEFINE y == [x EXCEPT !.cur = x.cur + 1, !.hop = @ + 1]
  <2>1. x.pc = "next" /\ tok[x.cur].st = "rotated" /\ stale <= x.cur /\ x.out = None
    BY <1>2, <1>12 DEF Follow, Fits, GoesWell
  <2>2. PICK n \in Tokens : n = x.cur + 1 /\ Born(n) /\ ~tok[n].revoked
    BY <1>2, <1>3, <2>1, Links, Numbers
  <2>3. UNCHANGED <<tok, version, jar, gesture, stale>>
    BY <1>12 DEF Follow, world
  <2>4. n \in Nat /\ x.cur \in Nat /\ stale \in Nat /\ x.since \in Nat
    BY <1>2, Numbers
  <2>5. CASE tok[n].st = "live"
    <3> DEFINE z == [Idle EXCEPT !.pc = "access", !.out = n]
    <3>1. Becomes(r, z)
      BY <1>12, <2>2, <2>5 DEF Follow, Accepts, Clean
    <3>2. z \in Tab /\ z.pc = "access" /\ z.out = n /\ z.row = Unborn /\ z.since = 0 /\ z.cur = 0
      BY Consts DEF Idle, Tab
    <3>3. stale <= n /\ n # None
      BY <2>1, <2>2, <2>4, Consts
    <3>4. GoesWell(z)
      BY <3>2, <3>3 DEF GoesWell, Unborn
    <3> QED
      BY <1>5, <2>1, <2>3, <3>1, <3>2, <3>4
  <2>6. CASE tok[n].st = "rotated"
    <3>1. x.hop \in Nat /\ MaxHops \in Nat /\ Head \in Nat /\ x.cur \in Nat
      BY <1>2, HeadIs, Numbers DEF Tab, SessionAssumption
    <3>2. n < Head /\ Head - (x.cur - x.hop) <= MaxHops
      <4>1. n < Head
        BY <2>6, HeadIs, Numbers
      <4>2. behind' = (behind \/ Head - (x.cur - x.hop) > MaxHops) /\ ~behind'
        BY <1>12 DEF Follow, Clean
      <4>3. ~(Head - (x.cur - x.hop) > MaxHops)
        BY <4>2
      <4> QED
        BY <3>1, <4>1, <4>3
    <3>3. ~(x.hop + 1 >= MaxHops)
      BY <2>2, <3>1, <3>2
    <3>4. Becomes(r, y)
      BY <1>12, <2>2, <2>6, <3>3 DEF Follow
    <3>5. y \in Tab /\ y.pc = "next" /\ y.cur = n /\ y.out = x.out /\ y.row = x.row
          /\ y.since = x.since
      <4>1. x.hop + 1 \in 0..MaxHops
        BY <3>1, <3>3
      <4> QED
        BY <1>2, <2>1, <2>2, <4>1 DEF Tab
    <3>6. GoesWell(y)
      <4>1. stale <= n /\ x.since <= n
        <5>1. x.since <= x.cur
          BY <1>2 DEF GoesWell
        <5> QED
          BY <2>1, <2>2, <2>4, <5>1
      <4> QED
        BY <1>2, <3>5, <4>1 DEF GoesWell
    <3> QED
      BY <1>5, <2>3, <3>4, <3>5, <3>6
  <2> QED
    BY <2>2, <2>5, <2>6, Numbers DEF Born, Row
<1>13. CASE Access(r)
  <2> DEFINE y == [x EXCEPT !.pc = "answer"]
  <2>1. Becomes(r, y) /\ UNCHANGED <<tok, version, jar, gesture, stale>>
    BY <1>13 DEF Access, Clean, world
  <2>2. y \in Tab /\ y.pc = "answer" /\ y.cur = x.cur /\ y.out = x.out /\ y.row = x.row
        /\ y.since = x.since
    BY <1>2 DEF Tab
  <2>3. GoesWell(y)
    BY <1>2, <1>13, <2>2 DEF Access, GoesWell
  <2> QED
    BY <1>5, <2>1, <2>2, <2>3
<1>14. CASE RevokeLook(r) \/ RevokeWrite(r)
  BY <1>2, <1>14 DEF RevokeLook, RevokeWrite, GoesWell
<1>15. CASE Arrive(r)
  BY <1>1, <1>15, ArriveKeepsFine
<1>16. CASE Drop(r)
  <2>1. x.out = None /\ Becomes(r, Idle) /\ UNCHANGED <<tok, version, jar, gesture, stale>>
    BY <1>16 DEF Drop, Clean, world
  <2>2. GoesWell(Idle)
    BY <1>4, Consts DEF GoesWell, Unborn
  <2> QED
    BY <1>5, <2>1, <2>2, Consts
<1> QED
  BY <1>7, <1>8, <1>9, <1>10, <1>11, <1>12, <1>13, <1>14, <1>15, <1>16 DEF Renew

LEMMA PersonKeepsFine ==
  ASSUME SessionAssumption, Shape, Versions, Fine, Clean, Clean',
         Person \/ GracePasses \/ Lapse \/ Leave \/ UNCHANGED vars
  PROVE Fine'
<1>1. /\ NewestIsHeld /\ ChangesAlone /\ jar # None /\ stale <= jar
      /\ \A t \in Tokens : ~tok[t].revoked
      /\ \A r \in Tabs : GoesWell(tab[r])
  BY DEF Fine
<1>2. ~(Logout \/ LogoutAll \/ Lapse \/ Leave)
  BY TypeParts DEF Logout, LogoutAll, SignsOut, Lapse, Leave, Clean, Shape
<1>3. ~(End \/ SignedOut)
  BY <1>1 DEF End, SignedOut, ChangesAlone, NoGesture
<1>4. ~Fails
  <2>1. Fails => gesture.kind = "mfa"
    BY <1>1 DEF Fails, ChangesAlone, NoGesture
  <2>2. Fails => crossed'
    BY <2>1 DEF Fails
  <2> QED
    BY <2>2 DEF Clean
<1>5. CASE ChangeFactor
  <2>1. UNCHANGED <<tok, version, jar, tab, stale>> /\ gesture = NoGesture /\ ~Busy
        /\ gesture'.kind = "mfa" /\ gesture'.pc = "bump"
    BY <1>5 DEF ChangeFactor, Begin, NoGesture, Clean, world
  <2>2. ChangesAlone'
    BY <1>1, <2>1 DEF ChangesAlone, Busy, Born, NoGesture
  <2> QED
    BY <1>1, <2>1, <2>2 DEF Fine, NewestIsHeld, GoesWell
<1>6. CASE Bump
  <2>1. UNCHANGED <<tok, jar, tab, stale>> /\ gesture.kind = "mfa" /\ ~Busy
    BY <1>1, <1>6 DEF Bump, ChangesAlone, NoGesture, world
  <2>2. gesture'.kind = "mfa" /\ gesture'.pc = "look"
    BY <1>6, <2>1, Numbers DEF Bump, RestOK, Gesture
  <2>3. ChangesAlone'
    BY <2>1, <2>2 DEF ChangesAlone, Busy
  <2>4. \A r \in Tabs : GoesWell(tab[r])'
    BY <1>1, <2>1 DEF GoesWell, Busy
  <2> QED
    BY <1>1, <2>1, <2>3, <2>4 DEF Fine, NewestIsHeld
<1>7. CASE Look
  <2>1. UNCHANGED <<tok, version, jar, tab, stale>> /\ gesture.kind = "mfa" /\ ~Busy
    BY <1>1, <1>7 DEF Look, ChangesAlone, NoGesture, world
  <2>2. gesture'.kind = "mfa" /\ gesture'.pc = "write" /\ gesture'.seen = Visible
    BY <1>7, <2>1, Numbers DEF Look, RestOK, Gesture
  <2>3. ChangesAlone'
    BY <2>1, <2>2 DEF ChangesAlone, Busy, Visible, Alive
  <2> QED
    BY <1>1, <2>1, <2>3 DEF Fine, NewestIsHeld, GoesWell
<1>8. CASE Adopt
  <2>1. UNCHANGED <<version, jar, tab, stale>> /\ gesture' = NoGesture /\ gesture.seen = Visible
        /\ gesture.ver = version
    BY <1>1, <1>8 DEF Adopt, ChangesAlone, Versions, world
  <2>2. \A t \in Tokens :
          /\ tok'[t].st = tok[t].st /\ tok'[t].revoked = tok[t].revoked
          /\ tok'[t].ver = IF t \in gesture.seen /\ ~tok[t].revoked THEN gesture.ver ELSE tok[t].ver
    BY <1>8, AdoptedRows, Numbers DEF Adopt
  <2>3. \A t \in Tokens : Born(t)' => tok'[t].ver = version
    BY <1>1, <2>1, <2>2 DEF Born, Visible, Alive
  <2>4. ChangesAlone'
    BY <2>1, <2>3 DEF ChangesAlone, NoGesture
  <2>5. NewestIsHeld'
    BY <1>1, <2>1, <2>2 DEF NewestIsHeld
  <2>6. \A r \in Tabs : GoesWell(tab[r])'
    BY <1>1, <2>1 DEF GoesWell
  <2> QED
    BY <1>1, <2>1, <2>2, <2>4, <2>5, <2>6 DEF Fine
<1>9. CASE GracePasses
  <2>1. /\ stale' = stale + 1 /\ ~Busy /\ tok[stale].st = "rotated" /\ stale < MaxTokens
        /\ UNCHANGED <<tok, version, jar, tab, gesture>>
    BY <1>9 DEF GracePasses, Clean
  <2>2. \A r \in Tabs : tab[r].pc = "idle" /\ tab[r].out = None
    BY <2>1, Numbers DEF Busy, Fits
  <2>3. Head \in Tokens /\ tok[Head].st = "live" /\ Head # None
    BY HeadIs, Numbers, Consts
  <2>4. jar = Head
    BY <1>1, <2>2, <2>3 DEF NewestIsHeld
  <2>5. stale \in Tokens
    BY <2>1, Numbers DEF Tokens, SessionAssumption
  <2>6. stale < Head
    BY <2>1, <2>5, HeadIs, Numbers
  <2>7. stale' <= jar'
    BY <2>1, <2>3, <2>4, <2>6, Numbers
  <2>8. \A r \in Tabs : GoesWell(tab[r])'
    BY <1>1, <2>1, <2>2 DEF GoesWell
  <2> QED
    BY <1>1, <2>1, <2>7, <2>8 DEF Fine, NewestIsHeld, ChangesAlone, Born, Busy, Visible, Alive
<1>10. CASE UNCHANGED vars
  BY <1>1, <1>10 DEF vars, Fine, NewestIsHeld, ChangesAlone, Born, Busy, Visible, Alive, GoesWell
<1> QED
  BY <1>2, <1>3, <1>4, <1>5, <1>6, <1>7, <1>8, <1>9, <1>10 DEF Person

LEMMA FineNext ==
  ASSUME SessionAssumption, Shape, Versions, Fine, [Next]_vars
  PROVE Fine'
<1>1. SUFFICES ASSUME Clean' PROVE Fine'
  BY DEF Fine
<1>2. Clean
  BY <1>1, CleanBefore
<1> QED
  BY <1>1, <1>2, RenewKeepsFine, PersonKeepsFine DEF Next

\* A refused renewal has a cause outside of renewing: a sign-out, an expiry, a provider that
\* let the person go, or a browser whose cookie fell behind.
THEOREM KeptSignedInAlways == Spec => []KeptSignedIn
<1> DEFINE I == Shape /\ Versions /\ Outdated /\ Fine
<1>1. Init => I
  <2>1. SUFFICES ASSUME Init PROVE I
    OBVIOUS
  <2>2. version = 0 /\ ended = "no" /\ gesture = NoGesture /\ stale = 0 /\ jar = 0
    BY <2>1 DEF Init
  <2>3. \A t \in Tokens : /\ tok[t].ver = 0 /\ ~tok[t].revoked
                          /\ tok[t].st = IF t = 0 THEN "live" ELSE "none"
    BY <2>1 DEF Init, Unborn
  <2>4. \A r \in Tabs : tab[r] = Idle
    BY <2>1 DEF Init
  <2>5. Shape
    BY <2>1, SessionAssumption, ShapeInit
  <2>6. Versions /\ Outdated
    BY <2>2, <2>3, <2>4 DEF Versions, Outdated, Left, NoGesture, Idle, Unborn
  <2>7. \A r \in Tabs : GoesWell(tab[r])
    BY <2>2, <2>4, Consts, SessionAssumption DEF GoesWell, Idle, Unborn
  <2>8. NewestIsHeld /\ ChangesAlone /\ jar # None
    BY <2>2, <2>3, Consts, SessionAssumption DEF NewestIsHeld, ChangesAlone, NoGesture
  <2> QED
    BY <2>2, <2>3, <2>5, <2>6, <2>7, <2>8 DEF Fine
<1>2. I /\ [Next]_vars => I'
  BY SessionAssumption, ShapeNext, VersionsNext, FineNext
<1>3. I => KeptSignedIn
  <2>1. SUFFICES ASSUME I, NEW r \in Tabs, tab[r].pc = "answer", tab[r].out = None, Clean
                 PROVE FALSE
    BY DEF KeptSignedIn, Clean
  <2> QED
    BY <2>1 DEF Fine, GoesWell
<1> QED
  BY <1>1, <1>2, <1>3, PTL DEF Spec
=============================================================================
