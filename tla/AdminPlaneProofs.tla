-------------------------- MODULE AdminPlaneProofs --------------------------
(****************************************************************************)
(* Proofs about the admin plane, for every value of its constants:          *)
(* AdminSession and Listing each by itself, and then MCAdminPlane, whose    *)
(* behaviours are behaviours of both.                                       *)
(****************************************************************************)
EXTENDS MCAdminPlane, FiniteSetTheorems, TLAPS

-----------------------------------------------------------------------------
(* AdminSession, for any browsers and any requests.                         *)

\* A session a browser knows is one whose login was answered: its row is not
\* made any more, only removed.
Answered(s) == s = None \/ (s \in Request /\ pc[s] = "done")
CookiesAnswered ==
    /\ \A b \in Browser : Answered(jar[b])
    /\ \A q \in Request : pc[q] # "idle" => Answered(req[q].cookie)

\* A request that was late is refused by the check it has before it.
Cut(q) ==
    \/ pc[q] \in {"login", "answer", "done"} /\ req[q].asks = "login"
    \/ pc[q] = "refused"
    \/ pc[q] = "auth" /\ req[q].cookie \notin rows \ expired
    \/ pc[q] = "csrf" /\ req[q].cookie \notin rows
LateCut == \A q \in late : Cut(q)

\* What asks for what, and the form it came with.
Asked(q) ==
    /\ pc[q] = "login" => req[q].asks = "login"
    /\ pc[q] \in {"auth", "csrf", "serve"} => req[q].asks # "login"
    /\ pc[q] \in {"serve", "answer", "done"} =>
          req[q].asks \in {"login", "page"} \/ req[q].csrf = req[q].cookie
AllAsked == \A q \in Request : Asked(q)

SessionInv == TypeOK /\ CookiesAnswered /\ LateCut /\ AllAsked

USE NoneNew

\* No request has been sent and no session exists at the start.
LEMMA SessionStart == ASSUME Init PROVE SessionInv
BY DEF Init, SessionInv, TypeOK, CookiesAnswered, Answered, LateCut, AllAsked, Asked, Session

\* A request is new: it has passed no check yet, whatever its browser sends with it.
LEMMA SendStep ==
    ASSUME SessionInv, NEW q \in Request, NEW b \in Browser,
           NEW what \in {"login", "page", "action", "logout"}, Send(q, b, what)
    PROVE  SessionInv'
<1> DEFINE r == [by |-> b, asks |-> what, cookie |-> jar[b],
                 csrf |-> IF what = "page" THEN None ELSE page[b]]
<1>1. TypeOK /\ CookiesAnswered /\ LateCut /\ AllAsked /\ pc[q] = "idle"
  BY DEF SessionInv, Send, Goes
<1>2. r \in Sent
  BY <1>1 DEF TypeOK, Sent, Session
<1>3. /\ pc' = [pc EXCEPT ![q] = IF what = "login" THEN "login" ELSE "auth"]
      /\ req' = [req EXCEPT ![q] = r]
      /\ UNCHANGED <<rows, expired, jar, page>>
      /\ late' = IF jar[b] \in expired \/ jar[b] \notin rows THEN late \cup {q} ELSE late
  BY DEF Send, Goes
<1>4. /\ pc' \in [Request -> {"idle", "login", "auth", "csrf", "serve", "answer", "done", "refused"}]
      /\ req' \in [Request -> Sent \cup {None}]
      /\ pc'[q] = (IF what = "login" THEN "login" ELSE "auth") /\ req'[q] = r
      /\ \A p \in Request \ {q} : pc'[p] = pc[p] /\ req'[p] = req[p]
  BY <1>1, <1>2, <1>3 DEF TypeOK
<1>5. r.asks = what /\ r.cookie = jar[b]
  OBVIOUS
<1> HIDE DEF r
<1>6. TypeOK'
  BY <1>1, <1>2, <1>3, <1>4 DEF TypeOK
<1>7. CookiesAnswered'
  BY <1>1, <1>3, <1>4, <1>5 DEF CookiesAnswered, Answered
<1>8. LateCut'
  BY <1>1, <1>3, <1>4, <1>5 DEF LateCut, Cut, TypeOK
<1>9. AllAsked'
  BY <1>1, <1>4, <1>5 DEF AllAsked, Asked
<1> QED BY <1>6, <1>7, <1>8, <1>9 DEF SessionInv

\* A request passes on, and neither rows nor cookies change.
LEMMA GoesKeeps ==
    ASSUME SessionInv, NEW q \in Request, NEW from, NEW to, Goes(q, from, to),
           from \in {"login", "auth", "csrf", "serve", "answer"},
           to \in {"csrf", "serve", "answer", "done", "refused"},
           UNCHANGED <<rows, expired, req>>,
           late' = late,
           jar' \in [Browser -> Session], page' \in [Browser -> Session],
           \A b \in Browser : jar'[b] \in {jar[b], None} \/ (jar'[b] = q /\ to = "done"),
           q \in late => Cut(q)',
           Asked(q)'
    PROVE  SessionInv'
<1>1. TypeOK /\ CookiesAnswered /\ LateCut /\ AllAsked
  BY DEF SessionInv
<1>2. /\ late' = late /\ pc[q] = from /\ pc' = [pc EXCEPT ![q] = to] /\ pc'[q] = to
      /\ \A p \in Request \ {q} : pc'[p] = pc[p]
  BY <1>1 DEF Goes, TypeOK
<1>3. TypeOK'
  BY <1>1, <1>2 DEF TypeOK
<1>4. CookiesAnswered'
  BY <1>1, <1>2 DEF CookiesAnswered, Answered
<1>5. LateCut'
  BY <1>1, <1>2 DEF LateCut, Cut, TypeOK
<1>6. AllAsked'
  BY <1>1, <1>2 DEF AllAsked, Asked
<1> QED BY <1>3, <1>4, <1>5, <1>6 DEF SessionInv

\* A new row is one no request before it has a cookie of.
LEMMA NewRow ==
    ASSUME SessionInv, NEW q \in Request, Goes(q, "login", "answer"), rows' = rows \cup {q},
           UNCHANGED <<expired, jar, page, req, late>>
    PROVE  SessionInv'
<1>1. TypeOK /\ CookiesAnswered /\ LateCut /\ AllAsked
  BY DEF SessionInv
<1>2. /\ pc[q] = "login" /\ pc' = [pc EXCEPT ![q] = "answer"] /\ pc'[q] = "answer"
      /\ \A p \in Request \ {q} : pc'[p] = pc[p]
  BY <1>1 DEF Goes, TypeOK
<1>3. \A p \in Request : pc[p] # "idle" => req[p].cookie # q
  BY <1>1, <1>2 DEF CookiesAnswered, Answered
<1>4. TypeOK'
  BY <1>1, <1>2 DEF TypeOK
<1>5. CookiesAnswered'
  BY <1>1, <1>2 DEF CookiesAnswered, Answered
<1>6. LateCut'
  BY <1>1, <1>2, <1>3 DEF LateCut, Cut, AllAsked, Asked, TypeOK
<1>7. AllAsked'
  BY <1>1, <1>2 DEF AllAsked, Asked
<1> QED BY <1>4, <1>5, <1>6, <1>7 DEF SessionInv

\* A new session is named after its login, so no cookie or form refers to it yet.
LEMMA LoginStep == ASSUME SessionInv, NEW q \in Request, Login(q) PROVE SessionInv'
<1>1. CASE Goes(q, "login", "answer") /\ rows' = rows \cup {q}
  BY <1>1, NewRow DEF Login
<1>2. CASE Goes(q, "login", "refused") /\ UNCHANGED rows
  <2>1. Cut(q)' /\ Asked(q)' /\ jar \in [Browser -> Session] /\ page \in [Browser -> Session]
    BY <1>2 DEF Cut, Asked, Goes, SessionInv, TypeOK
  <2> QED BY <1>2, <2>1, GoesKeeps DEF Login
<1> QED BY <1>1, <1>2 DEF Login

\* Passing the first check ties a request to a live row.
LEMMA AuthenticatedStep == ASSUME SessionInv, NEW q \in Request, Authenticated(q) PROVE SessionInv'
<1> DEFINE to == IF req[q].cookie \notin rows \ expired THEN "refused"
                 ELSE IF req[q].asks = "page" THEN "serve" ELSE "csrf"
<1>1. TypeOK /\ LateCut /\ AllAsked
  BY DEF SessionInv
<1>2. /\ Goes(q, "auth", to) /\ UNCHANGED <<rows, expired, jar, page, req, late>>
      /\ pc[q] = "auth" /\ pc'[q] = to
  BY <1>1 DEF Authenticated, Goes, TypeOK
<1>3. q \in late => Cut(q)'
  BY <1>1, <1>2 DEF LateCut, Cut
<1>4. Asked(q)' /\ jar \in [Browser -> Session] /\ page \in [Browser -> Session]
  BY <1>1, <1>2 DEF AllAsked, Asked, TypeOK
<1>5. to \in {"csrf", "serve", "refused"}
  OBVIOUS
<1> HIDE DEF to
<1> QED BY <1>2, <1>3, <1>4, <1>5, GoesKeeps

\* Passing the second ties the form to the row of the cookie.
LEMMA ValidCSRFStep == ASSUME SessionInv, NEW q \in Request, ValidCSRF(q) PROVE SessionInv'
<1> DEFINE to == IF req[q].csrf = req[q].cookie /\ req[q].cookie \in rows THEN "serve"
                 ELSE "refused"
<1>1. TypeOK /\ LateCut /\ AllAsked
  BY DEF SessionInv
<1>2. /\ Goes(q, "csrf", to) /\ UNCHANGED <<rows, expired, jar, page, req, late>>
      /\ pc[q] = "csrf" /\ pc'[q] = to
  BY <1>1 DEF ValidCSRF, Goes, TypeOK
<1>3. q \in late => Cut(q)'
  BY <1>1, <1>2 DEF LateCut, Cut
<1>4. Asked(q)' /\ jar \in [Browser -> Session] /\ page \in [Browser -> Session]
  BY <1>1, <1>2 DEF AllAsked, Asked, TypeOK
<1>5. to \in {"serve", "refused"}
  OBVIOUS
<1> HIDE DEF to
<1> QED BY <1>2, <1>3, <1>4, <1>5, GoesKeeps

\* Serve, and a logout whose DELETE failed.
LEMMA ServesStep ==
    ASSUME SessionInv, NEW q \in Request, Goes(q, "serve", "answer"),
           UNCHANGED <<rows, expired, jar, page, req, late>>
    PROVE  SessionInv'
<1>1. TypeOK /\ LateCut /\ AllAsked
  BY DEF SessionInv
<1>2. pc[q] = "serve" /\ pc'[q] = "answer"
  BY <1>1 DEF Goes, TypeOK
<1>3. q \in late => Cut(q)'
  BY <1>1, <1>2 DEF LateCut, Cut
<1>4. Asked(q)' /\ jar \in [Browser -> Session] /\ page \in [Browser -> Session]
  BY <1>1, <1>2 DEF AllAsked, Asked, TypeOK
<1> QED BY <1>3, <1>4, GoesKeeps

\* The row goes, and cuts off what has still to ask for it.
LEMMA LogoutStep == ASSUME SessionInv, NEW q \in Request, Logout(q) PROVE SessionInv'
<1>1. TypeOK /\ CookiesAnswered /\ LateCut /\ AllAsked
  BY DEF SessionInv
<1>2. /\ pc[q] = "serve" /\ pc' = [pc EXCEPT ![q] = "answer"] /\ pc'[q] = "answer"
      /\ \A p \in Request \ {q} : pc'[p] = pc[p]
      /\ UNCHANGED <<expired, jar, page, req>>
  BY <1>1 DEF Logout, Goes, TypeOK
<1>3. CASE rows' = rows \ {req[q].cookie} /\ late' = late \cup Unchecked(req[q].cookie)
  <2>1. TypeOK'
    BY <1>1, <1>2, <1>3 DEF TypeOK, Unchecked
  <2>2. CookiesAnswered'
    BY <1>1, <1>2 DEF CookiesAnswered, Answered
  <2>3. LateCut'
    BY <1>1, <1>2, <1>3 DEF LateCut, Cut, Unchecked, TypeOK
  <2>4. AllAsked'
    BY <1>1, <1>2 DEF AllAsked, Asked
  <2> QED BY <2>1, <2>2, <2>3, <2>4 DEF SessionInv
<1>4. CASE UNCHANGED <<rows, late>>
  BY <1>4, ServesStep DEF Logout
<1> QED BY <1>3, <1>4 DEF Logout

\* An answer changes its browser's jar, not what requests carry.
LEMMA DeliverStep == ASSUME SessionInv, NEW q \in Request, Deliver(q) PROVE SessionInv'
<1>1. TypeOK /\ LateCut /\ AllAsked
  BY DEF SessionInv
<1>2. /\ Goes(q, "answer", "done") /\ pc[q] = "answer" /\ pc'[q] = "done"
      /\ UNCHANGED <<rows, expired, req, late>>
      /\ req[q] \in Sent
  BY <1>1 DEF Deliver, Goes, TypeOK
<1>3. req[q].by \in Browser /\ req[q].cookie \in Session
  BY <1>2 DEF Sent
<1>4. /\ jar' \in [Browser -> Session]
      /\ \A b \in Browser : jar'[b] \in {jar[b], None} \/ jar'[b] = q
  <2>1. \/ jar' = [jar EXCEPT ![req[q].by] = q]
        \/ jar' = [jar EXCEPT ![req[q].by] = None]
        \/ jar' = [jar EXCEPT ![req[q].by] = jar[req[q].by]]
    BY DEF Deliver
  <2> QED BY <1>1, <1>3, <2>1 DEF TypeOK, Session
<1>5. page' \in [Browser -> Session]
  BY <1>1, <1>3 DEF Deliver, TypeOK
<1>6. q \in late => Cut(q)'
  BY <1>1, <1>2 DEF LateCut, Cut
<1>7. Asked(q)'
  BY <1>1, <1>2 DEF AllAsked, Asked
<1> QED BY <1>2, <1>4, <1>5, <1>6, <1>7, GoesKeeps

\* An expired session ends for all its requests at once.
LEMMA ExpireStep == ASSUME SessionInv, NEW s \in Request, Expire(s) PROVE SessionInv'
<1>1. TypeOK /\ CookiesAnswered /\ LateCut /\ AllAsked
  BY DEF SessionInv
<1>2. TypeOK'
  BY <1>1 DEF Expire, TypeOK, Unchecked
<1>3. CookiesAnswered' /\ AllAsked'
  BY <1>1 DEF Expire, CookiesAnswered, Answered, AllAsked, Asked
<1>4. LateCut'
  BY <1>1 DEF Expire, LateCut, Cut, Unchecked
<1> QED BY <1>2, <1>3, <1>4 DEF SessionInv

\* A browser that drops cookies sends fewer.
LEMMA DropStep == ASSUME SessionInv, NEW b \in Browser, DropCookies(b) PROVE SessionInv'
<1>1. TypeOK'
  BY DEF SessionInv, DropCookies, TypeOK, Session
<1>2. CookiesAnswered'
  BY DEF SessionInv, DropCookies, TypeOK, CookiesAnswered, Answered
<1>3. LateCut' /\ AllAsked'
  BY DEF SessionInv, DropCookies, LateCut, Cut, AllAsked, Asked
<1> QED BY <1>1, <1>2, <1>3 DEF SessionInv

\* Every step keeps the invariant.
LEMMA SessionStep == ASSUME SessionInv, [Next]_vars PROVE SessionInv'
<1>1. CASE UNCHANGED vars
  BY <1>1 DEF SessionInv, TypeOK, CookiesAnswered, Answered, LateCut, Cut, AllAsked, Asked, vars
<1>2. ASSUME NEW q \in Request, Serve(q) PROVE SessionInv'
  BY <1>2, ServesStep DEF Serve
<1> QED
  BY <1>1, <1>2, SendStep, LoginStep, AuthenticatedStep, ValidCSRFStep, LogoutStep, DeliverStep,
     ExpireStep, DropStep
  DEF Next, Step, Terminating

\* So it always holds.
LEMMA SessionAlways == Spec => []SessionInv
<1>1. Init => SessionInv
  BY SessionStart
<1>2. SessionInv /\ [Next]_vars => SessionInv'
  BY SessionStep
<1> QED BY <1>1, <1>2, PTL DEF Spec

(****************************************************************************)
(* Every reachable state of AdminSession has the declared types.            *)
(****************************************************************************)
THEOREM SessionTyping == Spec => []TypeOK
BY SessionAlways, PTL DEF SessionInv

(****************************************************************************)
(* A session that ends, ends for every request that has a check before it,  *)
(* for any number of browsers, tabs and requests in any order.              *)
(****************************************************************************)
THEOREM EndsAreForGood == Spec => []EndsForGood
<1>1. SessionInv => EndsForGood
  BY DEF SessionInv, LateCut, Cut, EndsForGood, Served
<1> QED BY <1>1, SessionAlways, PTL

(****************************************************************************)
(* Whatever is changed or ended is so through a form of the same session.   *)
(****************************************************************************)
THEOREM FormsAreOwn == Spec => []OwnForm
<1>1. SessionInv => OwnForm
  BY DEF SessionInv, AllAsked, Asked, OwnForm, Served
<1> QED BY <1>1, SessionAlways, PTL

-----------------------------------------------------------------------------
(* Numbers: digits to any base, and the order of the texts.                 *)

\* Every number is a quotient and a remainder of the base.
LEMMA Euclid ==
    ASSUME NEW a \in Nat, NEW b \in Nat \ {0}
    PROVE  a \div b \in Nat /\ a % b \in Nat /\ a % b < b /\ a = b * (a \div b) + (a % b)
OBVIOUS

\* A higher first digit makes the greater number.
LEMMA Ordered ==
    ASSUME NEW b \in Nat \ {0}, NEW x \in Nat, NEW y \in Nat, x < y,
           NEW u \in Nat, NEW v \in Nat, u < b
    PROVE  b * x + u < b * y + v
<1>1. PICK d \in Nat : y = x + 1 + d
  <2>1. y - x - 1 \in Nat /\ y = x + 1 + (y - x - 1)
    OBVIOUS
  <2> QED BY <2>1
<1>2. b * y = b * x + b + b * d
  BY <1>1
<1>3. b * d \in Nat /\ b * x \in Nat /\ b * y \in Nat
  OBVIOUS
<1> QED BY <1>2, <1>3

\* The digits of a number are unique.
LEMMA Unique ==
    ASSUME NEW b \in Nat \ {0}, NEW x \in Nat, NEW y \in Nat, NEW u \in Nat, NEW v \in Nat,
           u < b, v < b, b * x + u = b * y + v
    PROVE  x = y /\ u = v
<1>1. ~(x < y) /\ ~(y < x)
  <2>1. b * x + u \in Nat /\ b * y + v \in Nat
    OBVIOUS
  <2> QED BY <2>1, Ordered
<1>2. x = y
  BY <1>1
<1> QED BY <1>2

\* An instant is its second and two digits.
LEMMA Digits ==
    ASSUME NEW t \in Nat
    PROVE  /\ List!Second(t) \in Nat
           /\ t = Base * (Base * List!Second(t) + ((t \div Base) % Base)) + (t % Base)
           /\ (t \div Base) % Base \in Nat /\ (t \div Base) % Base < Base
           /\ t % Base \in Nat /\ t % Base < Base
<1> DEFINE q == t \div Base
           r == t % Base
           x == q \div Base
           y == q % Base
           z == List!Second(t)
           w == t % (Base * Base)
<1>1. Base \in Nat \ {0} /\ Base * Base \in Nat \ {0}
  BY PagesAssumption
<1>2. q \in Nat /\ r \in Nat /\ r < Base /\ t = Base * q + r
  BY <1>1, Euclid
<1>3. x \in Nat /\ y \in Nat /\ y < Base /\ q = Base * x + y
  <2> HIDE DEF q
  <2> QED BY <1>1, <1>2, Euclid
<1>4. z \in Nat /\ w \in Nat /\ w < Base * Base /\ t = (Base * Base) * z + w
  BY <1>1, Euclid DEF List!Second
<1> HIDE DEF q, r, x, y, z, w
<1>5. Base * y + r \in Nat /\ Base * y + r < Base * Base
  <2>1. Base * y <= Base * (Base - 1)
    BY <1>1, <1>3
  <2> QED BY <1>1, <1>2, <1>3, <2>1
<1>6. t = (Base * Base) * x + (Base * y + r)
  <2>1. Base * q = Base * (Base * x + y)
    BY <1>3
  <2>2. Base * (Base * x + y) = (Base * Base) * x + Base * y
    BY <1>1, <1>3
  <2> QED BY <1>1, <1>2, <1>3, <2>1, <2>2
<1>7. z = x
  BY <1>1, <1>3, <1>4, <1>5, <1>6, Unique
<1> QED BY <1>2, <1>3, <1>4, <1>7 DEF y, r, q, z

\* The digits of a text, Base standing for the Z.
Tenths(t) == IF (t \div Base) % Base = 0 /\ t % Base = 0 THEN Base ELSE (t \div Base) % Base
Rest(t) == IF t % Base = 0 THEN Base ELSE t % Base

\* The key of an instant, digit by digit: its second, its fraction, what ends the text.
LEMMA Texts ==
    ASSUME NEW t \in Nat
    PROVE  /\ List!Second(t) \in Nat
           /\ Tenths(t) \in Nat /\ Tenths(t) < Base + 1
           /\ Rest(t) \in Nat /\ Rest(t) < Base + 1
           /\ (Base + 1) * List!Second(t) + Tenths(t) \in Nat
           /\ List!Key(t) = (Base + 1) * ((Base + 1) * List!Second(t) + Tenths(t)) + Rest(t)
           /\ List!Key(t) \in Nat
<1>1. List!Second(t) \in Nat /\ Base \in Nat \ {0}
  BY Digits, PagesAssumption
<1>2. /\ Tenths(t) \in Nat /\ Tenths(t) < Base + 1
      /\ Rest(t) \in Nat /\ Rest(t) < Base + 1
  <2> DEFINE a == (t \div Base) % Base
             c == t % Base
  <2>1. a \in Nat /\ a < Base /\ c \in Nat /\ c < Base
    BY Digits
  <2>2. /\ Tenths(t) = IF a = 0 /\ c = 0 THEN Base ELSE a
        /\ Rest(t) = IF c = 0 THEN Base ELSE c
    BY DEF Tenths, Rest
  <2> HIDE DEF a, c
  <2> QED BY <1>1, <2>1, <2>2
<1>3. List!Key(t) = (List!Second(t) * (Base + 1) + Tenths(t)) * (Base + 1) + Rest(t)
  BY DEF List!Key, List!Text, Tenths, Rest
<1> DEFINE m == (Base + 1) * List!Second(t) + Tenths(t)
<1>4. m = List!Second(t) * (Base + 1) + Tenths(t) /\ m \in Nat
  BY <1>1, <1>2
<1>5. List!Key(t) = m * (Base + 1) + Rest(t)
  BY <1>3, <1>4
<1> HIDE DEF m
<1>6. List!Key(t) = (Base + 1) * m + Rest(t) /\ List!Key(t) \in Nat
  BY <1>1, <1>2, <1>4, <1>5
<1> QED BY <1>1, <1>2, <1>4, <1>6 DEF m

\* Two instants have two texts, and a later second a greater one.
LEMMA KeysDiffer ==
    ASSUME NEW t \in Nat, NEW u \in Nat, List!Key(t) = List!Key(u) PROVE t = u
<1> DEFINE b == Base + 1
           x(i) == b * List!Second(i) + Tenths(i)
<1>1. Base \in Nat \ {0} /\ b \in Nat \ {0}
  BY PagesAssumption
<1>2. \A i \in Nat : /\ List!Second(i) \in Nat /\ x(i) \in Nat /\ List!Key(i) = b * x(i) + Rest(i)
                     /\ Tenths(i) \in Nat /\ Tenths(i) < b /\ Rest(i) \in Nat /\ Rest(i) < b
  BY Texts
<1>3. \A i \in Nat : x(i) = b * List!Second(i) + Tenths(i)
  OBVIOUS
<1> HIDE DEF b, x
<1>4. b * x(t) + Rest(t) = b * x(u) + Rest(u)
  BY <1>2
<1>5. x(t) = x(u) /\ Rest(t) = Rest(u)
  BY <1>1, <1>2, <1>4, Unique
<1>6. b * List!Second(t) + Tenths(t) = b * List!Second(u) + Tenths(u)
  BY <1>3, <1>5
<1>7. List!Second(t) = List!Second(u) /\ Tenths(t) = Tenths(u)
  <2>1. /\ List!Second(t) \in Nat /\ Tenths(t) \in Nat /\ Tenths(t) < b
        /\ List!Second(u) \in Nat /\ Tenths(u) \in Nat /\ Tenths(u) < b
    BY <1>2
  <2> QED BY ONLY <1>1, <1>6, <2>1, Unique
<1> DEFINE ten(i) == (i \div Base) % Base
           one(i) == i % Base
<1>8. \A i \in Nat : /\ i = Base * (Base * List!Second(i) + ten(i)) + one(i)
                     /\ ten(i) \in Nat /\ ten(i) < Base /\ one(i) \in Nat /\ one(i) < Base
                     /\ Tenths(i) = IF ten(i) = 0 /\ one(i) = 0 THEN Base ELSE ten(i)
                     /\ Rest(i) = IF one(i) = 0 THEN Base ELSE one(i)
  BY Digits DEF Tenths, Rest
<1> HIDE DEF ten, one
<1>9. one(t) = one(u)
  BY <1>1, <1>5, <1>8
<1>10. ten(t) = ten(u)
  BY <1>1, <1>7, <1>8, <1>9
<1> QED BY <1>7, <1>8, <1>9, <1>10

-----------------------------------------------------------------------------
(* Ranks: where ORDER BY and OFFSET find a row among finitely many.         *)

Above(R, r) == {q \in R : List!Key(q) > List!Key(r)}
Rank(R, r) == List!Cardinality(Above(R, r))

\* Listing counts as the theorems about finite sets do.
LEMMA Counts == \A S : List!Cardinality(S) = Cardinality(S)
BY DEF List!Cardinality, Cardinality

\* Every place from 0 on is that of exactly one row.
LEMMA Places ==
    ASSUME NEW R \in SUBSET Nat, IsFiniteSet(R)
    PROVE  /\ Cardinality(R) \in Nat
           /\ \A r \in R : Rank(R, r) \in Nat /\ Rank(R, r) < Cardinality(R)
           /\ \A r, q \in R : Rank(R, r) = Rank(R, q) => r = q
           /\ \A k \in Nat : k < Cardinality(R) => \E r \in R : Rank(R, r) = k
<1> DEFINE n == Cardinality(R)
<1>1. n \in Nat
  BY FS_CardinalityType
<1>2. \A r \in R : List!Key(r) \in Nat
  BY Texts
<1>3. ASSUME NEW r \in R
      PROVE  IsFiniteSet(Above(R, r)) /\ Rank(R, r) \in Nat /\ Rank(R, r) < n
  <2>1. Above(R, r) \subseteq R \ {r}
    BY <1>2 DEF Above
  <2>2. IsFiniteSet(R \ {r}) /\ Cardinality(R \ {r}) = n - 1
    BY FS_RemoveElement
  <2>3. IsFiniteSet(Above(R, r)) /\ Cardinality(Above(R, r)) <= n - 1
    BY <2>1, <2>2, FS_Subset
  <2>4. Cardinality(Above(R, r)) \in Nat
    BY <2>3, FS_CardinalityType
  <2> QED BY <1>1, <2>3, <2>4, Counts DEF Rank
<1>4. ASSUME NEW r \in R, NEW q \in R, List!Key(r) < List!Key(q) PROVE Rank(R, r) # Rank(R, q)
  <2>1. \A p \in R : List!Key(p) > List!Key(q) => List!Key(p) > List!Key(r)
    <3> HIDE DEF n
    <3> QED BY <1>2, <1>4
  <2>3. Above(R, q) \subseteq Above(R, r) /\ q \in Above(R, r) /\ q \notin Above(R, q)
    <3>1. List!Key(q) > List!Key(r) /\ ~(List!Key(q) > List!Key(q))
      BY <1>2, <1>4
    <3> QED BY <2>1, <3>1 DEF Above
  <2>2. IsFiniteSet(Above(R, r))
    BY <1>3
  <2> QED BY <2>2, <2>3, FS_Subset, Counts DEF Rank
<1>5. ASSUME NEW r \in R, NEW q \in R, Rank(R, r) = Rank(R, q) PROVE r = q
  <2>1. ~(List!Key(r) < List!Key(q)) /\ ~(List!Key(q) < List!Key(r))
    BY <1>4, <1>5
  <2>2. List!Key(r) = List!Key(q)
    BY <1>2, <2>1
  <2> QED BY <2>2, KeysDiffer
<1> DEFINE T == 0..(n - 1)
           f == [r \in R |-> Rank(R, r)]
<1>6. IsFiniteSet(T) /\ Cardinality(T) = n
  <2> HIDE DEF n
  <2>1. 0 \in Int /\ n - 1 \in Int
    BY <1>1
  <2> QED BY <1>1, <2>1, FS_Interval
<1>7. f \in Injection(R, T)
  <2>1. f \in [R -> T]
    BY <1>1, <1>3
  <2> QED BY <1>5, <2>1 DEF Injection, IsInjective
<1>8. f \in Surjection(R, T)
  <2> HIDE DEF f, T
  <2> QED BY <1>6, <1>7, FS_Injection
<1>9. ASSUME NEW k \in Nat, k < n PROVE \E r \in R : Rank(R, r) = k
  <2>1. k \in T
    BY <1>1, <1>9
  <2>2. \E r \in R : f[r] = k
    <3> HIDE DEF f, T
    <3> QED BY <1>8, <2>1 DEF Surjection
  <2> QED BY <2>2
<1> QED BY <1>1, <1>3, <1>5, <1>9

\* The rows of k places, from m on.
Window(R, m, k) == {r \in R : m <= Rank(R, r) /\ Rank(R, r) < m + k}

\* No more than k, and fewer only if there are no rows behind.
LEMMA Windows ==
    ASSUME NEW R \in SUBSET Nat, IsFiniteSet(R), NEW m \in Nat, NEW k \in Nat
    PROVE  /\ IsFiniteSet(Window(R, m, k))
           /\ Cardinality(Window(R, m, k)) <= k
           /\ Cardinality(Window(R, m, k)) < k => \A r \in R : Rank(R, r) + 1 < m + k
<1> DEFINE W == Window(R, m, k)
           T == m..(m + k - 1)
           f == [r \in W |-> Rank(R, r)]
<1>1. W \subseteq R /\ \A r \in R : Rank(R, r) \in Nat
  BY Places DEF Window
<1>2. IsFiniteSet(T) /\ Cardinality(T) = k
  BY FS_Interval
<1>3. f \in Injection(W, T)
  <2>1. \A r \in W : Rank(R, r) \in T
    <3>1. ASSUME NEW r \in W PROVE Rank(R, r) \in T
      <4>1. Rank(R, r) \in Nat /\ m <= Rank(R, r) /\ Rank(R, r) < m + k
        BY <1>1 DEF Window
      <4> QED BY <4>1
    <3> QED BY <3>1
  <2>3. f \in [W -> T]
    BY <2>1
  <2>2. ASSUME NEW r \in W, NEW q \in W, f[r] = f[q] PROVE r = q
    <3>1. r \in R /\ q \in R /\ Rank(R, r) = Rank(R, q)
      BY <1>1, <2>2
    <3> HIDE DEF W, T, f
    <3> QED BY <3>1, Places
  <2> QED BY <2>2, <2>3 DEF Injection, IsInjective
<1>4. /\ IsFiniteSet(W) /\ Cardinality(W) <= k
      /\ Cardinality(W) = k <=> f \in Surjection(W, T)
  <2> HIDE DEF f, T, W
  <2> QED BY <1>2, <1>3, FS_Injection
<1>5. ASSUME NEW r \in R, m + k <= Rank(R, r) + 1 PROVE f \in Surjection(W, T)
  <2>1. ASSUME NEW i \in T PROVE \E q \in W : f[q] = i
    <3>1. i \in Nat /\ m <= i /\ i < m + k /\ i < Cardinality(R)
      BY <1>1, <1>5, Places
    <3>2. PICK q \in R : Rank(R, q) = i
      BY <3>1, Places
    <3>3. q \in W
      BY <3>1, <3>2 DEF Window
    <3> QED BY <3>2, <3>3
  <2>2. f \in [W -> T]
    BY <1>3 DEF Injection
  <2> QED BY <2>1, <2>2 DEF Surjection
<1>6. Cardinality(W) \in Nat
  BY <1>4, FS_CardinalityType
<1> QED BY <1>1, <1>4, <1>5, <1>6

\* A new row moves the others by one place at most, and never up.
LEMMA PlacesAfterAdd ==
    ASSUME NEW R \in SUBSET Nat, IsFiniteSet(R), NEW x \in Nat, x \notin R, NEW r \in R
    PROVE  Rank(R \cup {x}, r) \in {Rank(R, r), Rank(R, r) + 1}
<1>1. IsFiniteSet(Above(R, r))
  <2>1. Above(R, r) \subseteq R
    BY DEF Above
  <2> QED BY <2>1, FS_Subset
<1>2. Above(R \cup {x}, r) \in {Above(R, r), Above(R, r) \cup {x}} /\ x \notin Above(R, r)
  BY DEF Above
<1> QED BY <1>1, <1>2, FS_AddElement, Counts DEF Rank

\* And a row that is gone moves them up by one at most.
LEMMA PlacesAfterDelete ==
    ASSUME NEW R \in SUBSET Nat, IsFiniteSet(R), NEW x \in R, NEW r \in R \ {x}
    PROVE  Rank(R, r) \in {Rank(R \ {x}, r), Rank(R \ {x}, r) + 1}
<1>1. IsFiniteSet(R \ {x}) /\ R \ {x} \in SUBSET Nat /\ (R \ {x}) \cup {x} = R
  <2>1. IsFiniteSet(R \ {x})
    BY FS_RemoveElement
  <2> QED BY <2>1
<1> QED BY <1>1, PlacesAfterAdd

-----------------------------------------------------------------------------
(* Listing, for any size of a page, any base and any number of instants.    *)

\* Rows seen that additions have moved behind the pages so far, and rows that are
\* still unseen though deletions have moved them before their end.
Pushed == {r \in seen \cap stored : number * PageSize <= Rank(stored, r)}
Passed == {r \in (first \ gone) \ seen : Rank(stored, r) < number * PageSize}

ListInv ==
    /\ List!TypeOK
    /\ \A r \in saving \cup stored \cup seen \cup first \cup added \cup gone : r < now
    /\ saving \cap (stored \cup seen \cup first \cup added \cup gone) = {}
    /\ gone \cap stored = {}
    /\ number = 0 => seen = {} /\ twice = {} /\ cut = FALSE /\ hasNext = FALSE
    /\ number > 0 => first \ gone \subseteq stored
    /\ Cardinality(twice \cup Pushed) <= Cardinality(added)
    /\ number > 0 /\ ~cut =>
          IF hasNext THEN Cardinality(Passed) <= Cardinality(gone)
                     ELSE Cardinality((first \ gone) \ seen) <= Cardinality(gone)

\* Sets of instants are finite, and cardinalities grow with them.
LEMMA Instants ==
    ASSUME NEW S \in SUBSET List!Instant
    PROVE  /\ S \in SUBSET Nat /\ IsFiniteSet(S) /\ Cardinality(S) \in Nat
           /\ \A T \in SUBSET S : IsFiniteSet(T) /\ Cardinality(T) \in Nat /\ Cardinality(T) <= Cardinality(S)
           /\ \A x \in List!Instant : Cardinality(S \cup {x}) = IF x \in S THEN Cardinality(S) ELSE Cardinality(S) + 1
<1>1. IsFiniteSet(List!Instant) /\ List!Instant \subseteq Nat
  BY PagesAssumption, FS_Interval DEF List!Instant
<1>2. IsFiniteSet(S) /\ S \in SUBSET Nat
  BY <1>1, FS_Subset
<1> QED BY <1>2, FS_Subset, FS_CardinalityType, FS_AddElement

\* At most one row more.
LEMMA OneMore ==
    ASSUME NEW S \in SUBSET List!Instant, NEW T \in SUBSET List!Instant,
           \A x, y \in T \ S : x = y
    PROVE  Cardinality(T) <= Cardinality(S) + 1
<1>1. CASE T \ S = {}
  <2>1. T \in SUBSET S
    BY <1>1
  <2> QED BY <2>1, Instants
<1>2. CASE T \ S # {}
  <2>1. PICK x \in T : x \notin S
    BY <1>2
  <2>2. T \in SUBSET (S \cup {x}) /\ S \cup {x} \in SUBSET List!Instant /\ x \in List!Instant
    BY <2>1
  <2>3. Cardinality(T) <= Cardinality(S \cup {x}) /\ Cardinality(S \cup {x}) = Cardinality(S) + 1
    BY <2>1, <2>2, Instants
  <2> QED BY <2>3
<1> QED BY <1>1, <1>2

\* What the invariant says of the sets of rows: finite, made of instants that have passed.
LEMMA ListFacts ==
    ASSUME ListInv
    PROVE  /\ {saving, stored, seen, twice, first, added, gone, shown} \subseteq SUBSET List!Instant
           /\ stored \in SUBSET Nat /\ IsFiniteSet(stored) /\ number \in Nat
           /\ Pushed \in SUBSET List!Instant /\ Passed \in SUBSET List!Instant
           /\ twice \cup Pushed \in SUBSET List!Instant
           /\ PageSize \in Nat /\ number * PageSize \in Nat /\ (number + 1) * PageSize = number * PageSize + PageSize
           /\ now \in Nat
<1>1. {saving, stored, seen, twice, first, added, gone, shown} \subseteq SUBSET List!Instant
  BY DEF ListInv, List!TypeOK
<1>2. number \in Nat /\ PageSize \in Nat /\ now \in Nat
  BY PagesAssumption DEF ListInv, List!TypeOK
<1>3. number * PageSize \in Nat /\ (number + 1) * PageSize = number * PageSize + PageSize
  BY <1>2
<1>4. Pushed \in SUBSET List!Instant /\ Passed \in SUBSET List!Instant
  BY <1>1 DEF Pushed, Passed
<1> QED BY <1>1, <1>2, <1>3, <1>4, Instants

\* Nothing has been added, deleted or shown at the start.
LEMMA ListStart == List!Init => ListInv
<1> SUFFICES ASSUME List!Init PROVE ListInv
  OBVIOUS
<1> USE DEF List!Init
<1>1. Cardinality({}) = 0
  BY FS_EmptySet
<1>2. List!TypeOK
  <2>1. 0 \in 0..MaxTime + 1 /\ Cardinality({}) <= PageSize /\ 0 \in Nat
    BY <1>1, PagesAssumption
  <2>2. UNION {saving, seen, twice, added, gone, shown} \subseteq List!Instant /\ stored \subseteq List!Instant /\ first \subseteq List!Instant
    OBVIOUS
  <2>3. {hasNext, cut} \subseteq BOOLEAN
    OBVIOUS
  <2>4. now \in 0..MaxTime + 1 /\ Cardinality(shown) <= PageSize /\ number \in Nat
    BY <2>1
  <2> QED BY ONLY <2>2, <2>3, <2>4, Counts DEF List!TypeOK
<1>3. Pushed = {}
  BY DEF Pushed
<1> QED BY <1>1, <1>2, <1>3 DEF ListInv

\* A Save takes an instant no other has, or gives it up: no row and no page changes.
LEMMA SavingKeeps == ASSUME ListInv, List!Stamp \/ List!Drop PROVE ListInv'
<1>1. UNCHANGED <<stored, added, gone, number, shown, hasNext, seen, twice, first, cut>>
  BY DEF List!Stamp, List!Drop, List!Browsing
<1>2. /\ now \in Nat /\ saving \subseteq List!Instant /\ MaxTime \in Nat
      /\ stored \cup seen \cup first \cup added \cup gone \subseteq List!Instant
      /\ List!Instant \subseteq Nat
  BY ListFacts, PagesAssumption DEF List!Instant
<1>3. \/ now' = now + 1 /\ now <= MaxTime /\ saving' = saving \cup {now}
      \/ now' = now /\ saving' \subseteq saving
  BY DEF List!Stamp, List!Drop
<1>4. /\ now' \in 0..MaxTime + 1 /\ saving' \subseteq List!Instant
      /\ \A r \in saving' : r < now' /\ r \notin stored \cup seen \cup first \cup added \cup gone
      /\ \A r \in stored \cup seen \cup first \cup added \cup gone : r < now'
  <2>1. now \in 0..MaxTime + 1 /\ \A r \in List!Instant : r < now => r < now + 1
    BY <1>2 DEF ListInv, List!TypeOK
  <2>2. CASE now' = now + 1 /\ now <= MaxTime /\ saving' = saving \cup {now}
    <3>1. now \in List!Instant /\ now + 1 \in 0..MaxTime + 1 /\ now < now + 1
      BY <1>2, <2>2 DEF List!Instant
    <3>2. now \notin stored \cup seen \cup first \cup added \cup gone
      BY <1>2 DEF ListInv
    <3> QED BY <1>2, <2>1, <2>2, <3>1, <3>2 DEF ListInv
  <2>3. CASE now' = now /\ saving' \subseteq saving
    BY <1>2, <2>1, <2>3 DEF ListInv
  <2> QED BY <1>3, <2>2, <2>3
<1>5. List!TypeOK'
  BY <1>1, <1>4 DEF ListInv, List!TypeOK
<1>6. Pushed' = Pushed /\ Passed' = Passed
  BY <1>1 DEF Pushed, Passed
<1>7. saving' \cap (stored \cup seen \cup first \cup added \cup gone) = {}
  BY <1>4
<1> QED BY <1>1, <1>4, <1>5, <1>6, <1>7 DEF ListInv

\* A row that is stored moves at most one row that was seen behind the pages.
LEMMA AddKeeps == ASSUME ListInv, List!Add PROVE ListInv'
<1>1. PICK t \in saving : /\ saving' = saving \ {t}
                          /\ stored' = stored \cup {t} /\ added' = added \cup {t}
                          /\ UNCHANGED <<now, gone, number, shown, hasNext, seen, twice, first, cut>>
  BY DEF List!Add, List!Browsing
<1>2. t \in Nat /\ t \in List!Instant /\ t < now
  <2>1. saving \subseteq List!Instant /\ List!Instant \subseteq Nat
    BY ListFacts DEF List!Instant
  <2> QED BY <2>1 DEF ListInv
<1>3. t \notin stored /\ t \notin seen /\ t \notin first /\ t \notin added /\ t \notin gone
  BY DEF ListInv
<1>4. List!TypeOK'
  BY <1>1, <1>2 DEF ListInv, List!TypeOK
<1>5. /\ \A r \in saving' \cup stored' \cup seen \cup first \cup added' \cup gone : r < now
      /\ saving' \cap (stored' \cup seen \cup first \cup added' \cup gone) = {}
  BY <1>1, <1>2 DEF ListInv
<1>6. \A r \in stored : Rank(stored', r) \in {Rank(stored, r), Rank(stored, r) + 1} /\ Rank(stored, r) \in Nat
  BY <1>1, <1>2, <1>3, ListFacts, PlacesAfterAdd, Places
<1>7. Cardinality(twice' \cup Pushed') <= Cardinality(added')
  <2>1. \A r \in Pushed' \ Pushed : r \in stored /\ Rank(stored, r) + 1 = number * PageSize
    BY <1>1, <1>3, <1>6, ListFacts DEF Pushed
  <2>2. \A x, y \in (twice' \cup Pushed') \ (twice \cup Pushed) : x = y
    BY <1>1, <1>6, <2>1, ListFacts, Places
  <2>3. twice' \cup Pushed' \in SUBSET List!Instant
    BY <1>1, <1>4 DEF List!TypeOK, Pushed
  <2>4. Cardinality(twice' \cup Pushed') <= Cardinality(twice \cup Pushed) + 1
    BY <2>2, <2>3, ListFacts, OneMore
  <2>5. Cardinality(added') = Cardinality(added) + 1 /\ Cardinality(added) \in Nat
    BY <1>1, <1>2, <1>3, ListFacts, Instants
  <2>6. Cardinality(twice \cup Pushed) \in Nat /\ Cardinality(twice' \cup Pushed') \in Nat
    BY <2>3, ListFacts, Instants
  <2> QED BY <2>4, <2>5, <2>6 DEF ListInv
<1>8. number > 0 => Passed' \subseteq Passed
  <2> DEFINE m == number * PageSize
  <2>1. m \in Nat /\ m' = m
    BY <1>1, ListFacts
  <2>2. /\ Passed = {r \in (first \ gone) \ seen : Rank(stored, r) < m}
        /\ Passed' = {r \in (first \ gone) \ seen : Rank(stored', r) < m}
    BY <1>1 DEF Passed
  <2> HIDE DEF m
  <2>3. \A r \in stored : Rank(stored', r) < m => Rank(stored, r) < m
    BY <1>6, <2>1
  <2>4. number > 0 => first \ gone \subseteq stored
    BY DEF ListInv
  <2> QED BY <2>2, <2>3, <2>4
<1>9. number > 0 => Cardinality(Passed') <= Cardinality(Passed) /\ Cardinality(Passed') \in Nat /\ Cardinality(Passed) \in Nat
  BY <1>8, ListFacts, Instants
<1>10. Cardinality(gone) \in Nat
  BY ListFacts, Instants
<1>11. number > 0 /\ ~cut =>
          IF hasNext THEN Cardinality(Passed') <= Cardinality(gone)
                     ELSE Cardinality((first \ gone) \ seen) <= Cardinality(gone)
  BY <1>9, <1>10 DEF ListInv
<1> QED BY <1>1, <1>3, <1>4, <1>5, <1>7, <1>11 DEF ListInv

\* A row that is deleted moves at most one unseen row before the end of the pages.
LEMMA DeleteKeeps == ASSUME ListInv, List!Delete PROVE ListInv'
<1>1. PICK x \in stored : stored' = stored \ {x} /\ gone' = gone \cup {x}
  BY DEF List!Delete
<1>2. UNCHANGED <<now, saving, added, number, shown, hasNext, seen, twice, first, cut>>
  BY DEF List!Delete, List!Browsing
<1>3. x \notin gone /\ x < now /\ x \in List!Instant
  BY ListFacts DEF ListInv
<1>4. List!TypeOK'
  BY <1>1, <1>2, <1>3 DEF ListInv, List!TypeOK
<1>5. \A r \in stored' : /\ Rank(stored, r) \in {Rank(stored', r), Rank(stored', r) + 1}
                         /\ Rank(stored, r) \in Nat /\ Rank(stored', r) \in Nat
  <2>1. stored' \in SUBSET Nat /\ IsFiniteSet(stored')
    BY <1>1, ListFacts, FS_RemoveElement
  <2> QED BY <1>1, <2>1, ListFacts, PlacesAfterDelete, Places
<1>6. Cardinality(twice' \cup Pushed') <= Cardinality(added')
  <2>1. Pushed' \subseteq Pushed
    <3> DEFINE m == number * PageSize
    <3>1. m \in Nat
      BY ListFacts
    <3>2. /\ Pushed = {r \in seen \cap stored : m <= Rank(stored, r)}
          /\ Pushed' = {r \in seen \cap stored' : m <= Rank(stored', r)}
      BY <1>2 DEF Pushed
    <3> HIDE DEF m
    <3>3. \A r \in stored' : m <= Rank(stored', r) => m <= Rank(stored, r)
      BY <1>5, <3>1
    <3> QED BY <1>1, <3>2, <3>3
  <2>2. twice \cup Pushed' \in SUBSET (twice \cup Pushed)
    BY <2>1
  <2>3. Cardinality(twice \cup Pushed') <= Cardinality(twice \cup Pushed)
        /\ {Cardinality(twice \cup Pushed'), Cardinality(twice \cup Pushed), Cardinality(added)} \subseteq Nat
    BY <2>2, ListFacts, Instants
  <2> QED BY <1>2, <2>3 DEF ListInv
<1>7. Cardinality(gone') = Cardinality(gone) + 1 /\ Cardinality(gone) \in Nat
  BY <1>1, <1>3, ListFacts, Instants
<1>8. number > 0 => Cardinality(Passed') <= Cardinality(Passed) + 1
  <2> SUFFICES ASSUME number > 0 PROVE Cardinality(Passed') <= Cardinality(Passed) + 1
    OBVIOUS
  <2> DEFINE m == number * PageSize
  <2>4. m \in Nat
    BY ListFacts
  <2>5. /\ Passed = {r \in (first \ gone) \ seen : Rank(stored, r) < m}
        /\ Passed' = {r \in (first \ gone') \ seen : Rank(stored', r) < m}
    BY <1>2 DEF Passed
  <2> HIDE DEF m
  <2>6. first \ gone' \subseteq stored' /\ first \ gone' \subseteq first \ gone
    BY <1>1 DEF ListInv
  <2>7. \A r \in stored' : Rank(stored', r) < m /\ ~(Rank(stored, r) < m) => Rank(stored, r) = m
    BY <1>5, <2>4
  <2>1. \A r \in Passed' \ Passed : r \in stored /\ Rank(stored, r) = m
    BY <1>1, <2>5, <2>6, <2>7
  <2>2. \A u, v \in Passed' \ Passed : u = v
    BY <2>1, ListFacts, Places
  <2>3. Passed' \in SUBSET List!Instant
    BY <1>2, ListFacts DEF Passed
  <2> QED BY <2>2, <2>3, ListFacts, OneMore
<1>9. Cardinality((first \ gone') \ seen) <= Cardinality((first \ gone) \ seen)
  <2>1. (first \ gone') \ seen \in SUBSET ((first \ gone) \ seen) /\ (first \ gone) \ seen \in SUBSET List!Instant
    BY <1>1, ListFacts
  <2> QED BY <2>1, Instants
<1>10. /\ Cardinality(Passed) \in Nat /\ Cardinality(Passed') \in Nat
       /\ Cardinality((first \ gone') \ seen) \in Nat /\ Cardinality((first \ gone) \ seen) \in Nat
  <2>1. /\ Passed' \in SUBSET List!Instant
        /\ (first \ gone) \ seen \in SUBSET List!Instant /\ (first \ gone') \ seen \in SUBSET List!Instant
    BY <1>2, ListFacts DEF Passed
  <2> QED BY <2>1, ListFacts, Instants
<1>11. number > 0 /\ ~cut =>
          IF hasNext THEN Cardinality(Passed') <= Cardinality(gone')
                     ELSE Cardinality((first \ gone') \ seen) <= Cardinality(gone')
  BY <1>7, <1>8, <1>9, <1>10 DEF ListInv
<1>12. number > 0 => first \ gone' \subseteq stored'
  BY <1>1 DEF ListInv
<1>13. /\ gone' \cap stored' = {}
       /\ \A r \in saving \cup stored' \cup seen \cup first \cup added \cup gone' : r < now
       /\ saving \cap (stored' \cup seen \cup first \cup added \cup gone') = {}
  BY <1>1, <1>3 DEF ListInv
<1> QED BY <1>2, <1>4, <1>6, <1>11, <1>12, <1>13 DEF ListInv

\* What a query yields is a window of the rows.
LEMMA Queries ==
    ASSUME ListInv, NEW k \in 0..PageSize + 1
    PROVE  /\ List!Query(number + 1, k) = Window(stored, number * PageSize, k)
           /\ List!Query(number + 1, k) \cap List!Query(number + 1, PageSize) \in
                SUBSET Window(stored, number * PageSize, PageSize)
           /\ List!Query(number + 1, PageSize) = Window(stored, number * PageSize, PageSize)
<1>1. List!Offset(number + 1) = number * PageSize
  BY ListFacts DEF List!Offset
<1>2. ASSUME NEW i PROVE List!Query(number + 1, i) = Window(stored, number * PageSize, i)
  <2>1. List!Query(number + 1, i) = {r \in stored : /\ List!Offset(number + 1) <= Rank(stored, r)
                                                   /\ Rank(stored, r) < List!Offset(number + 1) + i}
    BY DEF List!Query, Rank, Above
  <2> QED BY <1>1, <2>1 DEF Window
<1> QED BY <1>2

\* A page, the first or a later one, with everything the query yields or less.
LEMMA ShowKeeps ==
    ASSUME ListInv, NEW k \in 0..PageSize + 1,
           List!Shows(number + 1, k),
           number > 0 => first' = first /\ added' = added /\ gone' = gone /\ hasNext,
           number = 0 => first' = stored /\ added' = {} /\ gone' = {},
           cut' \in {cut, TRUE}, cut' = FALSE => cut = FALSE /\ k = PageSize + 1
    PROVE  ListInv'
<1> DEFINE kept == List!Query(number + 1, k) \cap List!Query(number + 1, PageSize)
           m == number * PageSize
<1>1. /\ number' = number + 1 /\ shown' = kept /\ seen' = seen \cup kept
      /\ hasNext' = (Cardinality(List!Query(number + 1, k)) > PageSize)
      /\ twice' = twice \cup (seen \cap kept) /\ stored' = stored /\ UNCHANGED <<now, saving>>
  <2>1. hasNext' = (Cardinality(List!Query(number + 1, k)) > PageSize)
    BY Zenon, Counts DEF List!Shows
  <2>2. /\ number' = number + 1 /\ shown' = kept /\ seen' = seen \cup kept
        /\ twice' = twice \cup (seen \cap kept) /\ stored' = stored /\ UNCHANGED <<now, saving>>
    BY Zenon DEF List!Shows
  <2> QED BY <2>1, <2>2
<1>2. /\ kept \subseteq Window(stored, m, PageSize)
      /\ List!Query(number + 1, k) = Window(stored, m, k)
      /\ k = PageSize + 1 => kept = Window(stored, m, PageSize)
  <2>1. Window(stored, m, PageSize) \subseteq Window(stored, m, PageSize + 1)
    BY ListFacts, Places DEF Window
  <2> QED BY <2>1, Queries
<1>3. /\ m \in Nat /\ PageSize \in Nat /\ number \in Nat /\ m' = m + PageSize
      /\ \A r \in stored : Rank(stored, r) \in Nat
  BY <1>1, ListFacts, Places
<1>4. /\ Pushed = {r \in seen \cap stored : m <= Rank(stored, r)}
      /\ Pushed' = {r \in seen' \cap stored : m' <= Rank(stored, r)}
      /\ Passed = {r \in (first \ gone) \ seen : Rank(stored, r) < m}
      /\ Passed' = {r \in (first' \ gone') \ seen' : Rank(stored, r) < m'}
  BY <1>1 DEF Pushed, Passed
<1> HIDE DEF kept, m
<1>5. kept \subseteq stored
  BY <1>2 DEF Window
<1>6. List!TypeOK'
  <2>1. Cardinality(kept) <= PageSize
    <3>1. /\ IsFiniteSet(Window(stored, m, PageSize))
          /\ Cardinality(Window(stored, m, PageSize)) <= PageSize
      BY <1>3, ListFacts, Windows
    <3>2. Cardinality(kept) <= Cardinality(Window(stored, m, PageSize)) /\ IsFiniteSet(kept)
      BY <1>2, <3>1, FS_Subset
    <3>3. Cardinality(kept) \in Nat /\ Cardinality(Window(stored, m, PageSize)) \in Nat
      BY <3>1, <3>2, FS_CardinalityType
    <3> QED BY <1>3, <3>1, <3>2, <3>3
  <2>2. hasNext' \in BOOLEAN /\ cut' \in BOOLEAN
    <3>1. hasNext' \in BOOLEAN
      BY <1>1
    <3>2. cut \in BOOLEAN
      BY DEF ListInv, List!TypeOK
    <3> QED BY <3>1, <3>2
  <2>3. /\ {saving, stored, seen, twice, first, added, gone, kept} \subseteq SUBSET List!Instant
    BY <1>5, ListFacts
  <2>4. /\ {saving', stored', seen', twice', first', added', gone', shown'} \subseteq SUBSET List!Instant
    <3>1. number > 0 \/ number = 0
      BY <1>3
    <3> QED BY <1>1, <2>3, <3>1
  <2>5. number' \in Nat /\ now' \in 0..MaxTime + 1
    BY <1>1, <1>3 DEF ListInv, List!TypeOK
  <2>6. /\ Cardinality(shown') <= PageSize /\ {hasNext', cut'} \subseteq BOOLEAN
        /\ UNION {saving', seen', twice', added', gone', shown'} \subseteq List!Instant
        /\ stored' \subseteq List!Instant /\ first' \subseteq List!Instant
    BY <1>1, <2>1, <2>2, <2>4
  <2> QED BY ONLY <2>5, <2>6, Counts DEF List!TypeOK
<1>7. CASE number > 0
  <2>1. first' = first /\ added' = added /\ gone' = gone /\ hasNext /\ number' > 0
    BY <1>1, <1>3, <1>7
  <2>2. /\ \A r \in saving' \cup stored' \cup seen' \cup first' \cup added' \cup gone' : r < now'
        /\ saving' \cap (stored' \cup seen' \cup first' \cup added' \cup gone') = {}
    BY <1>1, <1>5, <2>1 DEF ListInv
  <2>3. twice' \cup Pushed' \subseteq twice \cup Pushed
    <3>1. seen \cap kept \subseteq Pushed
      BY <1>2, <1>4, <1>5 DEF Window
    <3>2. \A r \in stored : m' <= Rank(stored, r) => m <= Rank(stored, r) /\ r \notin kept
      BY <1>2, <1>3 DEF Window
    <3> QED BY <1>1, <1>4, <3>1, <3>2
  <2>4. Cardinality(twice' \cup Pushed') <= Cardinality(added')
    <3>1. /\ twice' \cup Pushed' \in SUBSET (twice \cup Pushed) /\ twice \cup Pushed \in SUBSET List!Instant
          /\ added \in SUBSET List!Instant
      BY <2>3, ListFacts
    <3>2. /\ Cardinality(twice' \cup Pushed') <= Cardinality(twice \cup Pushed)
          /\ {Cardinality(twice' \cup Pushed'), Cardinality(twice \cup Pushed), Cardinality(added)} \subseteq Nat
      BY <3>1, Instants
    <3> QED BY <2>1, <3>2 DEF ListInv
  <2>5. ASSUME ~cut'
        PROVE  IF hasNext' THEN Cardinality(Passed') <= Cardinality(gone')
                           ELSE Cardinality((first' \ gone') \ seen') <= Cardinality(gone')
    <3>1. k = PageSize + 1 /\ ~cut /\ first \ gone \subseteq stored
      BY <1>7, <2>5 DEF ListInv, List!TypeOK
    <3>2. \A r \in stored : r \notin kept /\ Rank(stored, r) < m' => Rank(stored, r) < m
      BY <1>2, <1>3, <3>1 DEF Window
    <3>3. Passed' \subseteq Passed
      BY <1>1, <1>4, <2>1, <3>1, <3>2
    <3>4. Cardinality(Passed') <= Cardinality(Passed)
          /\ {Cardinality(Passed'), Cardinality(Passed), Cardinality(gone)} \subseteq Nat
      BY <3>3, ListFacts, Instants
    <3>5. Cardinality(Passed) <= Cardinality(gone)
      BY <1>7, <2>1, <3>1 DEF ListInv
    <3>6. ASSUME ~hasNext' PROVE (first' \ gone') \ seen' = Passed'
      <4>1. ~(Cardinality(Window(stored, m, PageSize + 1)) > PageSize)
        BY <1>1, <1>2, <3>1, <3>6
      <4>2. PageSize + 1 \in Nat /\ IsFiniteSet(Window(stored, m, PageSize + 1))
        BY <1>3, ListFacts, Windows
      <4>3. Cardinality(Window(stored, m, PageSize + 1)) < PageSize + 1
        BY <1>3, <4>1, <4>2, FS_CardinalityType
      <4>4. \A r \in stored : Rank(stored, r) + 1 < m + (PageSize + 1)
        BY <1>3, <4>2, <4>3, ListFacts, Windows
      <4>5. \A r \in stored : Rank(stored, r) < m'
        BY <1>3, <4>4
      <4> QED BY <1>4, <2>1, <3>1, <4>5
    <3> QED BY <2>1, <3>4, <3>5, <3>6
  <2>6. stored' = stored /\ gone' \cap stored' = {} /\ first' \ gone' \subseteq stored' /\ number' # 0
    BY <1>1, <1>7, <2>1 DEF ListInv
  <2> QED BY ONLY <1>6, <2>2, <2>4, <2>5, <2>6 DEF ListInv
<1>8. CASE number = 0
  <2>1. first' = stored /\ added' = {} /\ gone' = {} /\ number' > 0 /\ seen = {} /\ twice = {} /\ m = 0
    BY <1>1, <1>3, <1>8 DEF ListInv, m
  <2>2. /\ \A r \in saving' \cup stored' \cup seen' \cup first' \cup added' \cup gone' : r < now'
        /\ saving' \cap (stored' \cup seen' \cup first' \cup added' \cup gone') = {}
    BY <1>1, <1>5, <2>1 DEF ListInv
  <2>3. twice' = {} /\ Pushed' = {}
    <3>1. \A r \in stored : m' <= Rank(stored, r) => r \notin kept
      BY <1>2, <1>3 DEF Window
    <3> QED BY <1>1, <1>4, <2>1, <3>1
  <2>4. Cardinality({}) = 0
    BY FS_EmptySet
  <2>5. ASSUME ~cut'
        PROVE  IF hasNext' THEN Passed' = {} ELSE (first' \ gone') \ seen' = {}
    <3>1. k = PageSize + 1
      BY <2>5 DEF ListInv, List!TypeOK
    <3>2. \A r \in stored : r \notin kept => ~(Rank(stored, r) < m')
      BY <1>2, <1>3, <2>1, <3>1 DEF Window
    <3>3. Passed' = {}
      BY <1>1, <1>4, <2>1, <3>2
    <3>6. ASSUME ~hasNext' PROVE (first' \ gone') \ seen' = Passed'
      <4>1. ~(Cardinality(Window(stored, m, PageSize + 1)) > PageSize)
        BY <1>1, <1>2, <3>1, <3>6
      <4>2. PageSize + 1 \in Nat /\ IsFiniteSet(Window(stored, m, PageSize + 1))
        BY <1>3, ListFacts, Windows
      <4>3. Cardinality(Window(stored, m, PageSize + 1)) < PageSize + 1
        BY <1>3, <4>1, <4>2, FS_CardinalityType
      <4>4. \A r \in stored : Rank(stored, r) + 1 < m + (PageSize + 1)
        BY <1>3, <4>2, <4>3, ListFacts, Windows
      <4>5. \A r \in stored : Rank(stored, r) < m'
        BY <1>3, <4>4
      <4> QED BY <1>4, <2>1, <4>5
    <3> QED BY <3>3, <3>6
  <2>6. gone' \cap stored' = {} /\ first' \ gone' \subseteq stored' /\ number' # 0
    BY <1>1, <2>1
  <2>7. Cardinality(twice' \cup Pushed') <= Cardinality(added')
    <3>1. twice' \cup Pushed' = {} /\ added' = {}
      BY <2>1, <2>3
    <3> QED BY <2>4, <3>1
  <2>8. ~cut' => IF hasNext' THEN Cardinality(Passed') <= Cardinality(gone')
                             ELSE Cardinality((first' \ gone') \ seen') <= Cardinality(gone')
    BY <2>1, <2>4, <2>5
  <2> QED BY ONLY <1>6, <2>2, <2>6, <2>7, <2>8 DEF ListInv
<1> QED BY <1>3, <1>7, <1>8

\* The next page, whole or cut short by a failing query.
LEMMA PagesKeep == ASSUME ListInv, List!Pages \/ List!BreaksOff PROVE ListInv'
<1>1. PageSize \in Nat /\ number \in Nat
  BY ListFacts
<1>2. PICK k \in 0..PageSize + 1 :
          /\ List!Open(k) \/ List!Turn(k)
          /\ cut' \in {cut, TRUE} /\ (cut' = FALSE => cut = FALSE /\ k = PageSize + 1)
  <2>1. CASE List!Pages
    <3>1. PageSize + 1 \in 0..PageSize + 1 /\ List!Limit = PageSize + 1
      BY <1>1 DEF List!Limit
    <3> QED BY <2>1, <3>1 DEF List!Pages
  <2>2. CASE List!BreaksOff
    <3>1. PICK k \in 0..PageSize : (List!Open(k) \/ List!Turn(k)) /\ cut' = TRUE
      BY <2>2 DEF List!BreaksOff
    <3>2. k \in 0..PageSize + 1
      BY <1>1
    <3> QED BY <3>1, <3>2
  <2> QED BY <2>1, <2>2
<1>3. CASE List!Open(k)
  <2>1. /\ List!Shows(number + 1, k) /\ number = 0
        /\ first' = stored /\ added' = {} /\ gone' = {}
    BY <1>1, <1>3 DEF List!Open
  <2>2. number > 0 => first' = first /\ added' = added /\ gone' = gone /\ hasNext
    BY <2>1
  <2>3. cut' \in {cut, TRUE} /\ (cut' = FALSE => cut = FALSE /\ k = PageSize + 1)
    BY <1>2
  <2> QED BY ONLY <2>1, <2>2, <2>3, ShowKeeps, ListInv, k \in 0..PageSize + 1
<1>4. CASE List!Turn(k)
  <2>1. /\ List!Shows(number + 1, k) /\ hasNext /\ number # 0
        /\ first' = first /\ added' = added /\ gone' = gone
    BY <1>4 DEF List!Turn, ListInv
  <2>2. number = 0 => first' = stored /\ added' = {} /\ gone' = {}
    BY <2>1
  <2>3. number > 0 => first' = first /\ added' = added /\ gone' = gone /\ hasNext
    BY <2>1
  <2>4. cut' \in {cut, TRUE} /\ (cut' = FALSE => cut = FALSE /\ k = PageSize + 1)
    BY <1>2
  <2> QED BY ONLY <2>1, <2>2, <2>3, <2>4, ShowKeeps, ListInv, k \in 0..PageSize + 1
<1> QED BY <1>2, <1>3, <1>4

\* Every step keeps the invariant.
LEMMA ListStep == ListInv /\ [List!Next]_List!vars => ListInv'
<1> SUFFICES ASSUME ListInv, [List!Next]_List!vars PROVE ListInv'
  OBVIOUS
<1>1. CASE UNCHANGED List!vars
  <2>1. UNCHANGED <<stored, now, saving, number, shown, hasNext, seen, twice, first, added, gone, cut>>
    BY <1>1 DEF List!vars
  <2>2. Pushed' = Pushed /\ Passed' = Passed
    BY <2>1 DEF Pushed, Passed
  <2> QED BY <2>1, <2>2 DEF ListInv, List!TypeOK
<1> QED BY <1>1, SavingKeeps, AddKeeps, DeleteKeeps, PagesKeep DEF List!Next

\* The invariant holds always.
LEMMA ListAlways == List!Spec => []ListInv
BY ListStart, ListStep, PTL DEF List!Spec

(****************************************************************************)
(* Whoever goes through all the pages misses no more rows than were deleted *)
(* meanwhile and sees no more twice than were added (pages.go:70-176), for  *)
(* pages of any size, however the texts of created_at order new rows.       *)
(****************************************************************************)
THEOREM PagesAlwaysExplained == List!Spec => []PagesExplained
<1>1. ListInv => PagesExplained
  <2> SUFFICES ASSUME ListInv PROVE PagesExplained
    OBVIOUS
  <2>1. Cardinality(twice) <= Cardinality(added)
    <3>1. twice \in SUBSET (twice \cup Pushed) /\ twice \cup Pushed \in SUBSET List!Instant
          /\ added \in SUBSET List!Instant
      BY ListFacts
    <3>2. /\ Cardinality(twice) <= Cardinality(twice \cup Pushed)
          /\ {Cardinality(twice), Cardinality(twice \cup Pushed), Cardinality(added)} \subseteq Nat
      BY <3>1, Instants
    <3> QED BY <3>2 DEF ListInv
  <2> QED BY <2>1, Counts DEF ListInv, PagesExplained, List!PagesExplained, List!MissesExplained, List!RepeatsExplained
<1> QED BY <1>1, ListAlways, PTL

-----------------------------------------------------------------------------
(* The two together.                                                        *)

(****************************************************************************)
(* What MCAdminPlane shows of sessions and of lists in its one instance is  *)
(* about their own specifications: its behaviours are theirs.               *)
(****************************************************************************)
THEOREM PlaneComponents == PlaneSpec => Spec /\ List!Spec
<1>1. PlaneInit => Init /\ List!Init
  BY DEF PlaneInit
<1>2. [PlaneNext]_<<vars, pages>> => [Next]_vars /\ [List!Next]_List!vars
  <2>1. pages' = pages => List!vars' = List!vars
    BY DEF pages, List!vars
  <2> QED BY <2>1 DEF PlaneNext, Leave
<1> QED BY <1>1, <1>2, PTL DEF PlaneSpec, Spec, List!Spec

(****************************************************************************)
(* Both keep their types: no page has more rows than its size, no session   *)
(* or instant is other than one there is.                                   *)
(****************************************************************************)
THEOREM PlaneTyping == PlaneSpec => []PlaneTypeOK
<1>1. SessionInv /\ ListInv => PlaneTypeOK
  BY DEF SessionInv, ListInv, PlaneTypeOK
<1> QED BY <1>1, PlaneComponents, SessionAlways, ListAlways, PTL
=============================================================================
