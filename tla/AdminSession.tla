---------------------------- MODULE AdminSession -----------------------------
(****************************************************************************)
(* Admin sessions: what Server.serve asks before every page and action      *)
(* (Authenticated, and ValidCSRF for a POST), Login once the password is    *)
(* right (module LoginThrottle has the rest of it), Logout, and the         *)
(* sessions table.                                                          *)
(*                                                                          *)
(* Each check is a query of its own, so sessions end between them.  Login   *)
(* draws both tokens of a session at random, so the session is named after  *)
(* the request that logged in, and both its cookies travel together in a    *)
(* browser's jar.  Tabs of one browser share the jar and are served at the  *)
(* same time; their answers arrive in any order.                            *)
(****************************************************************************)
EXTENDS FiniteSets

CONSTANTS Browser,
          Request,   \* requests to the admin plane, each one handled once
          None       \* no cookie; an empty csrf field

ASSUME NoneNew == None \notin Request

VARIABLES
    rows,      \* sessions with a row
    expired,   \* sessions whose expires_at has passed
    jar,       \* jar[b]: the session whose cookies browser b holds
    page,      \* page[b]: the session whose csrf token the forms of b's page carry
    pc,        \* pc[q]: where serve stands for request q
    req,       \* req[q]: who sent q, what it asks, and the cookies and field it came with
    late       \* requests that had not passed their checks when their session ended

vars == <<rows, expired, jar, page, pc, req, late>>

Session == Request \cup {None}
Sent == [by : Browser, asks : {"login", "page", "action", "logout"},
         cookie : Session, csrf : Session]

TypeOK ==
    /\ rows \subseteq Request
    /\ expired \subseteq Request
    /\ jar \in [Browser -> Session]
    /\ page \in [Browser -> Session]
    /\ pc \in [Request -> {"idle", "login", "auth", "csrf", "serve", "answer", "done", "refused"}]
    /\ req \in [Request -> Sent \cup {None}]
    /\ \A q \in Request : pc[q] # "idle" => req[q] \in Sent
    /\ late \subseteq Request

Init ==
    /\ rows = {}
    /\ expired = {}
    /\ jar = [b \in Browser |-> None]
    /\ page = [b \in Browser |-> None]
    /\ pc = [q \in Request |-> "idle"]
    /\ req = [q \in Request |-> None]
    /\ late = {}

Goes(q, from, to) == pc[q] = from /\ pc' = [pc EXCEPT ![q] = to]

\* A browser sends what its jar and its page hold.
Send(q, b, what) ==
    /\ Goes(q, "idle", IF what = "login" THEN "login" ELSE "auth")
    /\ req' = [req EXCEPT ![q] = [by |-> b, asks |-> what, cookie |-> jar[b],
                                  csrf |-> IF what = "page" THEN None ELSE page[b]]]
    /\ late' = IF jar[b] \in expired \/ jar[b] \notin rows THEN late \cup {q} ELSE late
    /\ UNCHANGED <<rows, expired, jar, page>>

\* A row for 24 hours and both cookies; or the wrong password, or a failing INSERT.
Login(q) ==
    /\ \/ Goes(q, "login", "answer") /\ rows' = rows \cup {q}
       \/ Goes(q, "login", "refused") /\ UNCHANGED rows
    /\ UNCHANGED <<expired, jar, page, req, late>>

\* Authenticated: the session has a row that has not expired, or off to /login.
Authenticated(q) ==
    /\ Goes(q, "auth", IF req[q].cookie \notin rows \ expired THEN "refused"
                       ELSE IF req[q].asks = "page" THEN "serve" ELSE "csrf")
    /\ UNCHANGED <<rows, expired, jar, page, req, late>>

\* Mutations: only the cookie is compared with the field, or only with the row.
ValidCSRFByCookie(q) ==
    /\ Goes(q, "csrf", IF req[q].csrf = req[q].cookie THEN "serve" ELSE "refused")
    /\ UNCHANGED <<rows, expired, jar, page, req, late>>

ValidCSRFOfCookie(q) ==
    /\ Goes(q, "csrf", IF req[q].cookie \in rows THEN "serve" ELSE "refused")
    /\ UNCHANGED <<rows, expired, jar, page, req, late>>

\* ValidCSRF: the form's token is the cookie's and the row's; the expiry is not asked.
ValidCSRF(q) ==
    /\ Goes(q, "csrf", IF req[q].csrf = req[q].cookie /\ req[q].cookie \in rows THEN "serve"
                       ELSE "refused")
    /\ UNCHANGED <<rows, expired, jar, page, req, late>>

\* The page is rendered, or the delete, retry or update is done.
Serve(q) ==
    /\ Goes(q, "serve", "answer")
    /\ req[q].asks \in {"page", "action"}
    /\ UNCHANGED <<rows, expired, jar, page, req, late>>

\* Requests of session s that have a check before them: late once s has ended.
Unchecked(s) == {q \in Request : pc[q] \in {"auth", "csrf"} /\ req[q].cookie = s}

\* Logout: DELETE, whose error is ignored, and no more cookies.
Logout(q) ==
    /\ Goes(q, "serve", "answer")
    /\ req[q].asks = "logout"
    /\ \/ rows' = rows \ {req[q].cookie} /\ late' = late \cup Unchecked(req[q].cookie)
       \/ UNCHANGED <<rows, late>>
    /\ UNCHANGED <<expired, jar, page, req>>

\* Mutation: after a logout the cookies stay, empty.
DeliverEmpty(q) ==
    /\ Goes(q, "answer", "done")
    /\ jar' = [jar EXCEPT ![req[q].by] = CASE req[q].asks = "login"  -> q
                                           [] req[q].asks = "logout" -> ""
                                           [] OTHER                  -> @]
    /\ page' = IF req[q].asks = "page" THEN [page EXCEPT ![req[q].by] = req[q].cookie] ELSE page
    /\ UNCHANGED <<rows, expired, req, late>>

\* The answer reaches the browser: new cookies, none, or a page with its forms.
Deliver(q) ==
    LET r == req[q] IN
    /\ Goes(q, "answer", "done")
    /\ jar' = [jar EXCEPT ![r.by] = CASE r.asks = "login"  -> q
                                      [] r.asks = "logout" -> None
                                      [] OTHER             -> @]
    /\ page' = IF r.asks = "page" THEN [page EXCEPT ![r.by] = r.cookie] ELSE page
    /\ UNCHANGED <<rows, expired, req, late>>

\* 24 hours have passed; the row stays, and only requests not yet past
\* Authenticated are late.
Expire(s) ==
    /\ s \in rows \ expired
    /\ expired' = expired \cup {s}
    /\ late' = late \cup {q \in Unchecked(s) : pc[q] = "auth"}
    /\ UNCHANGED <<rows, jar, page, pc, req>>

\* The cookies' MaxAge is over too.
DropCookies(b) ==
    /\ jar[b] \in expired
    /\ jar' = [jar EXCEPT ![b] = None]
    /\ UNCHANGED <<rows, expired, page, pc, req, late>>

Terminating ==
    /\ \A q \in Request : pc[q] \in {"done", "refused"}
    /\ UNCHANGED vars

Step(q) == Login(q) \/ Authenticated(q) \/ ValidCSRF(q) \/ Serve(q) \/ Logout(q) \/ Deliver(q)

Next == \/ \E q \in Request : \/ \E b \in Browser, what \in {"login", "page", "action", "logout"} :
                                     Send(q, b, what)
                              \/ Step(q)
                              \/ Expire(q)
        \/ \E b \in Browser : DropCookies(b)
        \/ Terminating

Spec == Init /\ [][Next]_vars

-----------------------------------------------------------------------------
Served(q) == pc[q] \in {"answer", "done"} /\ req[q].asks # "login"

(****************************************************************************)
(* Ending a session cuts off every request of it that has a check still to  *)
(* pass: after a logout that deleted the row, no page is shown and no       *)
(* action done for a request that had not passed all its checks, and after  *)
(* the expiry none that had not passed the first, wherever it stood.        *)
(****************************************************************************)
EndsForGood == \A q \in late : ~Served(q)

(****************************************************************************)
(* An action is done, or a session ended, only with a form of that very     *)
(* session: a tab left open across a logout and another login is refused.   *)
(****************************************************************************)
OwnForm == \A q \in Request : Served(q) /\ req[q].asks # "page" => req[q].csrf = req[q].cookie
=============================================================================
