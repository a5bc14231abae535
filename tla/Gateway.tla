------------------------------ MODULE Gateway ------------------------------
(***************************************************************************)
(* The login gate (server/auth) and the browser in front of it.            *)
(*                                                                         *)
(* Tabs share a jar of two cookies: the session, and the page to go to     *)
(* after the login.  A request carries the cookies the jar has when it is  *)
(* sent; those its answer sets reach the jar when it is delivered.  A tick *)
(* is longer than a request and than the life of the second cookie.  The   *)
(* server may stop, and start again with another password.  A page may be  *)
(* asked for by a link on another site: then the session cookie, which is  *)
(* SameSite=Strict, stays in the jar, and the Referer may name that site.  *)
(* Left out: the paths that need no login, Bearer passwords, the API       *)
(* (answered like an asset), a server without a password, which has no     *)
(* gate; the GET of /login is one step with the redirect to it.  Pages are *)
(* paths that a cookie can hold and that safePath lets pass; /login sends  *)
(* no ?next=.  Which page of the dashboard a tab shows tells nothing apart.*)
(***************************************************************************)
EXTENDS Integers

CONSTANTS
  Tabs,
  Pages, Home,   \* pages of the dashboard, Home is "/"
  Favicon,       \* an asset
  Links,         \* where a navigation may come from: "own", the address bar
                 \* or a page of this origin; "port", another port of this
                 \* host; "site", another site, named as the Referer;
                 \* "unnamed", another site without a Referer
  NoPage, NoSession, NoWord,
  Passwords,     \* values of CONTROL_TOKEN
  Verbatim,      \* those that JSON.stringify writes unchanged
  SessionAge,    \* sessionTTL, in ticks
  MaxNow,        \* bound: ticks
  MaxStarts      \* bound: starts of the server

ASSUME GatewayAssumption ==
  /\ Home \in Pages /\ Verbatim \subseteq Passwords
  /\ NoWord \notin Passwords /\ NoSession \notin [key : Passwords, iat : Nat]
  /\ Favicon \notin Pages /\ NoPage \notin Pages
  /\ Links \subseteq {"own", "port", "site", "unnamed"}
  /\ SessionAge \in Nat /\ MaxNow \in Nat /\ MaxStarts \in Nat \ {0}

VARIABLES
  now,
  up,        \* the server listens
  password,  \* CONTROL_TOKEN
  starts,
  jar,       \* cookies: [session, next]
  page,      \* [Tabs -> what is shown: a page of the dashboard, the login page,
             \* or the text of a refusal]
  sent,      \* [Tabs -> request under way]
  from,      \* history: page a tab was turned away from, while the cookie is its
  member     \* history: time of the login that nothing has ended since

server == <<up, password, starts>>
gatewayVars == <<now, server, jar, page, sent, from, member>>

NotIn == 0 - 1

OtherOrigin == {"port", "site"}     \* Origin or Referer name it
OtherSite   == {"site", "unnamed"}  \* the browser knows it

\* A request, then its answer: status, and the cookies it sets.
NoCookies == [c \in {} |-> NoPage]
NoRequest ==
  [kind |-> "none", path |-> NoPage, foreign |-> FALSE, session |-> NoSession,
   next |-> NoPage, word |-> NoWord, answered |-> FALSE,
   status |-> "ok", set |-> NoCookies, member |-> FALSE]

IsIn(since) == since # NotIn /\ now - since <= SessionAge

\* SameSite=Strict: a request from another site goes without the session.
\* `member` is a history: a browser that is in asks, and not from another site.
Get(kind, path, link, cookies, since) ==
  [NoRequest EXCEPT !.kind = kind, !.path = path, !.foreign = link \in OtherOrigin,
     !.session = IF link \in OtherSite THEN NoSession ELSE cookies.session,
     !.member = IsIn(since) /\ link \notin OtherSite]

\* The jar, once the cookies of an answer are in it.
JarWith(cookies) ==
  [c \in DOMAIN jar |-> IF c \in DOMAIN cookies THEN cookies[c] ELSE jar[c]]

\* Without a server a request fails at once.
Send(t, r) == up /\ sent[t] = NoRequest /\ sent' = [sent EXCEPT ![t] = r]

\* The tabs show the dashboard, from an earlier day.
GatewayInit ==
  /\ now = 0
  /\ up = TRUE /\ password \in Passwords /\ starts = 1
  /\ jar = [session |-> NoSession, next |-> NoPage]
  /\ page = [t \in Tabs |-> "dashboard"]
  /\ sent = [s \in Tabs |-> NoRequest]
  /\ from = [t \in Tabs |-> NoPage]
  /\ member = NotIn

-----------------------------------------------------------------------------
(* The user *)

\* A page of the dashboard is opened or reloaded, or a link to it followed.
Navigate(t, p, link) ==
  /\ Send(t, Get("page", p, link, jar, member))
  /\ UNCHANGED <<now, server, jar, page, from, member>>

\* Mutant: JSON is parsed as a form, which has no password.
extractJSONStringField_Form(typed, whole) == NoWord

\* What the server finds in the body: its first piece, read once, unescaped.
extractJSONStringField(typed, whole) ==
  IF whole /\ typed \in Verbatim THEN typed ELSE NoWord

\* The form of the login page; it is locked while the request is under way.
Submit(t, typed, whole) ==
  /\ page[t] = "login"
  /\ Send(t, [NoRequest EXCEPT !.kind = "login", !.next = jar.next,
                               !.word = extractJSONStringField(typed, whole)])
  /\ UNCHANGED <<now, server, jar, page, from, member>>

Logout(t) ==
  /\ page[t] = "dashboard"
  /\ Send(t, [NoRequest EXCEPT !.kind = "logout"])
  /\ member' = NotIn
  /\ UNCHANGED <<now, server, jar, page, from>>

-----------------------------------------------------------------------------
(* The server *)

signingKey == password

issueCookie == [key |-> signingKey, iat |-> now]

\* Mutant: a cookie expires a tick early.
validCookie_Early(c) ==
  c # NoSession /\ c.key = signingKey /\ now - c.iat < SessionAge
validCookie(c) ==
  c # NoSession /\ c.key = signingKey /\ now - c.iat <= SessionAge

isAuthenticated(r) == validCookie(r.session)

\* The page to go back to, or the root.
nextPath(r) == IF r.next = NoPage THEN Home ELSE r.next

\* Neither Origin nor Referer name another origin.
isSameOrigin(r) == ~r.foreign

\* Navigations are redirected to the login page, and where they went is kept,
\* unless a page of another origin sent them.
turnAway(r) ==
  IF r.kind = "page" /\ isSameOrigin(r)
    THEN [r EXCEPT !.status = "redirected", !.set = [next |-> r.path]]
    ELSE [r EXCEPT !.status = "unauthorized"]

\* Mutant: the page to go back to is forgotten before the password is checked.
handleLogin_Forgets(r) ==
  IF r.word # password
    THEN [r EXCEPT !.status = "unauthorized", !.set = [next |-> NoPage]]
    ELSE [r EXCEPT !.path = nextPath(r),
                   !.set = [session |-> issueCookie, next |-> NoPage]]
handleLogin(r) ==
  IF r.word # password
    THEN [r EXCEPT !.status = "unauthorized"]
    ELSE [r EXCEPT !.path = nextPath(r),
                   !.set = [session |-> issueCookie, next |-> NoPage]]

handleLogout(r) == [r EXCEPT !.set = [session |-> NoSession]]

handle(r) ==
  CASE r.kind = "login" -> handleLogin(r)
    [] r.kind = "logout" -> handleLogout(r)
    [] OTHER -> IF isAuthenticated(r) THEN r ELSE turnAway(r)

\* An answer: its status and cookies, and for a login where to go.
AnswerTo(r) ==
  [NoRequest EXCEPT !.kind = r.kind, !.answered = TRUE, !.status = r.status,
     !.path = IF r.kind = "login" THEN r.path ELSE NoPage, !.set = r.set]

Answer(t) ==
  /\ up /\ sent[t].kind # "none" /\ ~sent[t].answered
  /\ sent' = [sent EXCEPT ![t] = AnswerTo(handle(sent[t]))]
  /\ UNCHANGED <<now, server, jar, page, from, member>>

\* An asset is asked for and answered at once, whatever page is shown.
Fetch ==
  /\ up
  /\ jar' = JarWith(handle(Get("asset", Favicon, "own", jar, member)).set)
  /\ UNCHANGED <<now, server, page, sent, from, member>>

\* The server goes down, with the requests it has not answered.
Stop ==
  /\ up /\ starts < MaxStarts
  /\ up' = FALSE
  /\ sent' = [t \in Tabs |-> IF sent[t].answered THEN sent[t] ELSE NoRequest]
  /\ UNCHANGED <<now, password, starts, jar, page, from, member>>

Start(token) ==
  /\ ~up
  /\ up' = TRUE /\ password' = token /\ starts' = starts + 1
  /\ member' = IF token = password THEN member ELSE NotIn
  /\ UNCHANGED <<now, jar, page, sent, from>>

-----------------------------------------------------------------------------
(* The browser *)

\* The tab was turned away: the other tabs' cookie is gone, and it has one.
Turned(t) ==
  /\ page' = [page EXCEPT ![t] = "login"]
  /\ from' = [u \in Tabs |-> IF u = t THEN sent[t].set.next ELSE NoPage]
  /\ sent' = [sent EXCEPT ![t] = NoRequest]
  /\ UNCHANGED member

\* The login page goes where the server says.
LoggedIn(t) ==
  LET lasting == /\ sent[t].set.session.key = password
                 /\ \A u \in Tabs : sent[u].kind # "logout"
  IN /\ member' = IF lasting THEN sent[t].set.session.iat ELSE NotIn
     /\ sent' = [sent EXCEPT ![t] = IF up THEN Get("page", sent[t].path, "own", jar', member')
                                        ELSE NoRequest]
     /\ from' = [u \in Tabs |-> NoPage]
     /\ UNCHANGED page

\* Any other answer: a page is shown, or the refusal of one; another error
\* leaves the page as it is.
Shown(r) == IF r.status = "ok" THEN "dashboard" ELSE "denied"
Other(t) ==
  /\ page' = IF sent[t].kind = "page" THEN [page EXCEPT ![t] = Shown(sent[t])]
                                     ELSE page
  /\ sent' = [sent EXCEPT ![t] = NoRequest]
  /\ UNCHANGED <<from, member>>

Deliver(t) ==
  /\ sent[t].answered
  /\ jar' = JarWith(sent[t].set)
  /\ CASE sent[t].status = "redirected" -> Turned(t)
       [] sent[t].kind = "login" /\ sent[t].status = "ok" -> LoggedIn(t)
       [] OTHER -> Other(t)
  /\ UNCHANGED <<now, server>>

Tick ==
  /\ now < MaxNow
  /\ \A t \in Tabs : sent[t] = NoRequest
  /\ now' = now + 1
  /\ jar' = [jar EXCEPT !.next = NoPage]
  /\ from' = [t \in Tabs |-> NoPage]
  /\ UNCHANGED <<server, page, sent, member>>

GatewayNext ==
  \/ \E t \in Tabs :
       \/ \E p \in Pages, link \in Links : Navigate(t, p, link)
       \/ \E typed \in Passwords, whole \in BOOLEAN : Submit(t, typed, whole)
       \/ Logout(t)
       \/ Answer(t)
       \/ Deliver(t)
  \/ Fetch
  \/ Stop
  \/ \E token \in Passwords : Start(token)
  \/ Tick

GatewaySpec == GatewayInit /\ [][GatewayNext]_gatewayVars

\* The server answers and is started again; the user does not give up on the
\* login page, and the password reaches the server in one piece time and again.
GatewayFairness ==
  /\ \A t \in Tabs : WF_gatewayVars(Answer(t) \/ Deliver(t))
  /\ WF_gatewayVars(\E token \in Passwords : Start(token))
  /\ \A t \in Tabs : SF_gatewayVars(Submit(t, password, TRUE))

FairGateway == GatewaySpec /\ GatewayFairness

-----------------------------------------------------------------------------
(* Properties *)

\* Types.
GatewayTypeOK ==
  /\ now \in 0 .. MaxNow /\ up \in BOOLEAN /\ starts \in 1 .. MaxStarts
  /\ password \in Passwords
  /\ jar.session \in [key : Passwords, iat : 0 .. now] \cup {NoSession}
  /\ jar.next \in Pages \cup {NoPage}
  /\ \A t \in Tabs :
       /\ page[t] \in {"dashboard", "login", "denied"}
       /\ from[t] \in Pages \cup {NoPage}
       /\ sent[t].kind \in {"none", "page", "login", "logout"}
       /\ sent[t].status \in {"ok", "redirected", "unauthorized"}
       /\ sent[t].status = "redirected" => sent[t].kind = "page"
  /\ member \in -1 .. now

\* After the login a tab goes to the page it was turned away from, whatever
\* else it did to get in, if the cookie is young and no other tab has been
\* turned away or let in since (auth.go 145-163, 261-276).
LoginLeadsBack ==
  \A t \in Tabs :
    /\ sent[t].kind = "login" /\ sent[t].answered /\ sent[t].status = "ok"
    /\ from[t] # NoPage
    => sent[t].path = from[t]

\* Once in, a browser is not asked again before sessionTTL, whoever restarts
\* the server, unless it logs out or the password changes (auth.go 13-15, 41),
\* or comes by a link on another site: then its session cookie stays at home
\* (auth.go 259), and it is refused, or sent to the login page, although it is
\* in.  Such requests are not a member's.
StaysIn ==
  [][\A t \in Tabs :
       /\ sent[t].member /\ ~sent[t].answered
       /\ sent'[t].status \in {"redirected", "unauthorized"}
       => ~IsIn(member)]_gatewayVars

\* Who is at the login page and types the password gets in, if it is a password
\* that the page's JSON does not change (auth.go 438-463).
LetIn ==
  \A t \in Tabs :
    page[t] = "login" ~> (page[t] # "login" \/ password \notin Verbatim)
=============================================================================
