------------------------------ MODULE Sessions ------------------------------
(***************************************************************************)
(* The sessions of one user: core/auth.py and routers/auth.py, with the    *)
(* browsers that hold the refresh cookie.  A request is processed by an    *)
(* invocation, which may die at any point; its reply sets, clears or keeps *)
(* the cookie when it arrives, in any order, or is lost.                   *)
(* A login is what register, login and the Google callback have in common  *)
(* after the user is known: a first refresh token.  The limits on guessing *)
(* and on registering are in RateLimit.                                    *)
(***************************************************************************)
EXTENDS Naturals, FiniteSets

CONSTANTS
  Browser,    \* browsers of the user
  Worker,     \* concurrent invocations of handlers
  MaxTokens,  \* bound on the refresh tokens issued
  MaxOAuth,   \* bound on the Google logins under way
  None

ASSUME SessionAssumption == MaxTokens \in Nat /\ MaxOAuth \in Nat
                            /\ None \notin Browser \cup Nat

\* A jti is random, hence never drawn twice; they are numbered as they come.
Jti == 1..MaxTokens
Clear == 0   \* a reply that deletes the cookie

VARIABLES
  keys,       \* the jtis whitelisted in Redis
  family,     \* per jti: the first one of its login; refreshes hand it on
  jar,        \* per browser: the jti of its cookie
  work,       \* per worker: where it is and what it has read
  oauth,      \* number of unused OAuth states in Redis
  ended,      \* history: logins whose cookie was presented for logout
  revoked,    \* history: jtis that existed when a logout-all that is over began
  raced,      \* history: logins with two requests under way at a time
  disturbed   \* history: browsers that a reply or a key was lost for

tokenVars == <<keys, family>>
historyVars == <<ended, revoked, raced, disturbed>>
vars == <<tokenVars, jar, work, oauth, historyVars>>

\* jti: the cookie of the request; reply: the cookie of the answer, None if it
\* leaves the browser's alone; found: what SCAN has returned; before: history, the keys there
\* were when it began.
Job == [pc: {"idle", "issue", "rotate", "scan", "delete", "reply"},
        browser: Browser \cup {None}, jti: Jti \cup {None},
        reply: Jti \cup {None, Clear},
        found: SUBSET Jti, before: SUBSET Jti]
Free == [pc |-> "idle", browser |-> None, jti |-> None, reply |-> None,
         found |-> {}, before |-> {}]

SessionTypeOK ==
  /\ keys \subseteq DOMAIN family /\ DOMAIN family \subseteq Jti
  /\ \A j \in DOMAIN family : family[j] \in DOMAIN family
  /\ jar \in [Browser -> Jti \cup {None}]
  /\ work \in [Worker -> Job]
  /\ oauth \in 0..MaxOAuth
  /\ ended \subseteq Jti /\ revoked \subseteq Jti /\ raced \subseteq Jti
  /\ disturbed \subseteq Browser

SessionInit ==
  /\ keys = {} /\ family = <<>>
  /\ jar = [br \in Browser |-> None]
  /\ work = [w \in Worker |-> Free]
  /\ oauth = 0
  /\ ended = {} /\ revoked = {} /\ raced = {} /\ disturbed = {}

----------------------------------------------------------------------------

Doing(w, label) == work[w].pc = label
Idle == {w \in Worker : Doing(w, "idle")}
Busy(br) == \E w \in Worker : work[w].browser = br

\* A request of a browser starts; whether another one with a cookie of the
\* same login is under way is noted.
Start(w, job) ==
  /\ w \in Idle /\ work' = [work EXCEPT ![w] = job]
  /\ raced' = IF job.jti # None /\ \E v \in Worker : /\ work[v].jti # None
                                                     /\ family[work[v].jti] = family[job.jti]
              THEN raced \cup {family[job.jti]} ELSE raced
  /\ UNCHANGED <<revoked, disturbed>>

Reply(w, cookie) == work' = [work EXCEPT ![w].pc = "reply", ![w].reply = cookie]

Request(label, br) == [Free EXCEPT !.pc = label, !.browser = br]
WithCookie(label, br) == [Request(label, br) EXCEPT !.jti = jar[br]]

----------------------------------------------------------------------------
(* POST /login, GET /google/login and /google/callback                     *)

Login(w, br) ==
  /\ Start(w, Request("issue", br))
  /\ UNCHANGED <<tokenVars, jar, oauth, ended>>

GoogleLogin ==
  /\ oauth < MaxOAuth /\ oauth' = oauth + 1
  /\ UNCHANGED <<tokenVars, jar, work, historyVars>>

\* The DEL of the state decides which callback may use it.
GoogleCallback(w, br) ==
  /\ oauth > 0 /\ oauth' = oauth - 1
  /\ Start(w, Request("issue", br))
  /\ UNCHANGED <<tokenVars, jar, ended>>

\* A callback that finds its state and goes no further, or ten minutes.
GoogleFails ==
  /\ oauth > 0 /\ oauth' = oauth - 1
  /\ UNCHANGED <<tokenVars, jar, work, historyVars>>

\* Mutant: a refresh does not set the new cookie.
IssueKeepsCookie(w) ==
  LET j == Cardinality(DOMAIN family) + 1
      first == IF work[w].jti = None THEN j ELSE family[work[w].jti] IN
  /\ Doing(w, "issue") /\ j \in Jti
  /\ family' = [i \in DOMAIN family \cup {j} |-> IF i = j THEN first ELSE family[i]]
  /\ keys' = keys \cup {j}
  /\ Reply(w, IF work[w].jti = None THEN j ELSE work[w].jti)
  /\ UNCHANGED <<jar, oauth, historyVars>>

\* create_refresh_token: the key is set before the reply carries the token.
\* A refresh hands the login on.
Issue(w) ==
  LET j == Cardinality(DOMAIN family) + 1
      first == IF work[w].jti = None THEN j ELSE family[work[w].jti] IN
  /\ Doing(w, "issue") /\ j \in Jti
  /\ family' = [i \in DOMAIN family \cup {j} |-> IF i = j THEN first ELSE family[i]]
  /\ keys' = keys \cup {j}
  /\ Reply(w, j)
  /\ UNCHANGED <<jar, oauth, historyVars>>

----------------------------------------------------------------------------
(* POST /refresh, /logout and /logout-all                                  *)

\* The token is looked up, and only later revoked.  A refusal is an exception,
\* whose response does not have the cookie cleared before it was raised.
Refresh(w, br) ==
  /\ jar[br] # None
  /\ Start(w, WithCookie(IF jar[br] \in keys THEN "rotate" ELSE "reply", br))
  /\ UNCHANGED <<tokenVars, jar, oauth, ended>>

\* Mutant: the old token is kept until it expires.
RotateKeeps(w) ==
  /\ Doing(w, "rotate")
  /\ work' = [work EXCEPT ![w].pc = "issue"]
  /\ UNCHANGED <<tokenVars, jar, oauth, historyVars>>

Rotate(w) ==
  /\ Doing(w, "rotate")
  /\ keys' = keys \ {work[w].jti}
  /\ work' = [work EXCEPT ![w].pc = "issue"]
  /\ UNCHANGED <<family, jar, oauth, historyVars>>

\* Mutant: the cookie is cleared and the token left to expire.
LogoutClears(w, br) ==
  /\ jar[br] # None
  /\ Start(w, [WithCookie("reply", br) EXCEPT !.reply = Clear])
  /\ ended' = IF br \in disturbed THEN ended ELSE ended \cup {family[jar[br]]}
  /\ UNCHANGED <<tokenVars, jar, oauth>>

Logout(w, br) ==
  /\ jar[br] # None
  /\ keys' = keys \ {jar[br]}
  /\ Start(w, [WithCookie("reply", br) EXCEPT !.reply = Clear])
  /\ ended' = IF br \in disturbed THEN ended ELSE ended \cup {family[jar[br]]}
  /\ UNCHANGED <<family, jar, oauth>>

\* Logout-all takes an access token, which outlives any cookie.
LogoutAll(w, br) ==
  /\ Start(w, [Request("scan", br) EXCEPT !.before = keys])
  /\ UNCHANGED <<tokenVars, jar, oauth, ended>>

\* Mutant: SCAN is not called again until its cursor is back at 0.
ScanOnce(w) ==
  /\ Doing(w, "scan")
  /\ \E some \in SUBSET keys :
       work' = [work EXCEPT ![w].pc = "delete", ![w].found = some]
  /\ UNCHANGED <<tokenVars, jar, oauth, historyVars>>

\* SCAN returns every key that was there all the time and any of the others
\* that are there at some time.
Scan(w) ==
  /\ Doing(w, "scan")
  /\ \E more \in SUBSET (keys \ work[w].before) :
       work' = [work EXCEPT ![w].pc = "delete", ![w].found = (keys \cap work[w].before) \cup more]
  /\ UNCHANGED <<tokenVars, jar, oauth, historyVars>>

\* The DEL of what was found.  Other browsers lose their session, rightly.
Delete(w) ==
  /\ Doing(w, "delete")
  /\ keys' = keys \ work[w].found
  /\ revoked' = revoked \cup work[w].before
  /\ disturbed' = Browser
  /\ work' = [work EXCEPT ![w] = [Request("reply", @.browser) EXCEPT !.reply = Clear]]
  /\ UNCHANGED <<family, jar, oauth, ended, raced>>

----------------------------------------------------------------------------

\* The browser applies the reply's Set-Cookie.
Arrives(w) ==
  LET job == work[w] IN
  /\ Doing(w, "reply")
  /\ jar' = [jar EXCEPT ![job.browser] = CASE job.reply = Clear -> None
                                             [] job.reply = None -> @
                                             [] OTHER -> job.reply]
  /\ work' = [work EXCEPT ![w] = Free]
  /\ UNCHANGED <<tokenVars, oauth, historyVars>>

\* The invocation dies, or its reply is lost.
Dies(w) ==
  /\ ~Doing(w, "idle")
  /\ work' = [work EXCEPT ![w] = Free]
  /\ disturbed' = disturbed \cup ({work[w].browser} \ {None})
  /\ UNCHANGED <<tokenVars, jar, oauth, ended, revoked, raced>>

\* A refresh token that is not used for seven days.
Expires(j) ==
  /\ j \in keys /\ keys' = keys \ {j}
  /\ disturbed' = disturbed \cup {br \in Browser : jar[br] = j}
                            \cup ({work[w].browser : w \in Worker} \ {None})
  /\ UNCHANGED <<family, jar, work, oauth, ended, revoked, raced>>

SessionNext ==
  \/ \E w \in Worker :
       \/ Issue(w) \/ Rotate(w) \/ Scan(w) \/ Delete(w)
       \/ Arrives(w) \/ Dies(w)
       \/ \E br \in Browser : Login(w, br) \/ GoogleCallback(w, br) \/ Refresh(w, br)
                              \/ Logout(w, br) \/ LogoutAll(w, br)
  \/ \E j \in Jti : Expires(j)
  \/ GoogleLogin \/ GoogleFails

SessionSpec == SessionInit /\ [][SessionNext]_vars

----------------------------------------------------------------------------
(* Properties                                                              *)

Of(f) == {j \in keys : family[j] = f}

\* "Revoke the old refresh token and issue a new one": a login never has two
\* valid tokens, unless two of its requests overlapped (refresh).
OneTokenPerLogin ==
  \A j \in DOMAIN family : family[j] \notin raced => Cardinality(Of(family[j])) <= 1

\* A login that was logged out has no valid token ever after, unless two of
\* its requests overlapped or the browser had lost a reply, and with it a
\* token it does not know of (logout).
SignedOutStaysOut == \A f \in ended \ raced : Of(f) = {}

\* No token that existed when a logout from all devices began is valid when
\* it is over, or later, whatever logins and refreshes went on meanwhile; the
\* tokens those issue are another matter (logout_all).
RevokedStaysRevoked == keys \cap revoked = {}

\* The cookie of a browser with nothing under way is a valid token, as long
\* as its replies arrive and no other device logs it out: a session survives
\* its refreshes and logins, in whatever order those overlap and are answered
\* (refresh, and tryRefresh in api.js).
SessionSurvivesRefresh ==
  \A br \in Browser \ disturbed :
    ~Busy(br) /\ jar[br] # None => jar[br] \in keys
=============================================================================
