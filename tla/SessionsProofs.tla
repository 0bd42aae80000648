--------------------------- MODULE SessionsProofs ---------------------------
(***************************************************************************)
(* Theorems about Sessions, for any browsers, workers and numbers of       *)
(* tokens and Google logins.                                               *)
(***************************************************************************)
EXTENDS Sessions, FiniteSetTheorems, TLAPS

Issued == DOMAIN family

\* What an invocation knows are tokens that were issued.
JobKnown(job) ==
  /\ job \in Job
  /\ job.jti \in Issued \cup {None} /\ job.reply \in Issued \cup {None, Clear}
  /\ job.found \subseteq Issued /\ job.before \subseteq Issued

\* Tokens are numbered in the order they are issued; keys, cookies, requests
\* and histories only know tokens that were.
KnownInv ==
  /\ \E n \in Nat : Issued = 1..n
  /\ Issued \subseteq Jti
  /\ family \in [Issued -> Issued]
  /\ keys \subseteq Issued /\ revoked \subseteq Issued
  /\ raced \subseteq Issued /\ ended \subseteq Issued
  /\ jar \in [Browser -> Issued \cup {None}]
  /\ work \in [Worker -> Job] /\ \A w \in Worker : JobKnown(work[w])
  /\ oauth \in 0..MaxOAuth
  /\ disturbed \subseteq Browser

\* The number of the next token is new.
NextJti == Cardinality(Issued) + 1

LEMMA NextIsNew ==
  ASSUME KnownInv
  PROVE  /\ NextJti \in Nat /\ NextJti \notin Issued
         /\ \E n \in Nat : Issued \cup {NextJti} = 1..n
<1>1. PICK n \in Nat : Issued = 1..n
  BY DEF KnownInv
<1>2. Cardinality(1..n) = n
  BY FS_Interval
<1>3. NextJti = n + 1
  BY <1>1, <1>2 DEF NextJti
<1>4. Issued \cup {n + 1} = 1..(n + 1)
  BY <1>1
<1> QED
  BY <1>1, <1>3, <1>4

LEMMA KnownInit == SessionInit => KnownInv
<1> SUFFICES ASSUME SessionInit PROVE KnownInv
  OBVIOUS
<1>1. Issued = {} /\ family \in [Issued -> Issued]
  BY DEF SessionInit, Issued
<1>2. 1..0 = {}
  OBVIOUS
<1>3. JobKnown(Free)
  BY <1>1 DEF JobKnown, Free, Job
<1> QED
  BY <1>1, <1>2, <1>3, SessionAssumption
  DEF SessionAssumption, SessionInit, KnownInv, JobKnown

\* A step of one invocation that issues no token.
LEMMA KnownJob ==
  ASSUME KnownInv, NEW w \in Worker, NEW job, JobKnown(job),
         work' = [work EXCEPT ![w] = job], family' = family,
         keys' \subseteq Issued, revoked' \subseteq Issued,
         raced' \subseteq Issued, ended' \subseteq Issued,
         jar' \in [Browser -> Issued \cup {None}],
         oauth' \in 0..MaxOAuth, disturbed' \subseteq Browser
  PROVE  KnownInv'
<1>1. Issued' = Issued
  BY DEF Issued
<1>2. \A v \in Worker : work'[v] = IF v = w THEN job ELSE work[v]
  BY DEF KnownInv
<1>3. work' \in [Worker -> Job]
  BY DEF KnownInv, JobKnown
<1>4. \A v \in Worker : JobKnown(work[v])'
  BY <1>1, <1>2, <1>3 DEF KnownInv, JobKnown
<1>5. /\ \E n \in Nat : Issued = 1..n
      /\ Issued \subseteq Jti /\ family \in [Issued -> Issued]
  BY DEF KnownInv
<1> QED
  BY <1>1, <1>3, <1>4, <1>5 DEF KnownInv

\* A step outside the invocations.
LEMMA KnownElse ==
  ASSUME KnownInv, work' = work, family' = family, keys' \subseteq Issued,
         revoked' = revoked, raced' = raced, ended' = ended, jar' = jar,
         oauth' \in 0..MaxOAuth, disturbed' \subseteq Browser
  PROVE  KnownInv'
<1>1. Issued' = Issued
  BY DEF Issued
<1> QED
  BY <1>1 DEF KnownInv, JobKnown

\* A request that starts.
LEMMA KnownStart ==
  ASSUME KnownInv, NEW w \in Worker, NEW job, JobKnown(job), Start(w, job),
         family' = family, keys' \subseteq Issued, ended' \subseteq Issued,
         jar' = jar, oauth' \in 0..MaxOAuth
  PROVE  KnownInv'
<1>0. raced \subseteq Issued /\ family \in [Issued -> Issued] /\ job.jti \in Issued \cup {None}
  BY DEF KnownInv, JobKnown
<1>1. raced' \subseteq Issued
  <2>1. job.jti # None => family[job.jti] \in Issued
    BY <1>0
  <2>2. raced' = raced \/ (job.jti # None /\ raced' = raced \cup {family[job.jti]})
    BY DEF Start
  <2> QED
    BY <1>0, <2>1, <2>2
<1>2. /\ work' = [work EXCEPT ![w] = job]
      /\ revoked' = revoked /\ disturbed' = disturbed
  BY DEF Start
<1>3. /\ revoked \subseteq Issued /\ disturbed \subseteq Browser
      /\ jar \in [Browser -> Issued \cup {None}]
  BY DEF KnownInv
<1> QED
  BY <1>1, <1>2, <1>3, KnownJob

LEMMA Requests ==
  ASSUME KnownInv, NEW br \in Browser
  PROVE  /\ \A label \in {"issue", "scan", "reply"} : JobKnown(Request(label, br))
         /\ JobKnown([Request("scan", br) EXCEPT !.before = keys])
         /\ JobKnown([Request("reply", br) EXCEPT !.reply = Clear])
         /\ jar[br] # None =>
              /\ jar[br] \in Issued /\ family[jar[br]] \in Issued
              /\ \A label \in {"rotate", "reply"} : JobKnown(WithCookie(label, br))
              /\ JobKnown([WithCookie("reply", br) EXCEPT !.reply = Clear])
<1>1. /\ keys \subseteq Issued /\ Issued \subseteq Jti
      /\ jar[br] \in Issued \cup {None} /\ family \in [Issued -> Issued]
  BY DEF KnownInv
<1>2. \A label \in {"issue", "scan", "reply"} : JobKnown(Request(label, br))
  BY <1>1 DEF JobKnown, Request, Free, Job
<1>3. JobKnown([Request("scan", br) EXCEPT !.before = keys])
  BY <1>1 DEF JobKnown, Request, Free, Job
<1>4. JobKnown([Request("reply", br) EXCEPT !.reply = Clear])
  BY <1>1 DEF JobKnown, Request, Free, Job
<1>5. ASSUME jar[br] # None, NEW label \in {"rotate", "reply"}
      PROVE  JobKnown(WithCookie(label, br))
  BY <1>1, <1>5 DEF JobKnown, WithCookie, Request, Free, Job
<1>6. ASSUME jar[br] # None
      PROVE  JobKnown([WithCookie("reply", br) EXCEPT !.reply = Clear])
  BY <1>1, <1>6 DEF JobKnown, WithCookie, Request, Free, Job
<1> QED
  BY <1>1, <1>2, <1>3, <1>4, <1>5, <1>6

\* Steps of an invocation that go on with what it knows.
LEMMA Continued ==
  ASSUME KnownInv, NEW w \in Worker
  PROVE  LET job == work[w] IN
         /\ JobKnown(Free)
         /\ JobKnown([job EXCEPT !.pc = "issue"])
         /\ \A S \in SUBSET Issued : JobKnown([job EXCEPT !.pc = "delete", !.found = S])
         /\ job.browser \in Browser => JobKnown([Request("reply", job.browser) EXCEPT !.reply = Clear])
<1> DEFINE job == work[w]
<1>1. JobKnown(job) /\ Issued \subseteq Jti
  BY DEF KnownInv
<1>2. JobKnown(Free)
  BY <1>1 DEF JobKnown, Free, Job
<1>3. JobKnown([job EXCEPT !.pc = "issue"])
  BY <1>1 DEF JobKnown, Job
<1>4. \A S \in SUBSET Issued : JobKnown([job EXCEPT !.pc = "delete", !.found = S])
  BY <1>1 DEF JobKnown, Job
<1>5. job.browser \in Browser => JobKnown([Request("reply", job.browser) EXCEPT !.reply = Clear])
  BY <1>1 DEF JobKnown, Request, Free, Job
<1> QED
  BY <1>2, <1>3, <1>4, <1>5

\* A token is issued: what was known stays known.
LEMMA IssueKnown ==
  ASSUME KnownInv, NEW w \in Worker, Issue(w)
  PROVE  /\ KnownInv'
         /\ Issued' = Issued \cup {NextJti}
         /\ \A j \in Issued : family'[j] = family[j]
         /\ family'[NextJti] = IF work[w].jti = None THEN NextJti ELSE family[work[w].jti]
<1> DEFINE j == NextJti
           first == IF work[w].jti = None THEN j ELSE family[work[w].jti]
           job == [work[w] EXCEPT !.pc = "reply", !.reply = j]
<1>1. /\ j \in Jti /\ keys' = keys \cup {j}
      /\ family' = [i \in Issued \cup {j} |-> IF i = j THEN first ELSE family[i]]
      /\ work' = [work EXCEPT ![w] = job]
      /\ jar' = jar /\ oauth' = oauth /\ ended' = ended /\ revoked' = revoked
      /\ raced' = raced /\ disturbed' = disturbed
  BY DEF Issue, Reply, NextJti, Issued, historyVars
<1>2. j \notin Issued /\ \E n \in Nat : Issued \cup {j} = 1..n
  BY NextIsNew
<1>3. Issued' = Issued \cup {j}
  BY <1>1 DEF Issued
<1>4. JobKnown(work[w]) /\ family \in [Issued -> Issued] /\ Issued \subseteq Jti
  BY DEF KnownInv
<1>5. first \in Issued \cup {j}
  BY <1>4 DEF JobKnown
<1> HIDE DEF j, first
<1>6. family' \in [Issued' -> Issued']
  BY <1>1, <1>3, <1>4, <1>5
<1>7. /\ job \in Job
      /\ job.jti \in Issued' \cup {None} /\ job.reply \in Issued' \cup {None, Clear}
      /\ job.found \subseteq Issued' /\ job.before \subseteq Issued'
  BY <1>1, <1>3, <1>4 DEF JobKnown, Job
<1> HIDE DEF job
<1>8. \A v \in Worker : work'[v] = IF v = w THEN job ELSE work[v]
  BY <1>1 DEF KnownInv
<1>9. work' \in [Worker -> Job]
  BY <1>1, <1>7 DEF KnownInv
<1>10. ASSUME NEW v \in Worker PROVE JobKnown(work[v])'
  <2>1. CASE v = w
    BY <1>7, <1>8, <2>1 DEF JobKnown
  <2>2. CASE v # w
    <3>1. work'[v] = work[v] /\ JobKnown(work[v])
      BY <1>8, <2>2 DEF KnownInv
    <3> QED
      BY <1>3, <3>1 DEF JobKnown
  <2> QED
    BY <2>1, <2>2
<1>11. KnownInv'
  BY <1>1, <1>2, <1>3, <1>4, <1>6, <1>9, <1>10 DEF KnownInv
<1>12. /\ \A i \in Issued : family'[i] = family[i]
       /\ family'[j] = first
  BY <1>1, <1>2
<1> QED
  BY <1>3, <1>11, <1>12 DEF j, first

LEMMA WorkerStep ==
  ASSUME KnownInv, NEW w \in Worker, Rotate(w) \/ Scan(w) \/ Delete(w) \/ Arrives(w) \/ Dies(w)
  PROVE  KnownInv'
<1> USE DEF tokenVars, historyVars
<1>0. /\ JobKnown(work[w]) /\ keys \subseteq Issued /\ revoked \subseteq Issued
      /\ raced \subseteq Issued /\ ended \subseteq Issued /\ disturbed \subseteq Browser
      /\ jar \in [Browser -> Issued \cup {None}] /\ oauth \in 0..MaxOAuth
  BY DEF KnownInv
<1>1. CASE Rotate(w)
  BY <1>0, <1>1, Continued, KnownJob DEF Rotate
<1>2. CASE Scan(w)
  <2>1. PICK more \in SUBSET (keys \ work[w].before) :
          work' = [work EXCEPT ![w] = [work[w] EXCEPT !.pc = "delete",
                                         !.found = (keys \cap work[w].before) \cup more]]
    BY <1>2 DEF Scan
  <2>2. (keys \cap work[w].before) \cup more \subseteq Issued
    BY <1>0
  <2>3. JobKnown([work[w] EXCEPT !.pc = "delete", !.found = (keys \cap work[w].before) \cup more])
    BY <2>2, Continued
  <2> QED
    BY <1>0, <1>2, <2>1, <2>3, KnownJob DEF Scan
<1>3. CASE Delete(w)
  <2>1. work' = [work EXCEPT ![w] = [Request("reply", work[w].browser) EXCEPT !.reply = Clear]]
    BY <1>3 DEF Delete
  <2>2. JobKnown([Request("reply", work[w].browser) EXCEPT !.reply = Clear])
    BY <1>0 DEF JobKnown, Request, Free, Job
  <2>3. /\ keys' \subseteq Issued /\ revoked' \subseteq Issued /\ disturbed' \subseteq Browser
        /\ family' = family /\ raced' = raced /\ ended' = ended /\ jar' = jar /\ oauth' = oauth
    BY <1>0, <1>3 DEF Delete, JobKnown
  <2> QED
    BY <1>0, <2>1, <2>2, <2>3, KnownJob
<1>4. CASE Arrives(w)
  <2>1. jar' \in [Browser -> Issued \cup {None}]
    BY <1>0, <1>4 DEF Arrives, JobKnown
  <2> QED
    BY <1>0, <1>4, <2>1, Continued, KnownJob DEF Arrives
<1>5. CASE Dies(w)
  <2>1. disturbed' \subseteq Browser
    BY <1>0, <1>5 DEF Dies, JobKnown, Job
  <2> QED
    BY <1>0, <1>5, <2>1, Continued, KnownJob DEF Dies
<1> QED
  BY <1>1, <1>2, <1>3, <1>4, <1>5

LEMMA BrowserStep ==
  ASSUME KnownInv, NEW w \in Worker, NEW br \in Browser,
         \/ Login(w, br) \/ GoogleCallback(w, br) \/ Refresh(w, br)
         \/ Logout(w, br) \/ LogoutAll(w, br)
  PROVE  KnownInv'
<1> USE DEF tokenVars, historyVars
<1>0. /\ keys \subseteq Issued /\ ended \subseteq Issued /\ oauth \in 0..MaxOAuth
      /\ MaxOAuth \in Nat
  BY SessionAssumption DEF SessionAssumption, KnownInv
<1>1. CASE Login(w, br)
  BY <1>0, <1>1, Requests, KnownStart DEF Login
<1>2. CASE GoogleCallback(w, br)
  <2>1. oauth' \in 0..MaxOAuth
    BY <1>0, <1>2 DEF GoogleCallback
  <2> QED
    BY <1>0, <1>2, <2>1, Requests, KnownStart DEF GoogleCallback
<1>3. CASE Refresh(w, br)
  BY <1>0, <1>3, Requests, KnownStart DEF Refresh
<1>4. CASE Logout(w, br)
  <2>1. ended' \subseteq Issued /\ keys' \subseteq Issued
    BY <1>0, <1>4, Requests DEF Logout
  <2> QED
    BY <1>0, <1>4, <2>1, Requests, KnownStart DEF Logout
<1>5. CASE LogoutAll(w, br)
  BY <1>0, <1>5, Requests, KnownStart DEF LogoutAll
<1> QED
  BY <1>1, <1>2, <1>3, <1>4, <1>5

LEMMA OtherStep ==
  ASSUME KnownInv, (\E j \in Jti : Expires(j)) \/ GoogleLogin \/ GoogleFails \/ UNCHANGED vars
  PROVE  KnownInv'
<1> USE DEF tokenVars, historyVars, vars
<1>0. /\ keys \subseteq Issued /\ oauth \in 0..MaxOAuth /\ disturbed \subseteq Browser
      /\ MaxOAuth \in Nat
  BY SessionAssumption DEF SessionAssumption, KnownInv
<1>1. CASE \E j \in Jti : Expires(j)
  <2>1. \A v \in Worker : work[v].browser \in Browser \cup {None}
    BY DEF KnownInv, JobKnown, Job
  <2>2. disturbed' \subseteq Browser /\ keys' \subseteq Issued
    BY <1>0, <1>1, <2>1 DEF Expires
  <2> QED
    BY <1>0, <1>1, <2>2, KnownElse DEF Expires
<1>2. CASE GoogleLogin \/ GoogleFails
  <2>1. oauth' \in 0..MaxOAuth
    BY <1>0, <1>2 DEF GoogleLogin, GoogleFails
  <2> QED
    BY <1>0, <1>2, <2>1, KnownElse DEF GoogleLogin, GoogleFails
<1>3. CASE UNCHANGED vars
  BY <1>0, <1>3, KnownElse
<1> QED
  BY <1>1, <1>2, <1>3

LEMMA KnownStep == KnownInv /\ [SessionNext]_vars => KnownInv'
  BY IssueKnown, WorkerStep, BrowserStep, OtherStep DEF SessionNext

\* Whatever is interrupted, lost or reordered: only issued tokens are
\* whitelisted, held or worked on, and every variable keeps its type.
THEOREM TypeCorrectness == SessionSpec => []SessionTypeOK
<1>1. KnownInv => SessionTypeOK
  BY DEF KnownInv, SessionTypeOK, Issued
<1> QED
  BY <1>1, KnownInit, KnownStep, PTL DEF SessionSpec

----------------------------------------------------------------------------
(* RevokedStaysRevoked                                                     *)

\* Once SCAN is over, what a logout-all has found are all the tokens there
\* were when it began and that are still valid: nothing but this makes the DEL
\* of them enough.
RevokedInv ==
  /\ RevokedStaysRevoked
  /\ \A w \in Worker : Doing(w, "delete") => keys \cap work[w].before \subseteq work[w].found

\* A step that makes no token valid keeps it, if what it starts is no deletion.
LEMMA NoNewToken ==
  ASSUME KnownInv, RevokedInv, NEW w \in Worker, NEW job,
         work' = [work EXCEPT ![w] = job], keys' \subseteq keys,
         revoked' \cap keys' \subseteq revoked,
         job.pc = "delete" => keys' \cap job.before \subseteq job.found
  PROVE  RevokedInv'
<1>1. \A v \in Worker : work'[v] = IF v = w THEN job ELSE work[v]
  BY DEF KnownInv
<1>2. keys' \cap revoked' = {}
  BY DEF RevokedInv, RevokedStaysRevoked
<1>3. ASSUME NEW v \in Worker, Doing(v, "delete")'
      PROVE  keys' \cap work'[v].before \subseteq work'[v].found
  BY <1>1, <1>3 DEF RevokedInv, Doing
<1> QED
  BY <1>2, <1>3 DEF RevokedInv, RevokedStaysRevoked

LEMMA RevokedIssue ==
  ASSUME KnownInv, RevokedInv, NEW w \in Worker, Issue(w)
  PROVE  RevokedInv'
<1>1. NextJti \notin Issued /\ revoked \subseteq Issued
      /\ \A v \in Worker : work[v].before \subseteq Issued
  BY NextIsNew DEF KnownInv, JobKnown
<1>2. keys' = keys \cup {NextJti} /\ revoked' = revoked
  BY DEF Issue, NextJti, Issued, historyVars
<1>3. \A v \in Worker : /\ work'[v].before = work[v].before
                        /\ work'[v].found = work[v].found
                        /\ v # w => work'[v].pc = work[v].pc
                        /\ v = w => work'[v].pc = "reply"
  BY DEF Issue, Reply, KnownInv, Job
<1>4. keys' \cap revoked' = {}
  BY <1>1, <1>2 DEF RevokedInv, RevokedStaysRevoked
<1>5. ASSUME NEW v \in Worker, Doing(v, "delete")'
      PROVE  keys' \cap work'[v].before \subseteq work'[v].found
  BY <1>1, <1>2, <1>3, <1>5 DEF RevokedInv, Doing
<1> QED
  BY <1>4, <1>5 DEF RevokedInv, RevokedStaysRevoked

LEMMA RevokedWorker ==
  ASSUME KnownInv, RevokedInv, NEW w \in Worker,
         Rotate(w) \/ Scan(w) \/ Delete(w) \/ Arrives(w) \/ Dies(w)
  PROVE  RevokedInv'
<1> USE DEF tokenVars, historyVars
<1>0. JobKnown(work[w])
  BY DEF KnownInv
<1>1. CASE Rotate(w)
  <2>1. /\ work' = [work EXCEPT ![w] = [work[w] EXCEPT !.pc = "issue"]]
        /\ keys' \subseteq keys /\ revoked' = revoked
        /\ [work[w] EXCEPT !.pc = "issue"].pc = "issue"
    BY <1>0, <1>1 DEF Rotate, JobKnown, Job
  <2> QED
    BY <2>1, NoNewToken
<1>2. CASE Scan(w)
  <2>1. PICK more \in SUBSET (keys \ work[w].before) :
          work' = [work EXCEPT ![w] = [work[w] EXCEPT !.pc = "delete",
                                         !.found = (keys \cap work[w].before) \cup more]]
    BY <1>2 DEF Scan
  <2> DEFINE job == [work[w] EXCEPT !.pc = "delete",
                                    !.found = (keys \cap work[w].before) \cup more]
  <2>2. keys \cap job.before \subseteq job.found
    BY <1>0 DEF JobKnown, Job
  <2>3. keys' = keys /\ revoked' = revoked
    BY <1>2 DEF Scan
  <2> HIDE DEF job
  <2>4. work' = [work EXCEPT ![w] = job]
    BY <2>1 DEF job
  <2> QED
    BY <2>2, <2>3, <2>4, NoNewToken
<1>3. CASE Delete(w)
  <2> DEFINE job == [Request("reply", work[w].browser) EXCEPT !.reply = Clear]
  <2>1. work' = [work EXCEPT ![w] = job] /\ keys' \subseteq keys
    BY <1>3 DEF Delete
  <2>2. job.pc = "reply"
    BY DEF Request, Free
  <2>3. keys \cap work[w].before \subseteq work[w].found
    BY <1>3 DEF Delete, RevokedInv
  <2>4. revoked' \cap keys' \subseteq revoked
    BY <1>3, <2>3 DEF Delete
  <2> HIDE DEF job
  <2> QED
    BY <2>1, <2>2, <2>4, NoNewToken
<1>4. CASE Arrives(w) \/ Dies(w)
  <2>1. work' = [work EXCEPT ![w] = Free] /\ keys' = keys /\ revoked' = revoked
    BY <1>4 DEF Arrives, Dies
  <2>2. Free.pc = "idle"
    BY DEF Free
  <2> QED
    BY <2>1, <2>2, NoNewToken
<1> QED
  BY <1>1, <1>2, <1>3, <1>4

LEMMA RevokedBrowser ==
  ASSUME KnownInv, RevokedInv, NEW w \in Worker, NEW br \in Browser,
         \/ Login(w, br) \/ GoogleCallback(w, br) \/ Refresh(w, br)
         \/ Logout(w, br) \/ LogoutAll(w, br)
  PROVE  RevokedInv'
<1> USE DEF tokenVars, historyVars
<1> DEFINE Started == \E job : Start(w, job) /\ job.pc \in {"issue", "rotate", "reply", "scan"}
<1>a. ASSUME Login(w, br) \/ GoogleCallback(w, br) PROVE Started
  <2>1. Request("issue", br).pc = "issue" /\ Start(w, Request("issue", br))
    BY <1>a DEF Login, GoogleCallback, Request, Free
  <2> QED
    BY <2>1
<1>b. ASSUME Refresh(w, br) PROVE Started
  <2> DEFINE label == IF jar[br] \in keys THEN "rotate" ELSE "reply"
  <2>1. WithCookie(label, br).pc = label /\ Start(w, WithCookie(label, br))
    BY <1>b DEF Refresh, WithCookie, Request, Free
  <2> QED
    BY <2>1
<1>c. ASSUME Logout(w, br) PROVE Started
  <2> DEFINE job == [WithCookie("reply", br) EXCEPT !.reply = Clear]
  <2>1. job.pc = "reply" /\ Start(w, job)
    BY <1>c DEF Logout, WithCookie, Request, Free
  <2> QED
    BY <2>1
<1>d. ASSUME LogoutAll(w, br) PROVE Started
  <2> DEFINE job == [Request("scan", br) EXCEPT !.before = keys]
  <2>1. job.pc = "scan" /\ Start(w, job)
    BY <1>d DEF LogoutAll, Request, Free
  <2> QED
    BY <2>1
<1>e. Started
  BY <1>a, <1>b, <1>c, <1>d
<1>1. PICK job : Start(w, job) /\ job.pc \in {"issue", "rotate", "reply", "scan"}
  BY <1>e
<1>2. keys' \subseteq keys
  BY DEF Login, GoogleCallback, Refresh, Logout, LogoutAll
<1>3. work' = [work EXCEPT ![w] = job] /\ revoked' = revoked
  BY <1>1 DEF Start
<1> QED
  BY <1>1, <1>2, <1>3, NoNewToken

LEMMA RevokedElse ==
  ASSUME RevokedInv, work' = work, keys' \subseteq keys, revoked' = revoked
  PROVE  RevokedInv'
BY DEF RevokedInv, RevokedStaysRevoked, Doing

LEMMA RevokedOther ==
  ASSUME RevokedInv, (\E j \in Jti : Expires(j)) \/ GoogleLogin \/ GoogleFails \/ UNCHANGED vars
  PROVE  RevokedInv'
BY RevokedElse DEF Expires, GoogleLogin, GoogleFails, vars, tokenVars, historyVars

LEMMA RevokedInit == SessionInit => RevokedInv
BY DEF SessionInit, RevokedInv, RevokedStaysRevoked, Doing, Free

LEMMA RevokedStep == KnownInv /\ RevokedInv /\ [SessionNext]_vars => RevokedInv'
BY RevokedIssue, RevokedWorker, RevokedBrowser, RevokedOther DEF SessionNext

\* Logging out from all devices works whatever logins and refreshes race with
\* its SCAN: a token that was there when it began is never valid again once
\* it is over (logout_all, revoke_all_refresh_tokens).
THEOREM LogoutAllRevokes == SessionSpec => []RevokedStaysRevoked
<1>1. RevokedInv => RevokedStaysRevoked
  BY DEF RevokedInv
<1> QED
  BY <1>1, KnownInit, KnownStep, RevokedInit, RevokedStep, PTL DEF SessionSpec

----------------------------------------------------------------------------
(* OneTokenPerLogin                                                        *)

\* The login of the cookie a request came with.
LoginOf(w) == family[work[w].jti]
HasLogin(w, f) == work[w].jti # None /\ LoginOf(w) = f

\* A login without overlapping requests: at most one invocation works for it;
\* the token that one is about to revoke is the only one of the login, and
\* none is left when it is about to issue the next.
OrderlyLogin(f) ==
  /\ \A w, v \in Worker : HasLogin(w, f) /\ HasLogin(v, f) => w = v
  /\ \A i, j \in keys : family[i] = f /\ family[j] = f => i = j
  /\ \A w \in Worker : HasLogin(w, f) /\ Doing(w, "rotate") =>
       \A j \in keys : family[j] = f => j = work[w].jti
  /\ \A w \in Worker : HasLogin(w, f) /\ Doing(w, "issue") =>
       \A j \in keys : family[j] # f

OneTokenInv == \A f \in Issued \ raced : OrderlyLogin(f)

LEMMA OneTokenOfOrderly ==
  ASSUME KnownInv, OneTokenInv
  PROVE  OneTokenPerLogin
<1> SUFFICES ASSUME NEW i \in Issued, family[i] \notin raced
             PROVE  Cardinality(Of(family[i])) <= 1
  BY DEF OneTokenPerLogin, Issued
<1> DEFINE S == Of(family[i])
<1>1. family[i] \in Issued \ raced
  BY DEF KnownInv
<1>2. \A j, k \in S : j = k
  BY <1>1 DEF OneTokenInv, OrderlyLogin, Of
<1>3. CASE S = {}
  BY <1>3, FS_EmptySet
<1>4. ASSUME NEW j \in S PROVE Cardinality(S) = 1
  <2>1. S = {j}
    BY <1>2, <1>4
  <2>2. Cardinality({j}) = 1
    BY FS_Singleton
  <2> QED
    BY <2>1, <2>2
<1> HIDE DEF S
<1>5. Cardinality(S) \in {0, 1}
  BY <1>3, <1>4, FS_EmptySet
<1>6. Cardinality(S) <= 1
  BY <1>5
<1> QED
  BY <1>6 DEF S

\* A step of an invocation that issues no token and takes up no other cookie.
LEMMA OrderlyJob ==
  ASSUME KnownInv, OneTokenInv, NEW w \in Worker, NEW job,
         work' = [work EXCEPT ![w] = job], family' = family, keys' \subseteq keys,
         raced \subseteq raced', job.jti \in {None, work[w].jti},
         job.pc = "rotate" => Doing(w, "rotate"),
         job.pc = "issue" /\ job.jti # None =>
           Doing(w, "issue") \/ (Doing(w, "rotate") /\ keys' = keys \ {work[w].jti})
  PROVE  OneTokenInv'
<1>1. \A v \in Worker : work'[v] = IF v = w THEN job ELSE work[v]
  BY DEF KnownInv
<1> SUFFICES ASSUME NEW f \in Issued \ raced' PROVE OrderlyLogin(f)'
  BY DEF OneTokenInv, Issued
<1>2. OrderlyLogin(f)
  BY DEF OneTokenInv
<1>3. \A v \in Worker : HasLogin(v, f)' => HasLogin(v, f)
  BY <1>1 DEF HasLogin, LoginOf
<1>4. \A u, v \in Worker : HasLogin(u, f)' /\ HasLogin(v, f)' => u = v
  BY <1>2, <1>3 DEF OrderlyLogin
<1>5. \A i, j \in keys' : family'[i] = f /\ family'[j] = f => i = j
  BY <1>2 DEF OrderlyLogin
<1>6. ASSUME NEW v \in Worker, HasLogin(v, f)', Doing(v, "rotate")',
             NEW j \in keys', family'[j] = f
      PROVE  j = work'[v].jti
  <2>1. work'[v].jti = work[v].jti /\ Doing(v, "rotate")
    BY <1>1, <1>6 DEF Doing, HasLogin
  <2> QED
    BY <1>2, <1>3, <1>6, <2>1 DEF OrderlyLogin
<1>7. ASSUME NEW v \in Worker, HasLogin(v, f)', Doing(v, "issue")',
             NEW j \in keys', family'[j] = f
      PROVE  FALSE
  <2>1. HasLogin(v, f) /\ j \in keys /\ family[j] = f
    BY <1>3, <1>7
  <2>2. CASE Doing(v, "issue")
    BY <1>2, <2>1, <2>2 DEF OrderlyLogin
  <2>3. CASE Doing(v, "rotate") /\ keys' = keys \ {work[v].jti}
    BY <1>2, <1>7, <2>1, <2>3 DEF OrderlyLogin
  <2> QED
    BY <1>1, <1>7, <2>2, <2>3 DEF Doing, HasLogin
<1> QED
  BY <1>4, <1>5, <1>6, <1>7 DEF OrderlyLogin

\* A request that starts with a cookie: nobody else works for its login, or
\* the two are noted to race.
LEMMA OrderlyStart ==
  ASSUME KnownInv, OneTokenInv, NEW w \in Worker, NEW job, Start(w, job),
         family' = family, keys' \subseteq keys, job.jti \in Issued \cup {None},
         job.pc = "rotate" => job.jti \in keys,
         job.pc = "issue" => job.jti = None
  PROVE  OneTokenInv'
<1>1. /\ \A v \in Worker : work'[v] = IF v = w THEN job ELSE work[v]
      /\ raced \subseteq raced'
  BY DEF Start, KnownInv
<1> SUFFICES ASSUME NEW f \in Issued \ raced' PROVE OrderlyLogin(f)'
  BY DEF OneTokenInv, Issued
<1>2. OrderlyLogin(f)
  BY <1>1 DEF OneTokenInv
<1>3. ASSUME job.jti # None, family[job.jti] = f
      PROVE  \A v \in Worker : ~HasLogin(v, f)
  BY <1>3 DEF Start, HasLogin, LoginOf
<1>4. /\ \A v \in Worker \ {w} : HasLogin(v, f)' <=> HasLogin(v, f)
      /\ HasLogin(w, f)' <=> job.jti # None /\ family[job.jti] = f
  BY <1>1 DEF HasLogin, LoginOf
<1>5. \A u, v \in Worker : HasLogin(u, f)' /\ HasLogin(v, f)' => u = v
  BY <1>2, <1>3, <1>4 DEF OrderlyLogin
<1>6. \A i, j \in keys' : family'[i] = f /\ family'[j] = f => i = j
  BY <1>2 DEF OrderlyLogin
<1>7. ASSUME NEW v \in Worker, HasLogin(v, f)', Doing(v, "rotate")',
             NEW j \in keys', family'[j] = f
      PROVE  j = work'[v].jti
  <2>1. CASE v = w
    BY <1>1, <1>2, <1>4, <1>7, <2>1 DEF OrderlyLogin, Doing
  <2>2. CASE v # w
    BY <1>1, <1>2, <1>4, <1>7, <2>2 DEF OrderlyLogin, Doing
  <2> QED
    BY <2>1, <2>2
<1>8. ASSUME NEW v \in Worker, HasLogin(v, f)', Doing(v, "issue")',
             NEW j \in keys', family'[j] = f
      PROVE  FALSE
  <2>1. v # w
    BY <1>1, <1>4, <1>8 DEF Doing
  <2> QED
    BY <1>1, <1>2, <1>4, <1>8, <2>1 DEF OrderlyLogin, Doing
<1> QED
  BY <1>5, <1>6, <1>7, <1>8 DEF OrderlyLogin

\* The token of a new login is the first of it; that of a refresh takes the
\* place of the one revoked before.
LEMMA OrderlyIssue ==
  ASSUME KnownInv, OneTokenInv, NEW w \in Worker, Issue(w)
  PROVE  OneTokenInv'
<1> DEFINE n == NextJti
<1>1. /\ n \notin Issued /\ Issued' = Issued \cup {n}
      /\ \A j \in Issued : family'[j] = family[j]
      /\ family'[n] = IF work[w].jti = None THEN n ELSE family[work[w].jti]
  BY NextIsNew, IssueKnown
<1>2. /\ Doing(w, "issue") /\ keys' = keys \cup {n} /\ raced' = raced
      /\ \A v \in Worker : /\ work'[v].jti = work[v].jti
                           /\ v # w => work'[v].pc = work[v].pc
                           /\ v = w => work'[v].pc = "reply"
  BY DEF Issue, Reply, KnownInv, Job, NextJti, Issued, historyVars
<1>3. /\ \A v \in Worker : work[v].jti \in Issued \cup {None}
      /\ family \in [Issued -> Issued] /\ keys \subseteq Issued
  BY DEF KnownInv, JobKnown
<1> HIDE DEF n
<1>4. \A v \in Worker : \A f : HasLogin(v, f)' <=> HasLogin(v, f)
  BY <1>1, <1>2, <1>3 DEF HasLogin, LoginOf
<1> SUFFICES ASSUME NEW f \in Issued' \ raced PROVE OrderlyLogin(f)'
  BY <1>2 DEF OneTokenInv
<1>5. CASE f = n
  <2>1. \A v \in Worker : ~HasLogin(v, n)
    BY <1>1, <1>3 DEF HasLogin, LoginOf
  <2>2. \A j \in keys : family'[j] # n
    BY <1>1, <1>3
  <2> QED
    BY <1>2, <1>4, <1>5, <2>1, <2>2 DEF OrderlyLogin
<1>6. CASE f # n /\ family'[n] # f
  <2>1. OrderlyLogin(f)
    BY <1>1, <1>6 DEF OneTokenInv
  <2>2. \A j \in keys' : family'[j] = f => j \in keys /\ family[j] = f
    BY <1>1, <1>2, <1>3, <1>6
  <2> QED
    BY <1>2, <1>4, <2>1, <2>2 DEF OrderlyLogin, Doing
<1>7. CASE f # n /\ family'[n] = f
  <2>1. OrderlyLogin(f) /\ HasLogin(w, f)
    BY <1>1, <1>7 DEF OneTokenInv, HasLogin, LoginOf
  <2>2. \A j \in keys : family'[j] # f
    BY <1>1, <1>2, <1>3, <2>1 DEF OrderlyLogin
  <2>3. \A v \in Worker : HasLogin(v, f)' => v = w
    BY <1>4, <2>1 DEF OrderlyLogin
  <2>4. \A v \in Worker : HasLogin(v, f)' => ~Doing(v, "rotate")' /\ ~Doing(v, "issue")'
    BY <1>2, <2>3 DEF Doing
  <2> QED
    BY <1>2, <2>2, <2>3, <2>4 DEF OrderlyLogin
<1> QED
  BY <1>5, <1>6, <1>7

LEMMA OrderlyWorker ==
  ASSUME KnownInv, OneTokenInv, NEW w \in Worker,
         Rotate(w) \/ Scan(w) \/ Delete(w) \/ Arrives(w) \/ Dies(w)
  PROVE  OneTokenInv'
<1> USE DEF tokenVars, historyVars
<1>0. work[w] \in Job
  BY DEF KnownInv
<1>1. CASE Rotate(w)
  <2> DEFINE job == [work[w] EXCEPT !.pc = "issue"]
  <2>1. /\ work' = [work EXCEPT ![w] = job] /\ Doing(w, "rotate")
        /\ keys' = keys \ {work[w].jti} /\ family' = family /\ raced' = raced
    BY <1>1 DEF Rotate
  <2>2. job.pc = "issue" /\ job.jti = work[w].jti
    BY <1>0 DEF Job
  <2> HIDE DEF job
  <2> QED
    BY <2>1, <2>2, OrderlyJob
<1>2. CASE Scan(w)
  <2>1. PICK more \in SUBSET (keys \ work[w].before) :
          work' = [work EXCEPT ![w] = [work[w] EXCEPT !.pc = "delete",
                                         !.found = (keys \cap work[w].before) \cup more]]
    BY <1>2 DEF Scan
  <2> DEFINE job == [work[w] EXCEPT !.pc = "delete",
                                    !.found = (keys \cap work[w].before) \cup more]
  <2>2. job.pc = "delete" /\ job.jti = work[w].jti
    BY <1>0 DEF Job
  <2>3. work' = [work EXCEPT ![w] = job]
    BY <2>1
  <2>4. keys' = keys /\ family' = family /\ raced' = raced
    BY <1>2 DEF Scan
  <2> HIDE DEF job
  <2> QED
    BY <2>2, <2>3, <2>4, OrderlyJob
<1>3. CASE Delete(w)
  <2> DEFINE job == [Request("reply", work[w].browser) EXCEPT !.reply = Clear]
  <2>1. /\ work' = [work EXCEPT ![w] = job]
        /\ keys' \subseteq keys /\ family' = family /\ raced' = raced
    BY <1>3 DEF Delete
  <2>2. job.pc = "reply" /\ job.jti = None
    BY DEF Request, Free
  <2> HIDE DEF job
  <2> QED
    BY <2>1, <2>2, OrderlyJob
<1>4. CASE Arrives(w) \/ Dies(w)
  <2>1. /\ work' = [work EXCEPT ![w] = Free]
        /\ keys' = keys /\ family' = family /\ raced' = raced
    BY <1>4 DEF Arrives, Dies
  <2>2. Free.pc = "idle" /\ Free.jti = None
    BY DEF Free
  <2> QED
    BY <2>1, <2>2, OrderlyJob
<1> QED
  BY <1>1, <1>2, <1>3, <1>4

LEMMA OrderlyBrowser ==
  ASSUME KnownInv, OneTokenInv, NEW w \in Worker, NEW br \in Browser,
         \/ Login(w, br) \/ GoogleCallback(w, br) \/ Refresh(w, br)
         \/ Logout(w, br) \/ LogoutAll(w, br)
  PROVE  OneTokenInv'
<1> USE DEF tokenVars, historyVars
<1>0. jar[br] \in Issued \cup {None}
  BY DEF KnownInv
<1>1. CASE Login(w, br) \/ GoogleCallback(w, br)
  <2> DEFINE job == Request("issue", br)
  <2>1. Start(w, job) /\ family' = family /\ keys' = keys
    BY <1>1 DEF Login, GoogleCallback
  <2>2. job.pc = "issue" /\ job.jti = None
    BY DEF Request, Free
  <2> HIDE DEF job
  <2> QED
    BY <2>1, <2>2, OrderlyStart
<1>2. CASE Refresh(w, br)
  <2> DEFINE label == IF jar[br] \in keys THEN "rotate" ELSE "reply"
             job == WithCookie(label, br)
  <2>1. Start(w, job) /\ family' = family /\ keys' = keys
    BY <1>2 DEF Refresh
  <2>2. job.pc = label /\ job.jti = jar[br]
    BY DEF WithCookie, Request, Free
  <2>3. job.jti \in Issued \cup {None} /\ (job.pc = "rotate" => job.jti \in keys) /\ job.pc # "issue"
    BY <1>0, <2>2
  <2> HIDE DEF job
  <2> QED
    BY <2>1, <2>3, OrderlyStart
<1>3. CASE Logout(w, br)
  <2> DEFINE job == [WithCookie("reply", br) EXCEPT !.reply = Clear]
  <2>1. Start(w, job) /\ family' = family /\ keys' \subseteq keys
    BY <1>3 DEF Logout
  <2>2. job.pc = "reply" /\ job.jti \in Issued \cup {None}
    BY <1>0 DEF WithCookie, Request, Free
  <2> HIDE DEF job
  <2> QED
    BY <2>1, <2>2, OrderlyStart
<1>4. CASE LogoutAll(w, br)
  <2> DEFINE job == [Request("scan", br) EXCEPT !.before = keys]
  <2>1. Start(w, job) /\ family' = family /\ keys' = keys
    BY <1>4 DEF LogoutAll
  <2>2. job.pc = "scan" /\ job.jti = None
    BY DEF Request, Free
  <2> HIDE DEF job
  <2> QED
    BY <2>1, <2>2, OrderlyStart
<1> QED
  BY <1>1, <1>2, <1>3, <1>4

LEMMA OrderlyElse ==
  ASSUME OneTokenInv, work' = work, keys' \subseteq keys, family' = family, raced' = raced
  PROVE  OneTokenInv'
BY DEF OneTokenInv, OrderlyLogin, HasLogin, LoginOf, Doing, Issued

LEMMA OrderlyOther ==
  ASSUME OneTokenInv, (\E j \in Jti : Expires(j)) \/ GoogleLogin \/ GoogleFails \/ UNCHANGED vars
  PROVE  OneTokenInv'
BY OrderlyElse DEF Expires, GoogleLogin, GoogleFails, vars, tokenVars, historyVars

LEMMA OrderlyInit == SessionInit => OneTokenInv
BY DEF SessionInit, OneTokenInv, Issued

LEMMA OrderlyStep == KnownInv /\ OneTokenInv /\ [SessionNext]_vars => OneTokenInv'
BY OrderlyIssue, OrderlyWorker, OrderlyBrowser, OrderlyOther DEF SessionNext

\* Refreshing replaces the token of a login: it never has two that are valid
\* as long as no two of its requests overlap (refresh, "Revoke the old refresh
\* token and issue a new one"), whoever else logs in or out meanwhile.
THEOREM OneToken == SessionSpec => []OneTokenPerLogin
BY KnownInit, KnownStep, OrderlyInit, OrderlyStep, OneTokenOfOrderly, PTL DEF SessionSpec

----------------------------------------------------------------------------
(* What browsers and their requests hold                                   *)

\* A new token that is on its way to the browser.
Carries(w) == work[w].reply \in Issued
InJar(br, f) == jar[br] # None /\ family[jar[br]] = f
WorksFor(w, f) == HasLogin(w, f) \/ (Carries(w) /\ family[work[w].reply] = f)
Holds(br, f) == InJar(br, f) \/ \E w \in Worker : work[w].browser = br /\ WorksFor(w, f)

\* A request has a browser and a reply only at its end; what it brings is a
\* token of the login it came with, or of a new one.
OrderlyJobs ==
  \A w \in Worker :
    /\ Doing(w, "idle") => work[w].jti = None
    /\ ~Doing(w, "idle") => work[w].browser \in Browser
    /\ ~Doing(w, "reply") => work[w].reply = None
    /\ Doing(w, "rotate") => work[w].jti # None
    /\ Carries(w) => family[work[w].reply] = IF work[w].jti = None THEN work[w].reply
                                                                  ELSE LoginOf(w)

\* A login is of one browser; a token on its way is nowhere else, and one of a
\* new login is the only one there is of it.
HeldInv ==
  /\ OrderlyJobs
  /\ \A br, bq \in Browser : \A f \in Issued : Holds(br, f) /\ Holds(bq, f) => br = bq
  /\ \A w \in Worker : Carries(w) =>
       /\ \A br \in Browser : jar[br] # work[w].reply
       /\ \A v \in Worker : /\ work[v].jti # work[w].reply
                            /\ work[v].reply = work[w].reply => v = w
  /\ \A w \in Worker : Carries(w) /\ work[w].jti = None =>
       /\ \A br \in Browser : ~InJar(br, work[w].reply)
       /\ \A v \in Worker : ~HasLogin(v, work[w].reply)
       /\ Of(work[w].reply) \subseteq {work[w].reply}

\* A browser for which nothing was lost: the tokens on their way to it are
\* valid, and so is its cookie unless a request took it that will replace it.
SurvivesInv ==
  \A br \in Browser \ disturbed :
    /\ \A w \in Worker : work[w].browser = br /\ Carries(w) => work[w].reply \in keys
    /\ jar[br] # None =>
         \/ jar[br] \in keys
         \/ \E w \in Worker : /\ work[w].browser = br /\ work[w].jti = jar[br]
                              /\ Doing(w, "reply") => work[w].reply # None

\* A login without overlapping requests, of a browser for which nothing was
\* lost: its one valid token is in the jar, or with the request under way.  One
\* that ended has none, and no request that will issue it one.
EndedInv ==
  /\ \A br \in Browser \ disturbed : \A f \in Issued \ raced :
       InJar(br, f) => Of(f) \subseteq {jar[br]} \/ \E w \in Worker : HasLogin(w, f)
  /\ \A w \in Worker : \A f \in Issued \ raced :
       HasLogin(w, f) /\ Doing(w, "reply") /\ work[w].browser \notin disturbed =>
         Of(f) \subseteq {work[w].reply}
  /\ \A f \in ended \ raced :
       /\ Of(f) = {}
       /\ \A w \in Worker : HasLogin(w, f) => ~Doing(w, "rotate") /\ ~Doing(w, "issue")

LEMMA Apart ==
  ASSUME KnownInv
  PROVE  /\ None \notin Issued /\ Clear \notin Issued /\ None # Clear /\ None \notin Browser
         /\ family \in [Issued -> Issued] /\ keys \subseteq Issued /\ ended \subseteq Issued
         /\ jar \in [Browser -> Issued \cup {None}]
         /\ \A w \in Worker : /\ work[w] \in Job
                              /\ work[w].jti \in Issued \cup {None}
                              /\ work[w].reply \in Issued \cup {None, Clear}
                              /\ work[w].browser \in Browser \cup {None}
<1>1. Issued \subseteq Jti /\ None \notin Nat /\ None \notin Browser /\ MaxTokens \in Nat
  BY SessionAssumption DEF KnownInv, SessionAssumption
<1>2. Jti \subseteq Nat /\ 0 \notin Jti /\ 0 \in Nat
  BY <1>1 DEF Jti
<1>3. None \notin Issued /\ Clear \notin Issued /\ None # Clear
  BY <1>1, <1>2 DEF Clear
<1> QED
  BY <1>1, <1>3 DEF KnownInv, JobKnown, Job

LEMMA HeldInit == SessionInit => HeldInv
BY DEF SessionInit, HeldInv, OrderlyJobs, Doing, Carries, Issued, Free

\* What a request may become when it starts, goes on or dies: it has no new
\* token, and its cookie is the one it had or the one in its browser's jar.
Bare(w, job) ==
  /\ job.reply \in {None, Clear} /\ (job.pc # "reply" => job.reply = None)
  /\ IF job.pc = "idle" THEN job.jti = None ELSE job.browser \in Browser
  /\ job.pc = "rotate" => job.jti # None
  /\ job.jti # None =>
       \/ job.jti = work[w].jti /\ job.browser = work[w].browser
       \/ job.browser \in Browser /\ job.jti = jar[job.browser]

LEMMA HeldJob ==
  ASSUME KnownInv, HeldInv, NEW w \in Worker, NEW job, Bare(w, job),
         work' = [work EXCEPT ![w] = job], family' = family, keys' \subseteq keys, jar' = jar
  PROVE  /\ HeldInv'
         /\ \A v \in Worker : Carries(v)' => v # w /\ Carries(v)
<1>1. /\ \A v \in Worker : work'[v] = IF v = w THEN job ELSE work[v]
      /\ Issued' = Issued
  BY DEF KnownInv, Issued
<1>2. \A v \in Worker : Carries(v)' => v # w /\ work'[v] = work[v] /\ Carries(v)
  BY <1>1, Apart DEF Carries, Bare
<1>3. OrderlyJobs'
  BY <1>1, <1>2 DEF OrderlyJobs, HeldInv, Doing, LoginOf, Bare
<1>4. \A br \in Browser : \A f : InJar(br, f)' <=> InJar(br, f)
  BY DEF InJar
<1>5. ASSUME NEW br \in Browser, NEW f \in Issued, Holds(br, f)' PROVE Holds(br, f)
  <2>1. CASE InJar(br, f)'
    BY <1>4, <2>1 DEF Holds
  <2>2. ASSUME NEW v \in Worker, work'[v].browser = br, WorksFor(v, f)' PROVE Holds(br, f)
    <3>1. CASE v # w
      BY <1>1, <1>2, <2>2, <3>1 DEF Holds, WorksFor, HasLogin, LoginOf
    <3>2. CASE v = w
      <4>1. job.browser = br /\ job.jti # None /\ family[job.jti] = f
        BY <1>1, <1>2, <2>2, <3>2 DEF WorksFor, HasLogin, LoginOf
      <4>2. CASE job.jti = work[w].jti /\ job.browser = work[w].browser
        BY <4>1, <4>2 DEF Holds, WorksFor, HasLogin, LoginOf
      <4>3. CASE job.jti = jar[job.browser]
        BY <4>1, <4>3 DEF Holds, InJar
      <4> QED
        BY <4>1, <4>2, <4>3 DEF Bare
    <3> QED
      BY <3>1, <3>2
  <2> QED
    BY <1>5, <2>1, <2>2 DEF Holds
<1>6. ASSUME NEW v \in Worker, Carries(v)
      PROVE  job.jti # work[v].reply
  BY <1>6, Apart DEF Bare, HeldInv, Carries
<1>7. ASSUME NEW v \in Worker, Carries(v)'
      PROVE  /\ \A br \in Browser : jar'[br] # work'[v].reply
             /\ \A u \in Worker : /\ work'[u].jti # work'[v].reply
                                  /\ work'[u].reply = work'[v].reply => u = v
  <2>1. \A u \in Worker : work'[u].reply = work'[v].reply => u # w
    BY <1>1, <1>2, <1>7, Apart DEF Bare, Carries
  <2> QED
    BY <1>1, <1>2, <1>6, <1>7, <2>1 DEF HeldInv
<1>8. ASSUME NEW v \in Worker, Carries(v)', work'[v].jti = None, NEW f, f = work'[v].reply
      PROVE  /\ \A br \in Browser : ~InJar(br, f)'
             /\ \A u \in Worker : ~HasLogin(u, f)'
             /\ Of(f)' \subseteq {f}
  <2>1. /\ Carries(v) /\ work'[v] = work[v] /\ work[v].jti = None /\ f = work[v].reply
        /\ \A br \in Browser : ~InJar(br, f)
        /\ \A u \in Worker : ~HasLogin(u, f)
        /\ Of(f) \subseteq {f}
    BY <1>2, <1>8 DEF HeldInv
  <2>2. \A u \in Worker : HasLogin(u, f)' => HasLogin(u, f) \/ \E br \in Browser : InJar(br, f)
    BY <1>1 DEF HasLogin, LoginOf, InJar, Bare
  <2>3. Of(f)' \subseteq Of(f)
    BY DEF Of
  <2> QED
    BY <1>4, <2>1, <2>2, <2>3
<1>9. \A br, bq \in Browser : \A f \in Issued : Holds(br, f)' /\ Holds(bq, f)' => br = bq
  BY <1>5 DEF HeldInv
<1> QED
  BY <1>1, <1>2, <1>3, <1>7, <1>8, <1>9 DEF HeldInv

LEMMA HeldElse ==
  ASSUME HeldInv, work' = work, family' = family, keys' \subseteq keys, jar' = jar
  PROVE  HeldInv'
<1>1. Issued' = Issued /\ \A f : Of(f)' \subseteq Of(f)
  BY DEF Issued, Of
<1>2. /\ \A w \in Worker : (Carries(w)' <=> Carries(w)) /\ LoginOf(w)' = LoginOf(w)
      /\ \A w \in Worker : \A f : (HasLogin(w, f)' <=> HasLogin(w, f))
                                  /\ (WorksFor(w, f)' <=> WorksFor(w, f))
      /\ \A br \in Browser : \A f : InJar(br, f)' <=> InJar(br, f)
  BY <1>1 DEF Carries, HasLogin, LoginOf, WorksFor, InJar
<1>3. OrderlyJobs'
  BY <1>2 DEF HeldInv, OrderlyJobs, Doing
<1>4. \A br \in Browser : \A f : Holds(br, f)' <=> Holds(br, f)
  BY <1>2 DEF Holds
<1> QED
  BY <1>1, <1>2, <1>3, <1>4 DEF HeldInv

LEMMA HeldIssue ==
  ASSUME KnownInv, HeldInv, NEW w \in Worker, Issue(w)
  PROVE  HeldInv'
<1> PICK n : n = NextJti
  OBVIOUS
<1>0. /\ n \in Nat /\ n \notin Issued /\ \E m \in Nat : Issued \cup {n} = 1..m
      /\ None \notin Nat /\ work \in [Worker -> Job]
  BY NextIsNew, SessionAssumption DEF SessionAssumption, KnownInv
<1>1. /\ n \notin Issued /\ Issued' = Issued \cup {n} /\ n # None /\ n # Clear
      /\ \A j \in Issued : family'[j] = family[j]
      /\ family'[n] = IF work[w].jti = None THEN n ELSE family[work[w].jti]
  BY <1>0, IssueKnown DEF Clear
<1>2. /\ Doing(w, "issue") /\ keys' = keys \cup {n} /\ jar' = jar
      /\ work' = [work EXCEPT ![w] = [work[w] EXCEPT !.pc = "reply", !.reply = n]]
  BY DEF Issue, Reply, NextJti, Issued
<1>3. /\ \A v \in Worker \ {w} : work'[v] = work[v]
      /\ work'[w].pc = "reply" /\ work'[w].reply = n
      /\ work'[w].jti = work[w].jti /\ work'[w].browser = work[w].browser
  BY <1>0, <1>2 DEF Job
<1>4. work[w].reply = None /\ work[w].browser \in Browser
  <2>1. ~Doing(w, "idle") /\ ~Doing(w, "reply")
    BY <1>2 DEF Doing
  <2> QED
    BY <2>1 DEF HeldInv, OrderlyJobs
<1>5. \A v \in Worker : Carries(v)' <=> v = w \/ Carries(v)
  BY <1>1, <1>3, <1>4, Apart DEF Carries
<1>6. /\ \A v \in Worker : \A f : HasLogin(v, f)' <=> HasLogin(v, f)
      /\ \A br \in Browser : \A f : InJar(br, f)' <=> InJar(br, f)
  BY <1>1, <1>2, <1>3, Apart DEF HasLogin, LoginOf, InJar
<1>7. OrderlyJobs'
  <2>1. \A v \in Worker : Carries(v)' =>
          family'[work'[v].reply] = IF work'[v].jti = None THEN work'[v].reply ELSE LoginOf(v)'
    <3>1. \A v \in Worker : work[v].jti # None => LoginOf(v)' = LoginOf(v)
      BY <1>1, <1>3, Apart DEF LoginOf
    <3> QED
      BY <1>1, <1>3, <1>5, <3>1 DEF HeldInv, OrderlyJobs, Carries, LoginOf
  <2> QED
    BY <1>2, <1>3, <1>4, <2>1 DEF HeldInv, OrderlyJobs, Doing
<1>8. ASSUME NEW br \in Browser, NEW f, Holds(br, f)'
      PROVE  Holds(br, f) \/ (f = n /\ br = work[w].browser)
  <2>1. CASE InJar(br, f)'
    BY <1>6, <2>1 DEF Holds
  <2>2. ASSUME NEW v \in Worker, work'[v].browser = br, WorksFor(v, f)'
        PROVE  Holds(br, f) \/ (f = n /\ br = work[w].browser)
    <3>1. CASE HasLogin(v, f)'
      BY <1>3, <1>6, <2>2, <3>1 DEF Holds, WorksFor
    <3>2. CASE Carries(v)' /\ family'[work'[v].reply] = f /\ v # w
      BY <1>1, <1>3, <1>5, <2>2, <3>2 DEF Holds, WorksFor, Carries
    <3>3. CASE family'[work'[v].reply] = f /\ v = w
      BY <1>1, <1>3, <2>2, <3>3 DEF Holds, WorksFor, HasLogin, LoginOf
    <3> QED
      BY <2>2, <3>1, <3>2, <3>3 DEF WorksFor
  <2> QED
    BY <1>8, <2>1, <2>2 DEF Holds
<1>9. \A br \in Browser : ~Holds(br, n)
  BY <1>1, Apart DEF Holds, InJar, WorksFor, HasLogin, LoginOf, Carries
<1>10. \A br, bq \in Browser : \A f \in Issued' : Holds(br, f)' /\ Holds(bq, f)' => br = bq
  BY <1>1, <1>8, <1>9 DEF HeldInv
<1>11. ASSUME NEW v \in Worker, Carries(v)'
       PROVE  /\ \A br \in Browser : jar'[br] # work'[v].reply
              /\ \A u \in Worker : /\ work'[u].jti # work'[v].reply
                                   /\ work'[u].reply = work'[v].reply => u = v
  <2>1. CASE v = w
    BY <1>1, <1>2, <1>3, <2>1, Apart DEF Carries
  <2>2. CASE v # w
    <3>1. Carries(v) /\ work'[v] = work[v]
      BY <1>3, <1>5, <1>11, <2>2
    <3>2. work[v].reply # n
      BY <1>1, <3>1 DEF Carries
    <3>3. /\ \A br \in Browser : jar[br] # work[v].reply
          /\ \A u \in Worker : /\ work[u].jti # work[v].reply
                               /\ work[u].reply = work[v].reply => u = v
      BY <3>1 DEF HeldInv
    <3> QED
      BY <1>2, <1>3, <3>1, <3>2, <3>3
  <2> QED
    BY <2>1, <2>2
<1>12. ASSUME NEW v \in Worker, Carries(v)', work'[v].jti = None, NEW f, f = work'[v].reply
       PROVE  /\ \A br \in Browser : ~InJar(br, f)'
              /\ \A u \in Worker : ~HasLogin(u, f)'
              /\ Of(f)' \subseteq {f}
  <2>1. CASE v = w
    <3>1. f = n /\ \A j \in keys : family'[j] # n
      BY <1>1, <1>3, <1>12, <2>1, Apart
    <3> QED
      BY <1>1, <1>2, <1>6, <3>1, Apart DEF Of, InJar, HasLogin, LoginOf
  <2>2. CASE v # w
    <3>1. /\ Carries(v) /\ work[v].jti = None /\ f = work[v].reply
          /\ \A br \in Browser : ~InJar(br, f)
          /\ \A u \in Worker : ~HasLogin(u, f)
          /\ Of(f) \subseteq {f}
      BY <1>3, <1>5, <1>12, <2>2 DEF HeldInv
    <3>2. family'[n] # f
      BY <1>1, <3>1 DEF HasLogin, LoginOf, Carries
    <3>3. Of(f)' \subseteq {f}
      BY <1>1, <1>2, <3>1, <3>2, Apart DEF Of
    <3> QED
      BY <1>6, <3>1, <3>3
  <2> QED
    BY <2>1, <2>2
<1> QED
  BY <1>7, <1>10, <1>11, <1>12 DEF HeldInv

\* What the arrival of a reply does.
LEMMA Arrived ==
  ASSUME KnownInv, NEW w \in Worker, Arrives(w), NEW b \in Browser, b = work[w].browser
  PROVE  /\ family' = family /\ keys' = keys /\ Issued' = Issued /\ disturbed' = disturbed
         /\ raced' = raced /\ ended' = ended /\ Doing(w, "reply")
         /\ \A v \in Worker : work'[v] = IF v = w THEN Free ELSE work[v]
         /\ \A br \in Browser \ {b} : jar'[br] = jar[br]
         /\ work[w].reply = None => jar'[b] = jar[b]
         /\ work[w].reply # None => jar'[b] = None \/ (Carries(w) /\ jar'[b] = work[w].reply)
<1>1. /\ work \in [Worker -> Job] /\ jar \in [Browser -> Issued \cup {None}] /\ None # Clear
      /\ work[w].reply \in Issued \cup {None, Clear}
  BY Apart DEF KnownInv
<1>2. jar' = [jar EXCEPT ![b] = CASE work[w].reply = Clear -> None
                                  [] work[w].reply = None -> jar[b]
                                  [] OTHER -> work[w].reply]
  BY DEF Arrives
<1>3. jar'[b] = CASE work[w].reply = Clear -> None
                  [] work[w].reply = None -> jar[b]
                  [] OTHER -> work[w].reply
  BY <1>1, <1>2
<1>4. /\ work[w].reply = None => jar'[b] = jar[b]
      /\ work[w].reply # None => jar'[b] = None \/ (Carries(w) /\ jar'[b] = work[w].reply)
  BY <1>1, <1>3 DEF Carries
<1>5. /\ work' = [work EXCEPT ![w] = Free] /\ family' = family /\ keys' = keys
      /\ disturbed' = disturbed /\ raced' = raced /\ ended' = ended /\ Doing(w, "reply")
  BY DEF Arrives, tokenVars, historyVars
<1> QED
  BY <1>1, <1>2, <1>4, <1>5 DEF Issued

LEMMA HeldArrives ==
  ASSUME KnownInv, HeldInv, NEW w \in Worker, Arrives(w)
  PROVE  HeldInv'
<1> PICK b \in Browser : b = work[w].browser
  BY DEF HeldInv, OrderlyJobs, Arrives, Doing
<1>1. /\ family' = family /\ keys' = keys /\ Issued' = Issued
      /\ \A v \in Worker : work'[v] = IF v = w THEN Free ELSE work[v]
      /\ \A br \in Browser \ {b} : jar'[br] = jar[br]
  BY Arrived
<1>2. \A v \in Worker : Carries(v)' => v # w /\ work'[v] = work[v] /\ Carries(v)
  BY <1>1, Apart DEF Carries, Free
<1>3. jar'[b] \in {None, jar[b]} \/ (Carries(w) /\ jar'[b] = work[w].reply)
  BY Arrived
<1>4. \A v \in Worker : \A f : HasLogin(v, f)' => v # w /\ work'[v] = work[v] /\ HasLogin(v, f)
  BY <1>1 DEF HasLogin, LoginOf, Free
<1>5. ASSUME NEW br \in Browser, NEW f, InJar(br, f)'
      PROVE  InJar(br, f) \/ (br = b /\ Carries(w) /\ family[work[w].reply] = f)
  BY <1>1, <1>3, <1>5 DEF InJar
<1>6. ASSUME NEW br \in Browser, NEW f, Holds(br, f)' PROVE Holds(br, f)
  <2>1. CASE InJar(br, f)'
    BY <1>5, <2>1 DEF Holds, WorksFor
  <2>2. ASSUME NEW v \in Worker, work'[v].browser = br, WorksFor(v, f)' PROVE Holds(br, f)
    BY <1>1, <1>2, <1>4, <2>2 DEF Holds, WorksFor
  <2> QED
    BY <1>6, <2>1, <2>2 DEF Holds
<1>7. OrderlyJobs'
  BY <1>1, <1>2 DEF OrderlyJobs, HeldInv, Doing, LoginOf, Free
<1>8. ASSUME NEW v \in Worker, Carries(v)'
      PROVE  /\ \A br \in Browser : jar'[br] # work'[v].reply
             /\ \A u \in Worker : /\ work'[u].jti # work'[v].reply
                                  /\ work'[u].reply = work'[v].reply => u = v
  <2>1. v # w /\ work'[v] = work[v] /\ Carries(v) /\ work[v].reply # None
    BY <1>2, <1>8, Apart DEF Carries
  <2> QED
    BY <1>1, <1>3, <2>1 DEF HeldInv, Free
<1>9. ASSUME NEW v \in Worker, Carries(v)', work'[v].jti = None, NEW f, f = work'[v].reply
      PROVE  /\ \A br \in Browser : ~InJar(br, f)'
             /\ \A u \in Worker : ~HasLogin(u, f)'
             /\ Of(f)' \subseteq {f}
  <2>1. /\ v # w /\ Carries(v) /\ work[v].jti = None /\ f = work[v].reply
        /\ \A br \in Browser : ~InJar(br, f)
        /\ \A u \in Worker : ~HasLogin(u, f)
        /\ Of(f) \subseteq {f}
    BY <1>2, <1>9 DEF HeldInv
  <2>2. Carries(w) => family[work[w].reply] # f
    BY <2>1 DEF HeldInv, OrderlyJobs, HasLogin
  <2>3. Of(f)' = Of(f)
    BY <1>1 DEF Of
  <2> QED
    BY <1>4, <1>5, <2>1, <2>2, <2>3
<1> QED
  BY <1>1, <1>6, <1>7, <1>8, <1>9 DEF HeldInv

\* The steps of a request that issue no token and bring none to the browser.
Step(w, job) == Bare(w, job) /\ work' = [work EXCEPT ![w] = job]

LEMMA Steps ==
  ASSUME KnownInv, HeldInv, NEW w \in Worker
  PROVE  /\ Rotate(w) => Step(w, [work[w] EXCEPT !.pc = "issue"])
         /\ Scan(w) => \E found : Step(w, [work[w] EXCEPT !.pc = "delete", !.found = found])
         /\ Delete(w) => Step(w, [Request("reply", work[w].browser) EXCEPT !.reply = Clear])
         /\ Dies(w) => Step(w, Free)
         /\ \A br \in Browser :
              /\ Login(w, br) \/ GoogleCallback(w, br) => Step(w, Request("issue", br))
              /\ Refresh(w, br) =>
                   Step(w, WithCookie(IF jar[br] \in keys THEN "rotate" ELSE "reply", br))
              /\ Logout(w, br) => Step(w, [WithCookie("reply", br) EXCEPT !.reply = Clear])
              /\ LogoutAll(w, br) => Step(w, [Request("scan", br) EXCEPT !.before = keys])
<1>0. /\ work[w] \in Job
      /\ ~Doing(w, "idle") => work[w].browser \in Browser
      /\ ~Doing(w, "reply") => work[w].reply = None
  BY Apart DEF HeldInv, OrderlyJobs
<1>1. ASSUME Rotate(w) PROVE Step(w, [work[w] EXCEPT !.pc = "issue"])
  BY <1>0, <1>1 DEF Rotate, Step, Bare, Doing, Job
<1>2. ASSUME Scan(w)
      PROVE  \E found : Step(w, [work[w] EXCEPT !.pc = "delete", !.found = found])
  <2>1. PICK more \in SUBSET (keys \ work[w].before) :
          work' = [work EXCEPT ![w] = [work[w] EXCEPT !.pc = "delete",
                                         !.found = (keys \cap work[w].before) \cup more]]
    BY <1>2 DEF Scan
  <2>2. PICK found : found = (keys \cap work[w].before) \cup more
    OBVIOUS
  <2>3. Step(w, [work[w] EXCEPT !.pc = "delete", !.found = found])
    BY <1>0, <1>2, <2>1, <2>2 DEF Scan, Step, Bare, Doing, Job
  <2> QED
    BY <2>3
<1>3. ASSUME Delete(w) PROVE Step(w, [Request("reply", work[w].browser) EXCEPT !.reply = Clear])
  BY <1>0, <1>3 DEF Delete, Step, Bare, Doing, Request, Free
<1>4. ASSUME Dies(w) PROVE Step(w, Free)
  BY <1>4 DEF Dies, Step, Bare, Free
<1>5. ASSUME NEW br \in Browser
      PROVE  /\ Login(w, br) \/ GoogleCallback(w, br) => Step(w, Request("issue", br))
             /\ LogoutAll(w, br) => Step(w, [Request("scan", br) EXCEPT !.before = keys])
  BY DEF Login, GoogleCallback, LogoutAll, Start, Step, Bare, Request, Free
<1>6. ASSUME NEW br \in Browser, Refresh(w, br)
      PROVE  Step(w, WithCookie(IF jar[br] \in keys THEN "rotate" ELSE "reply", br))
  <2>1. PICK label \in {"rotate", "reply"} : label = IF jar[br] \in keys THEN "rotate" ELSE "reply"
    OBVIOUS
  <2> QED
    BY <1>6, <2>1 DEF Refresh, Start, Step, Bare, WithCookie, Request, Free
<1>7. ASSUME NEW br \in Browser, Logout(w, br)
      PROVE  Step(w, [WithCookie("reply", br) EXCEPT !.reply = Clear])
  BY <1>7 DEF Logout, Start, Step, Bare, WithCookie, Request, Free
<1> QED
  BY <1>1, <1>2, <1>3, <1>4, <1>5, <1>6, <1>7

LEMMA Steady ==
  ASSUME NEW w \in Worker,
         \/ Rotate(w) \/ Scan(w) \/ Delete(w) \/ Dies(w)
         \/ \E br \in Browser : \/ Login(w, br) \/ GoogleCallback(w, br) \/ Refresh(w, br)
                                \/ Logout(w, br) \/ LogoutAll(w, br)
  PROVE  family' = family /\ keys' \subseteq keys /\ jar' = jar
BY DEF Rotate, Scan, Delete, Dies, Login, GoogleCallback, Refresh, Logout, LogoutAll, tokenVars

LEMMA HeldStep == KnownInv /\ HeldInv /\ [SessionNext]_vars => HeldInv'
<1> SUFFICES ASSUME KnownInv, HeldInv, [SessionNext]_vars PROVE HeldInv'
  OBVIOUS
<1>1. ASSUME NEW w \in Worker, Issue(w) \/ Arrives(w) PROVE HeldInv'
  BY <1>1, HeldIssue, HeldArrives
<1>2. ASSUME NEW w \in Worker,
             \/ Rotate(w) \/ Scan(w) \/ Delete(w) \/ Dies(w)
             \/ \E br \in Browser : \/ Login(w, br) \/ GoogleCallback(w, br) \/ Refresh(w, br)
                                    \/ Logout(w, br) \/ LogoutAll(w, br)
      PROVE  HeldInv'
  <2>1. \E job : Step(w, job)
    BY <1>2, Steps
  <2> QED
    BY <1>2, <2>1, Steady, HeldJob DEF Step
<1>3. CASE (\E j \in Jti : Expires(j)) \/ GoogleLogin \/ GoogleFails \/ UNCHANGED vars
  BY <1>3, HeldElse DEF Expires, GoogleLogin, GoogleFails, vars, tokenVars
<1> QED
  BY <1>1, <1>2, <1>3 DEF SessionNext

----------------------------------------------------------------------------
(* SessionSurvivesRefresh                                                  *)

\* The request will replace or clear the cookie it came with.
Replaces(job) == job.jti # None /\ (job.pc = "reply" => job.reply # None)

\* A token that is revoked is not on its way to any browser; if it is in a jar
\* the request that revokes it came with it.
LEMMA SurvivesJob ==
  ASSUME KnownInv, HeldInv, SurvivesInv, NEW w \in Worker, NEW job, Step(w, job),
         family' = family, jar' = jar, disturbed \subseteq disturbed',
         Replaces(work[w]) =>
           \/ work[w].browser \in disturbed'
           \/ Replaces(job) /\ job.jti = work[w].jti /\ job.browser = work[w].browser,
         \A j \in keys \ keys' : \A br \in Browser \ disturbed' :
           /\ \A v \in Worker : work[v].browser = br => work[v].reply # j
           /\ jar[br] = j => Replaces(job) /\ job.jti = j /\ job.browser = br,
         keys' \subseteq keys
  PROVE  SurvivesInv'
<1>1. /\ \A v \in Worker : work'[v] = IF v = w THEN job ELSE work[v]
      /\ \A v \in Worker : Carries(v)' => v # w /\ Carries(v)
  BY HeldJob DEF KnownInv, Step
<1> SUFFICES ASSUME NEW br \in Browser \ disturbed'
             PROVE  /\ \A v \in Worker : work'[v].browser = br /\ Carries(v)' => work'[v].reply \in keys'
                    /\ jar[br] # None =>
                         jar[br] \in keys' \/ \E v \in Worker : /\ work'[v].browser = br
                                                                /\ work'[v].jti = jar[br]
                                                                /\ Replaces(work'[v])
  BY DEF SurvivesInv, Replaces, Doing
<1>2. ASSUME NEW v \in Worker, work'[v].browser = br, Carries(v)' PROVE work'[v].reply \in keys'
  BY <1>1, <1>2 DEF SurvivesInv
<1>3. ASSUME jar[br] # None, jar[br] \notin keys'
      PROVE  \E v \in Worker : work'[v].browser = br /\ work'[v].jti = jar[br] /\ Replaces(work'[v])
  <2>1. CASE jar[br] \in keys
    BY <1>1, <1>3, <2>1
  <2>2. ASSUME NEW v \in Worker, work[v].browser = br, work[v].jti = jar[br], Replaces(work[v])
        PROVE  \E u \in Worker : work'[u].browser = br /\ work'[u].jti = jar[br] /\ Replaces(work'[u])
    BY <1>1, <2>2
  <2> QED
    BY <1>3, <2>1, <2>2 DEF SurvivesInv, Replaces, Doing
<1> QED
  BY <1>2, <1>3

LEMMA SurvivesIssue ==
  ASSUME KnownInv, HeldInv, SurvivesInv, NEW w \in Worker, Issue(w)
  PROVE  SurvivesInv'
<1> PICK n : n = NextJti
  OBVIOUS
<1>1. /\ n \in Nat /\ Issued' = Issued \cup {n} /\ n # None
      /\ work \in [Worker -> Job]
  BY NextIsNew, IssueKnown, SessionAssumption DEF SessionAssumption, KnownInv
<1>2. /\ keys' = keys \cup {n} /\ jar' = jar /\ disturbed' = disturbed
      /\ work' = [work EXCEPT ![w] = [work[w] EXCEPT !.pc = "reply", !.reply = n]]
  BY DEF Issue, Reply, NextJti, Issued, historyVars
<1>3. /\ \A v \in Worker \ {w} : work'[v] = work[v]
      /\ work'[w].pc = "reply" /\ work'[w].reply = n
      /\ work'[w].jti = work[w].jti /\ work'[w].browser = work[w].browser
  BY <1>1, <1>2 DEF Job
<1> SUFFICES ASSUME NEW br \in Browser \ disturbed
             PROVE  /\ \A v \in Worker : work'[v].browser = br /\ Carries(v)' => work'[v].reply \in keys'
                    /\ jar[br] # None =>
                         \/ jar[br] \in keys'
                         \/ \E v \in Worker : /\ work'[v].browser = br /\ work'[v].jti = jar[br]
                                              /\ Doing(v, "reply")' => work'[v].reply # None
  BY <1>2 DEF SurvivesInv
<1>4. ASSUME NEW v \in Worker, work'[v].browser = br, Carries(v)' PROVE work'[v].reply \in keys'
  BY <1>1, <1>2, <1>3, <1>4 DEF SurvivesInv, Carries
<1>5. ASSUME NEW v \in Worker, work[v].browser = br, work[v].jti = jar[br],
             Doing(v, "reply") => work[v].reply # None
      PROVE  \E u \in Worker : /\ work'[u].browser = br /\ work'[u].jti = jar[br]
                               /\ Doing(u, "reply")' => work'[u].reply # None
  BY <1>1, <1>3, <1>5 DEF Doing
<1> QED
  BY <1>2, <1>4, <1>5 DEF SurvivesInv

LEMMA SurvivesArrives ==
  ASSUME KnownInv, HeldInv, SurvivesInv, NEW w \in Worker, Arrives(w)
  PROVE  SurvivesInv'
<1> PICK b \in Browser : b = work[w].browser
  BY DEF HeldInv, OrderlyJobs, Arrives, Doing
<1>1. /\ keys' = keys /\ disturbed' = disturbed /\ Issued' = Issued /\ Doing(w, "reply")
      /\ \A v \in Worker : work'[v] = IF v = w THEN Free ELSE work[v]
      /\ \A br \in Browser \ {b} : jar'[br] = jar[br]
      /\ jar'[b] \in {None, jar[b]} \/ (Carries(w) /\ jar'[b] = work[w].reply)
      /\ work[w].reply # None => jar'[b] = None \/ (Carries(w) /\ jar'[b] = work[w].reply)
  BY Arrived
<1> SUFFICES ASSUME NEW br \in Browser \ disturbed
             PROVE  /\ \A v \in Worker : work'[v].browser = br /\ Carries(v)' => work'[v].reply \in keys
                    /\ jar'[br] # None =>
                         \/ jar'[br] \in keys
                         \/ \E v \in Worker : /\ work'[v].browser = br /\ work'[v].jti = jar'[br]
                                              /\ Doing(v, "reply")' => work'[v].reply # None
  BY <1>1 DEF SurvivesInv
<1>2. ASSUME NEW v \in Worker, work'[v].browser = br, Carries(v)' PROVE work'[v].reply \in keys
  <2>1. v # w /\ Carries(v)
    BY <1>1, <1>2, Apart DEF Carries, Free
  <2> QED
    BY <1>1, <1>2, <2>1 DEF SurvivesInv
<1>3. ASSUME jar'[br] # None, jar'[br] = jar[br], jar[br] \notin keys
      PROVE  \E v \in Worker : /\ work'[v].browser = br /\ work'[v].jti = jar'[br]
                               /\ Doing(v, "reply")' => work'[v].reply # None
  <2>1. PICK v \in Worker : /\ work[v].browser = br /\ work[v].jti = jar[br]
                            /\ Doing(v, "reply") => work[v].reply # None
    BY <1>3 DEF SurvivesInv
  <2>2. v # w
    <3>1. CASE br # b
      BY <2>1, <3>1
    <3>2. ASSUME v = w PROVE jar'[b] # jar[b] \/ jar'[b] = None
      BY <1>1, <2>1, <3>2 DEF HeldInv
    <3> QED
      BY <1>3, <3>1, <3>2
  <2> QED
    BY <1>1, <1>3, <2>1, <2>2 DEF Doing
<1>4. CASE br = b /\ Carries(w) /\ jar'[b] = work[w].reply
  BY <1>1, <1>2, <1>4 DEF SurvivesInv
<1> QED
  BY <1>1, <1>2, <1>3, <1>4

LEMMA SurvivesSteady ==
  ASSUME KnownInv, HeldInv, SurvivesInv, NEW w \in Worker,
         \/ Rotate(w) \/ Scan(w) \/ Delete(w) \/ Dies(w)
         \/ \E br \in Browser : \/ Login(w, br) \/ GoogleCallback(w, br) \/ Refresh(w, br)
                                \/ Logout(w, br) \/ LogoutAll(w, br)
  PROVE  SurvivesInv'
<1>0. /\ family' = family /\ keys' \subseteq keys /\ jar' = jar
      /\ keys \subseteq Issued /\ work[w] \in Job /\ disturbed \subseteq Browser
      /\ ~Doing(w, "idle") => work[w].browser \in Browser
  BY Steady, Apart DEF KnownInv, HeldInv, OrderlyJobs
\* A token that is carried is nobody's cookie.
<1>1. ASSUME NEW j \in keys, j = work[w].jti \/ \E br \in Browser : j = jar[br]
      PROVE  \A v \in Worker : work[v].reply # j
  BY <1>0, <1>1, Apart DEF HeldInv, Carries
<1>2. CASE Rotate(w)
  <2> DEFINE job == [work[w] EXCEPT !.pc = "issue"]
  <2>1. /\ Step(w, job) /\ keys' = keys \ {work[w].jti} /\ disturbed' = disturbed
        /\ work[w].jti # None /\ work[w].browser \in Browser /\ work[w].jti \in Issued
    BY <1>0, <1>2, Steps, Apart DEF Rotate, historyVars, HeldInv, OrderlyJobs, Doing
  <2>2. job.jti = work[w].jti /\ job.browser = work[w].browser /\ Replaces(job)
    BY <1>0, <2>1 DEF Job, Replaces
  <2>3. ASSUME NEW br \in Browser, jar[br] = work[w].jti PROVE work[w].browser = br
    <3>1. Holds(br, LoginOf(w)) /\ Holds(work[w].browser, LoginOf(w)) /\ LoginOf(w) \in Issued
      BY <2>1, <2>3, Apart DEF Holds, InJar, WorksFor, HasLogin, LoginOf
    <3> QED
      BY <2>1, <3>1 DEF HeldInv
  <2> HIDE DEF job
  <2> QED
    BY <1>0, <1>1, <2>1, <2>2, <2>3, SurvivesJob
<1>3. CASE Scan(w)
  <2>1. PICK found : Step(w, [work[w] EXCEPT !.pc = "delete", !.found = found])
    BY <1>3, Steps
  <2> DEFINE job == [work[w] EXCEPT !.pc = "delete", !.found = found]
  <2>2. job.jti = work[w].jti /\ job.browser = work[w].browser /\ job.pc = "delete"
    BY <1>0 DEF Job
  <2>3. keys' = keys /\ disturbed' = disturbed /\ Step(w, job)
    BY <1>3, <2>1 DEF Scan, tokenVars, historyVars
  <2> HIDE DEF job
  <2> QED
    BY <1>0, <2>2, <2>3, SurvivesJob DEF Replaces
<1>4. CASE Delete(w)
  BY <1>4 DEF Delete, SurvivesInv
<1>5. CASE Dies(w)
  <2>1. keys' = keys /\ disturbed \subseteq disturbed' /\ work[w].browser \in disturbed'
    BY <1>0, <1>5, Apart DEF Dies, tokenVars
  <2> QED
    BY <1>0, <1>5, <2>1, Steps, SurvivesJob
<1>6. ASSUME NEW br \in Browser,
             \/ Login(w, br) \/ GoogleCallback(w, br) \/ Refresh(w, br)
             \/ Logout(w, br) \/ LogoutAll(w, br)
      PROVE  SurvivesInv'
  <2>1. disturbed' = disturbed /\ Doing(w, "idle") /\ ~Replaces(work[w])
    BY <1>6
    DEF Login, GoogleCallback, Refresh, Logout, LogoutAll, Start, Idle, HeldInv, OrderlyJobs, Replaces
  <2>2. CASE Logout(w, br)
    <3> DEFINE job == [WithCookie("reply", br) EXCEPT !.reply = Clear]
    <3>1. Step(w, job) /\ keys' = keys \ {jar[br]} /\ jar[br] # None /\ jar[br] \in Issued
      BY <2>2, Steps, Apart DEF Logout
    <3>2. job.jti = jar[br] /\ job.browser = br /\ Replaces(job)
      BY <3>1, Apart DEF WithCookie, Request, Free, Replaces
    <3>3. ASSUME NEW bq \in Browser, jar[bq] = jar[br] PROVE bq = br
      <4>1. Holds(br, family[jar[br]]) /\ Holds(bq, family[jar[br]]) /\ family[jar[br]] \in Issued
        BY <3>1, <3>3, Apart DEF Holds, InJar
      <4> QED
        BY <4>1 DEF HeldInv
    <3> HIDE DEF job
    <3> QED
      BY <1>0, <1>1, <2>1, <3>1, <3>2, <3>3, SurvivesJob
  <2>3. CASE Login(w, br) \/ GoogleCallback(w, br) \/ Refresh(w, br) \/ LogoutAll(w, br)
    <3>1. keys' = keys
      BY <2>3 DEF Login, GoogleCallback, Refresh, LogoutAll, tokenVars
    <3>2. \E job : Step(w, job)
      BY <2>3, Steps
    <3> QED
      BY <1>0, <2>1, <3>1, <3>2, SurvivesJob
  <2> QED
    BY <1>6, <2>2, <2>3
<1> QED
  BY <1>2, <1>3, <1>4, <1>5, <1>6

LEMMA SurvivesOther ==
  ASSUME KnownInv, HeldInv, SurvivesInv,
         (\E j \in Jti : Expires(j)) \/ GoogleLogin \/ GoogleFails \/ UNCHANGED vars
  PROVE  SurvivesInv'
<1>1. work' = work /\ jar' = jar /\ Issued' = Issued
  BY DEF Expires, GoogleLogin, GoogleFails, vars, tokenVars, Issued
<1>2. ASSUME NEW j \in Jti, Expires(j) PROVE SurvivesInv'
  <2>1. /\ keys' = keys \ {j}
        /\ disturbed' = disturbed \cup {br \in Browser : jar[br] = j}
                                  \cup ({work[w].browser : w \in Worker} \ {None})
    BY <1>2 DEF Expires
  <2>2. ASSUME NEW br \in Browser \ disturbed'
        PROVE  /\ br \notin disturbed /\ jar[br] # j
               /\ \A w \in Worker : work[w].browser # br
    BY <2>1, Apart
  <2> QED
    BY <1>1, <2>1, <2>2 DEF SurvivesInv
<1>3. ASSUME keys' = keys, disturbed' = disturbed PROVE SurvivesInv'
  BY <1>1, <1>3 DEF SurvivesInv, Carries, Doing
<1> QED
  BY <1>2, <1>3 DEF GoogleLogin, GoogleFails, vars, tokenVars, historyVars

LEMMA SurvivesInit == SessionInit => SurvivesInv
BY DEF SessionInit, SurvivesInv, Carries, Issued

LEMMA SurvivesStep == KnownInv /\ HeldInv /\ SurvivesInv /\ [SessionNext]_vars => SurvivesInv'
BY SurvivesIssue, SurvivesArrives, SurvivesSteady, SurvivesOther DEF SessionNext

\* A browser nothing was lost for keeps its session: in whatever order its
\* refreshes, logins and logouts overlap and are answered, once they all are
\* its cookie is a valid token, or it has none (refresh, and tryRefresh in
\* api.js).
THEOREM SessionSurvives == SessionSpec => []SessionSurvivesRefresh
<1>1. SurvivesInv => SessionSurvivesRefresh
  BY DEF SurvivesInv, SessionSurvivesRefresh, Busy
<1> QED
  BY <1>1, KnownInit, KnownStep, HeldInit, HeldStep, SurvivesInit, SurvivesStep, PTL
  DEF SessionSpec

----------------------------------------------------------------------------
(* SignedOutStaysOut                                                       *)

\* A request that replies at once left its login no token; one that is about
\* to issue one had one to revoke.
LEMMA EndedJob ==
  ASSUME KnownInv, HeldInv, EndedInv, NEW w \in Worker, NEW job, Step(w, job),
         family' = family, jar' = jar, keys' \subseteq keys,
         raced \subseteq raced', disturbed \subseteq disturbed',
         work[w].jti # None => work[w].browser \in disturbed' \/ job.jti = work[w].jti,
         job.pc = "reply" /\ job.jti # None /\ job.browser \notin disturbed' =>
           family[job.jti] \in raced' \/ \A j \in keys' : family[j] # family[job.jti],
         job.pc = "rotate" => job.jti \in keys,
         job.pc = "issue" /\ job.jti # None => Doing(w, "rotate") /\ job.jti = work[w].jti,
         \A f \in ended' \ (ended \cup raced') :
           /\ Of(f)' = {}
           /\ \A v \in Worker : HasLogin(v, f)' => ~Doing(v, "rotate")' /\ ~Doing(v, "issue")'
  PROVE  EndedInv'
<1>1. /\ \A v \in Worker : work'[v] = IF v = w THEN job ELSE work[v]
      /\ Issued' = Issued
      /\ \A f : Of(f)' \subseteq Of(f)
      /\ \A br \in Browser : \A f : InJar(br, f)' <=> InJar(br, f)
  BY DEF KnownInv, Step, Issued, Of, InJar
<1>2. ASSUME NEW br \in Browser \ disturbed', NEW f \in Issued \ raced', InJar(br, f)
      PROVE  Of(f)' \subseteq {jar[br]} \/ \E v \in Worker : HasLogin(v, f)'
  <2>1. CASE Of(f) \subseteq {jar[br]}
    BY <1>1, <2>1
  <2>2. ASSUME NEW v \in Worker, HasLogin(v, f) PROVE HasLogin(v, f)'
    <3>1. CASE v # w
      BY <1>1, <2>2, <3>1 DEF HasLogin, LoginOf
    <3>2. CASE v = w
      <4>1. work[w].browser \in Browser
        BY <2>2, <3>2 DEF HasLogin, HeldInv, OrderlyJobs
      <4>2. work[w].browser = br
        BY <1>2, <2>2, <3>2, <4>1 DEF HeldInv, Holds, WorksFor
      <4> QED
        BY <1>1, <1>2, <2>2, <3>2, <4>2 DEF HasLogin, LoginOf
    <3> QED
      BY <3>1, <3>2
  <2> QED
    BY <1>2, <2>1, <2>2 DEF EndedInv
<1>3. ASSUME NEW v \in Worker, NEW f \in Issued \ raced', HasLogin(v, f)', Doing(v, "reply")',
             work'[v].browser \notin disturbed'
      PROVE  Of(f)' \subseteq {work'[v].reply}
  <2>1. CASE v # w
    BY <1>1, <1>3, <2>1 DEF EndedInv, HasLogin, LoginOf, Doing
  <2>2. CASE v = w
    BY <1>1, <1>3, <2>2 DEF HasLogin, LoginOf, Doing, Of
  <2> QED
    BY <2>1, <2>2
<1>4. ASSUME NEW f \in ended \ raced'
      PROVE  /\ Of(f)' = {}
             /\ \A v \in Worker : HasLogin(v, f)' => ~Doing(v, "rotate")' /\ ~Doing(v, "issue")'
  <2>1. /\ Of(f) = {}
        /\ \A v \in Worker : HasLogin(v, f) => ~Doing(v, "rotate") /\ ~Doing(v, "issue")
    BY <1>4 DEF EndedInv
  <2>2. ASSUME NEW v \in Worker, HasLogin(v, f)' PROVE ~Doing(v, "rotate")' /\ ~Doing(v, "issue")'
    BY <1>1, <2>1, <2>2 DEF HasLogin, LoginOf, Doing, Of
  <2> QED
    BY <1>1, <2>1, <2>2
<1> QED
  BY <1>1, <1>2, <1>3, <1>4 DEF EndedInv

LEMMA EndedIssue ==
  ASSUME KnownInv, HeldInv, OneTokenInv, EndedInv, NEW w \in Worker, Issue(w)
  PROVE  EndedInv'
<1> PICK n : n = NextJti
  OBVIOUS
<1>1. /\ n \notin Issued /\ Issued' = Issued \cup {n}
      /\ \A j \in Issued : family'[j] = family[j]
      /\ family'[n] = IF work[w].jti = None THEN n ELSE LoginOf(w)
      /\ work \in [Worker -> Job]
  BY NextIsNew, IssueKnown DEF LoginOf, KnownInv
<1>2. /\ keys' = keys \cup {n} /\ jar' = jar /\ disturbed' = disturbed
      /\ raced' = raced /\ ended' = ended /\ Doing(w, "issue")
      /\ work' = [work EXCEPT ![w] = [work[w] EXCEPT !.pc = "reply", !.reply = n]]
  BY DEF Issue, Reply, NextJti, Issued, historyVars
<1>3. /\ \A v \in Worker \ {w} : work'[v] = work[v]
      /\ work'[w].pc = "reply" /\ work'[w].reply = n
      /\ work'[w].jti = work[w].jti /\ work'[w].browser = work[w].browser
  BY <1>1, <1>2 DEF Job
<1>4. /\ \A v \in Worker : \A f : HasLogin(v, f)' <=> HasLogin(v, f)
      /\ \A br \in Browser : \A f : InJar(br, f)' <=> InJar(br, f)
  BY <1>1, <1>2, <1>3, Apart DEF HasLogin, LoginOf, InJar
<1>5. \A f : Of(f)' = IF f = family'[n] THEN Of(f) \cup {n} ELSE Of(f)
  BY <1>1, <1>2, Apart DEF Of
<1>6. \A f \in Issued : f = family'[n] => HasLogin(w, f)
  BY <1>1 DEF HasLogin
<1>7. \A f \in Issued \ raced : HasLogin(w, f) => Of(f) = {}
  BY <1>2 DEF OneTokenInv, OrderlyLogin, Of
<1>8. \A v \in Worker : \A f : HasLogin(v, f) => f \in Issued
  BY Apart DEF HasLogin, LoginOf
<1>9. ASSUME NEW br \in Browser \ disturbed, NEW f \in Issued' \ raced, InJar(br, f)
      PROVE  Of(f)' \subseteq {jar[br]} \/ \E v \in Worker : HasLogin(v, f)
  <2>1. f \in Issued
    BY <1>9, Apart DEF InJar
  <2> QED
    BY <1>5, <1>6, <1>9, <2>1 DEF EndedInv
<1>10. ASSUME NEW v \in Worker, NEW f \in Issued' \ raced, HasLogin(v, f), Doing(v, "reply")',
              work'[v].browser \notin disturbed
       PROVE  Of(f)' \subseteq {work'[v].reply}
  <2>1. f \in Issued
    BY <1>8, <1>10
  <2>2. CASE v = w
    BY <1>3, <1>5, <1>7, <1>10, <2>1, <2>2
  <2>3. CASE v # w
    <3>1. f # family'[n]
      BY <1>6, <1>10, <2>1, <2>3 DEF OneTokenInv, OrderlyLogin
    <3> QED
      BY <1>3, <1>5, <1>10, <2>1, <2>3, <3>1 DEF EndedInv, Doing
  <2> QED
    BY <2>2, <2>3
<1>11. ASSUME NEW f \in ended \ raced
       PROVE  /\ Of(f)' = {}
              /\ \A v \in Worker : HasLogin(v, f) => ~Doing(v, "rotate")' /\ ~Doing(v, "issue")'
  <2>1. f \in Issued
    BY Apart
  <2>2. ~HasLogin(w, f)
    BY <1>2, <1>11 DEF EndedInv
  <2> QED
    BY <1>3, <1>5, <1>6, <1>11, <2>1, <2>2 DEF EndedInv, Doing
<1> QED
  BY <1>2, <1>4, <1>9, <1>10, <1>11 DEF EndedInv

LEMMA EndedArrives ==
  ASSUME KnownInv, HeldInv, EndedInv, NEW w \in Worker, Arrives(w)
  PROVE  EndedInv'
<1> PICK b \in Browser : b = work[w].browser
  BY DEF HeldInv, OrderlyJobs, Arrives, Doing
<1>1. /\ family' = family /\ keys' = keys /\ disturbed' = disturbed /\ Issued' = Issued
      /\ raced' = raced /\ ended' = ended /\ Doing(w, "reply")
      /\ \A v \in Worker : work'[v] = IF v = w THEN Free ELSE work[v]
      /\ \A br \in Browser \ {b} : jar'[br] = jar[br]
      /\ work[w].reply = None => jar'[b] = jar[b]
      /\ work[w].reply # None => jar'[b] = None \/ (Carries(w) /\ jar'[b] = work[w].reply)
  BY Arrived
<1>2. /\ \A f : Of(f)' = Of(f)
      /\ \A v \in Worker : \A f : HasLogin(v, f)' <=> v # w /\ HasLogin(v, f)
  BY <1>1 DEF Of, HasLogin, LoginOf, Free
<1>3. ASSUME NEW br \in Browser \ disturbed, NEW f \in Issued \ raced, InJar(br, f)'
      PROVE  Of(f) \subseteq {jar'[br]} \/ \E v \in Worker : HasLogin(v, f)'
  <2>1. ASSUME HasLogin(w, f) PROVE br = b /\ Of(f) \subseteq {work[w].reply}
    <3>1. Holds(b, f)
      BY <2>1 DEF Holds, WorksFor
    <3>2. InJar(br, f) \/ br = b
      BY <1>1, <1>3 DEF InJar
    <3>3. br = b
      BY <3>1, <3>2 DEF HeldInv, Holds
    <3> QED
      BY <1>1, <1>3, <2>1, <3>3 DEF EndedInv
  <2>2. CASE jar'[br] = jar[br] /\ ~(br = b /\ Carries(w) /\ jar'[b] = work[w].reply)
    <3>1. InJar(br, f)
      BY <1>1, <1>3, <2>2 DEF InJar
    <3>2. CASE Of(f) \subseteq {jar[br]}
      BY <2>2, <3>2
    <3>3. ASSUME NEW v \in Worker, HasLogin(v, f), v # w PROVE HasLogin(v, f)'
      BY <1>2, <3>3
    <3>4. CASE HasLogin(w, f)
      <4>1. work[w].reply = None
        BY <1>1, <1>3, <2>1, <2>2, <3>4 DEF InJar
      <4>2. Of(f) = {}
        BY <2>1, <3>4, <4>1, Apart DEF Of
      <4> QED
        BY <4>2
    <3> QED
      BY <1>3, <3>1, <3>2, <3>3, <3>4 DEF EndedInv
  <2>3. CASE br = b /\ Carries(w) /\ jar'[b] = work[w].reply
    <3>1. family[work[w].reply] = f
      BY <1>1, <1>3, <2>3 DEF InJar
    <3>2. CASE work[w].jti = None
      BY <2>3, <3>1, <3>2 DEF HeldInv, OrderlyJobs
    <3>3. CASE work[w].jti # None
      BY <2>1, <2>3, <3>1, <3>3 DEF HeldInv, OrderlyJobs, HasLogin
    <3> QED
      BY <3>2, <3>3
  <2> QED
    BY <1>1, <1>3, <2>2, <2>3 DEF InJar
<1>4. ASSUME NEW v \in Worker, NEW f \in Issued \ raced, HasLogin(v, f)', Doing(v, "reply")',
             work'[v].browser \notin disturbed
      PROVE  Of(f) \subseteq {work'[v].reply}
  BY <1>1, <1>2, <1>4 DEF EndedInv, Doing
<1>5. ASSUME NEW f \in ended \ raced
      PROVE  /\ Of(f) = {}
             /\ \A v \in Worker : HasLogin(v, f)' => ~Doing(v, "rotate")' /\ ~Doing(v, "issue")'
  BY <1>1, <1>2, <1>5 DEF EndedInv, Doing
<1> QED
  BY <1>1, <1>2, <1>3, <1>4, <1>5 DEF EndedInv

\* A request that starts with a cookie races with another of its login, or the
\* cookie is the login's only valid token, if that.
LEMMA Alone ==
  ASSUME KnownInv, EndedInv, NEW w \in Worker, NEW job, Start(w, job),
         NEW br \in Browser \ disturbed, job.jti = jar[br], jar[br] # None,
         family[jar[br]] \notin raced'
  PROVE  /\ \A v \in Worker : ~HasLogin(v, family[jar[br]])
         /\ Of(family[jar[br]]) \subseteq {jar[br]}
<1> DEFINE f == family[jar[br]]
<1>1. \A v \in Worker : ~HasLogin(v, f)
  BY DEF Start, HasLogin, LoginOf
<1>2. raced \subseteq raced' /\ f \in Issued
  BY Apart DEF Start
<1>3. InJar(br, f) /\ f \notin raced
  BY <1>2 DEF InJar
<1> QED
  BY <1>1, <1>2, <1>3 DEF EndedInv

LEMMA EndedStart ==
  ASSUME KnownInv, HeldInv, EndedInv, NEW w \in Worker, NEW br \in Browser,
         \/ Login(w, br) \/ GoogleCallback(w, br) \/ Refresh(w, br)
         \/ Logout(w, br) \/ LogoutAll(w, br)
  PROVE  EndedInv'
<1>0. /\ family' = family /\ keys' \subseteq keys /\ jar' = jar /\ disturbed' = disturbed
      /\ raced \subseteq raced' /\ keys \subseteq Issued
      /\ Doing(w, "idle") /\ work[w].jti = None
  BY Steady, Apart
  DEF Login, GoogleCallback, Refresh, Logout, LogoutAll, Start, Idle, HeldInv, OrderlyJobs
<1>1. CASE Login(w, br) \/ GoogleCallback(w, br) \/ LogoutAll(w, br)
  <2>1. \E job : Step(w, job) /\ job.jti = None /\ job.pc \in {"issue", "scan"}
    <3>1. CASE Login(w, br) \/ GoogleCallback(w, br)
      <4>1. /\ Step(w, Request("issue", br))
            /\ Request("issue", br).jti = None /\ Request("issue", br).pc = "issue"
        BY <3>1, Steps DEF Request, Free
      <4> QED
        BY <4>1
    <3>2. CASE LogoutAll(w, br)
      <4> DEFINE job == [Request("scan", br) EXCEPT !.before = keys]
      <4>1. Step(w, job) /\ job.jti = None /\ job.pc = "scan"
        BY <3>2, Steps DEF Request, Free
      <4> QED
        BY <4>1
    <3> QED
      BY <1>1, <3>1, <3>2
  <2>2. ended' = ended
    BY <1>1 DEF Login, GoogleCallback, LogoutAll
  <2> QED
    BY <1>0, <2>1, <2>2, EndedJob
<1>2. CASE Refresh(w, br)
  <2> DEFINE label == IF jar[br] \in keys THEN "rotate" ELSE "reply"
             job == WithCookie(label, br)
  <2>1. /\ Step(w, job) /\ Start(w, job) /\ jar[br] # None
        /\ keys' = keys /\ ended' = ended
    BY <1>2, Steps DEF Refresh, tokenVars
  <2>2. job.pc = label /\ job.jti = jar[br] /\ job.browser = br
    BY DEF WithCookie, Request, Free
  <2>3. job.pc # "issue" /\ (job.pc = "rotate" => job.jti \in keys)
        /\ (job.pc = "reply" => job.jti \notin keys)
    BY <2>2
  <2> HIDE DEF job
  <2>4. ASSUME job.pc = "reply", br \notin disturbed, family[job.jti] \notin raced'
        PROVE  \A j \in keys : family[j] # family[job.jti]
    BY <2>1, <2>2, <2>3, <2>4, Alone DEF Of
  <2> QED
    BY <1>0, <2>1, <2>2, <2>3, <2>4, EndedJob
<1>3. CASE Logout(w, br)
  <2> DEFINE job == [WithCookie("reply", br) EXCEPT !.reply = Clear]
  <2>1. /\ Step(w, job) /\ Start(w, job) /\ jar[br] # None /\ keys' = keys \ {jar[br]}
        /\ ended' = IF br \in disturbed THEN ended ELSE ended \cup {family[jar[br]]}
    BY <1>3, Steps DEF Logout
  <2>2. job.pc = "reply" /\ job.jti = jar[br] /\ job.browser = br
    BY DEF WithCookie, Request, Free
  <2>3. \A v \in Worker : work'[v] = IF v = w THEN job ELSE work[v]
    BY <2>1 DEF KnownInv, Step
  <2> HIDE DEF job
  <2>4. ASSUME br \notin disturbed, family[jar[br]] \notin raced'
        PROVE  /\ \A j \in keys' : family[j] # family[jar[br]]
               /\ \A v \in Worker : ~HasLogin(v, family[jar[br]])
    BY <2>1, <2>2, <2>4, Alone DEF Of
  <2>5. ASSUME NEW f \in ended' \ (ended \cup raced')
        PROVE  /\ Of(f)' = {}
               /\ \A v \in Worker : HasLogin(v, f)' => ~Doing(v, "rotate")' /\ ~Doing(v, "issue")'
    <3>1. f = family[jar[br]] /\ br \notin disturbed /\ f \notin raced'
      BY <2>1, <2>5
    <3>2. Of(f)' = {}
      BY <1>0, <2>4, <3>1 DEF Of
    <3>3. ASSUME NEW v \in Worker, HasLogin(v, f)' PROVE v = w
      BY <1>0, <2>3, <2>4, <3>1, <3>3 DEF HasLogin, LoginOf
    <3> QED
      BY <2>2, <2>3, <3>2, <3>3 DEF Doing
  <2> QED
    BY <1>0, <2>1, <2>2, <2>4, <2>5, EndedJob
<1> QED
  BY <1>1, <1>2, <1>3

LEMMA EndedWorker ==
  ASSUME KnownInv, HeldInv, EndedInv, NEW w \in Worker,
         Rotate(w) \/ Scan(w) \/ Delete(w) \/ Dies(w)
  PROVE  EndedInv'
<1>0. /\ family' = family /\ keys' \subseteq keys /\ jar' = jar
      /\ raced' = raced /\ ended' = ended /\ work[w] \in Job /\ disturbed \subseteq Browser
      /\ ~Doing(w, "idle") => work[w].browser \in Browser
      /\ Doing(w, "idle") => work[w].jti = None
  BY Steady, Apart DEF Rotate, Scan, Delete, Dies, historyVars, HeldInv, OrderlyJobs, KnownInv
<1>1. CASE Rotate(w)
  <2> DEFINE job == [work[w] EXCEPT !.pc = "issue"]
  <2>1. Step(w, job) /\ Doing(w, "rotate") /\ disturbed' = disturbed
    BY <1>1, Steps DEF Rotate, historyVars
  <2>2. job.pc = "issue" /\ job.jti = work[w].jti
    BY <1>0 DEF Job
  <2> HIDE DEF job
  <2> QED
    BY <1>0, <2>1, <2>2, EndedJob
<1>2. CASE Scan(w)
  <2>1. PICK found : Step(w, [work[w] EXCEPT !.pc = "delete", !.found = found])
    BY <1>2, Steps
  <2> DEFINE job == [work[w] EXCEPT !.pc = "delete", !.found = found]
  <2>2. job.jti = work[w].jti /\ job.pc = "delete"
    BY <1>0 DEF Job
  <2>3. disturbed' = disturbed /\ Step(w, job)
    BY <1>2, <2>1 DEF Scan, historyVars
  <2> HIDE DEF job
  <2> QED
    BY <1>0, <2>2, <2>3, EndedJob
<1>3. CASE Delete(w)
  <2> DEFINE job == [Request("reply", work[w].browser) EXCEPT !.reply = Clear]
  <2>1. Step(w, job) /\ disturbed' = Browser /\ ~Doing(w, "idle")
    BY <1>3, Steps DEF Delete, Doing
  <2>2. job.jti = None /\ job.pc = "reply"
    BY DEF Request, Free
  <2> HIDE DEF job
  <2> QED
    BY <1>0, <2>1, <2>2, EndedJob
<1>4. CASE Dies(w)
  <2>1. Step(w, Free) /\ disturbed \subseteq disturbed' /\ work[w].browser \in disturbed'
    BY <1>0, <1>4, Steps, Apart DEF Dies
  <2>2. Free.jti = None /\ Free.pc = "idle"
    BY DEF Free
  <2> QED
    BY <1>0, <2>1, <2>2, EndedJob
<1> QED
  BY <1>1, <1>2, <1>3, <1>4

LEMMA EndedOther ==
  ASSUME KnownInv, EndedInv,
         (\E j \in Jti : Expires(j)) \/ GoogleLogin \/ GoogleFails \/ UNCHANGED vars
  PROVE  EndedInv'
<1>1. /\ work' = work /\ jar' = jar /\ family' = family /\ keys' \subseteq keys
      /\ raced' = raced /\ ended' = ended /\ disturbed \subseteq disturbed'
  BY DEF Expires, GoogleLogin, GoogleFails, vars, tokenVars, historyVars
<1>2. /\ Issued' = Issued /\ \A f : Of(f)' \subseteq Of(f)
      /\ \A w \in Worker : \A f : HasLogin(w, f)' <=> HasLogin(w, f)
      /\ \A br \in Browser : \A f : InJar(br, f)' <=> InJar(br, f)
      /\ \A w \in Worker : \A label : Doing(w, label)' <=> Doing(w, label)
  BY <1>1 DEF Issued, Of, HasLogin, LoginOf, InJar, Doing
<1>3. ASSUME NEW br \in Browser \ disturbed', NEW f \in Issued \ raced, InJar(br, f)
      PROVE  Of(f)' \subseteq {jar[br]} \/ \E w \in Worker : HasLogin(w, f)
  BY <1>1, <1>2, <1>3 DEF EndedInv
<1>4. ASSUME NEW w \in Worker, NEW f \in Issued \ raced, HasLogin(w, f), Doing(w, "reply"),
             work[w].browser \notin disturbed'
      PROVE  Of(f)' \subseteq {work[w].reply}
  BY <1>1, <1>2, <1>4 DEF EndedInv
<1>5. ASSUME NEW f \in ended \ raced
      PROVE  /\ Of(f)' = {}
             /\ \A w \in Worker : HasLogin(w, f) => ~Doing(w, "rotate") /\ ~Doing(w, "issue")
  BY <1>2, <1>5 DEF EndedInv
<1> QED
  BY <1>1, <1>2, <1>3, <1>4, <1>5 DEF EndedInv

LEMMA EndedInit == SessionInit => EndedInv
BY DEF SessionInit, EndedInv, Issued

LEMMA EndedStep ==
  KnownInv /\ HeldInv /\ OneTokenInv /\ EndedInv /\ [SessionNext]_vars => EndedInv'
BY EndedIssue, EndedArrives, EndedStart, EndedWorker, EndedOther DEF SessionNext

\* Logging out ends a login for good: none of its tokens is valid afterwards,
\* and no request under way will issue it another, unless two of its requests
\* overlapped or its browser had lost a reply (logout).
THEOREM SignedOut == SessionSpec => []SignedOutStaysOut
<1>1. EndedInv => SignedOutStaysOut
  BY DEF EndedInv, SignedOutStaysOut
<1> QED
  BY <1>1, KnownInit, KnownStep, HeldInit, HeldStep, OrderlyInit, OrderlyStep,
     EndedInit, EndedStep, PTL DEF SessionSpec
=============================================================================
