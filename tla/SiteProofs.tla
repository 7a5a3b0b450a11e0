----------------------------- MODULE SiteProofs -----------------------------
(***************************************************************************)
(* What a browser meets outside the services of a case, for any number of  *)
(* users, callers, screens and rows: accounts begin and end whole and a    *)
(* reset puts the old password out, the rate limiter is exact, a form's    *)
(* answers arrive in one case, and the documents of the Exports screen are *)
(* true.  Each part has an inductive invariant of its own.                 *)
(***************************************************************************)
EXTENDS MCSite, FiniteSetTheorems, WellFoundedInduction, TLAPS

-----------------------------------------------------------------------------
(* Accounts.                                                               *)

RequestRow == [at : Steps, user : Users \cup {NoUser}, link : Links \cup {NoLink}, password : Passwords]
SessionRow == [user : Users \cup {NoUser}, password : Passwords]
LinkRow    == [user : Users \cup {NoUser}, life : {"absent", "sent", "lapsed", "used"}]

\* A request under way is of a user, and a link that was sent is for one.
Addressed ==
  /\ \A r \in Requests : request[r].at # "idle" => request[r].user \in Users
  /\ \A l \in Links : link[l].life # "absent" => link[l].user \in Users

\* The id of a sign-up before its insert is nobody else's, and never was.
IdIsNew ==
  \A r \in Requests : request[r].at = "insert" =>
    /\ request[r].user \notin user \cup deleted
    /\ \A q \in Requests : q # r => request[q].user # request[r].user

\* What a request will open a session with is the password, or the request was
\* overtaken by a reset.
Checked == {"consent", "open", "use", "revoke", "reopen"}

Current ==
  \A r \in Requests : request[r].at \in Checked /\ request[r].user \in user =>
    request[r].password = password[request[r].user] \/ r \in raced

AccountsInv ==
  /\ AccountsTypeOK /\ Addressed /\ IdIsNew /\ Current
  /\ OneAccountPerAddress /\ NothingOutlivesTheAccount /\ OldPasswordIsOut

-----------------------------------------------------------------------------
(* Rows.                                                                   *)

LEMMA Rows ==
  /\ NoRequest \in RequestRow /\ NoRequest.at = "idle" /\ NoRequest.user = NoUser
  /\ NoSession \in SessionRow /\ NoSession.user = NoUser
  /\ NoLinkRow \in LinkRow /\ NoLinkRow.user = NoUser /\ NoLinkRow.life = "absent"
<1>1. (CHOOSE p \in Passwords : TRUE) \in Passwords
  BY AccountsAssumption
<1> QED BY <1>1 DEF NoRequest, NoSession, NoLinkRow, RequestRow, SessionRow, LinkRow, Steps

LEMMA Typed ==
  AccountsTypeOK <=>
    /\ user \subseteq Users /\ deleted \subseteq Users /\ consents \subseteq Users /\ halted \subseteq Users
    /\ password \in [Users -> Passwords] /\ session \in [Sessions -> SessionRow]
    /\ lapsed \subseteq Sessions /\ raced \subseteq Sessions \cup Requests
    /\ link \in [Links -> LinkRow] /\ request \in [Requests -> RequestRow]
BY DEF AccountsTypeOK, RequestRow, SessionRow, LinkRow

\* A request goes on, with what it has read.
LEMMA Going ==
  ASSUME AccountsTypeOK, NEW r \in Requests, NEW step \in Steps, NEW u \in Users \cup {NoUser},
         NEW l \in Links \cup {NoLink}, NEW p \in Passwords, Go(r, step, u, l, p)
  PROVE  /\ request' \in [Requests -> RequestRow]
         /\ \A q \in Requests : q # r => request'[q] = request[q]
         /\ request'[r].at = step /\ request'[r].user = u /\ request'[r].password = p
<1>1. [at |-> step, user |-> u, link |-> l, password |-> p] \in RequestRow
  BY DEF RequestRow
<1>2. request' = [request EXCEPT ![r] = [at |-> step, user |-> u, link |-> l, password |-> p]]
  BY DEF Go
<1> QED BY <1>1, <1>2, Typed

LEMMA GoingOn ==
  ASSUME AccountsTypeOK, NEW r \in Requests, NEW step \in Steps, Then(r, step)
  PROVE  /\ request' \in [Requests -> RequestRow]
         /\ \A q \in Requests : q # r => request'[q] = request[q]
         /\ request'[r].at = step /\ request'[r].user = request[r].user
         /\ request'[r].password = request[r].password
<1>1. /\ request[r].user \in Users \cup {NoUser} /\ request[r].link \in Links \cup {NoLink}
      /\ request[r].password \in Passwords
  BY Typed DEF RequestRow
<1> QED BY <1>1, Going DEF Then

\* A request ends.
LEMMA Ending ==
  ASSUME AccountsTypeOK, NEW r \in Requests, request' = [request EXCEPT ![r] = NoRequest]
  PROVE  /\ request' \in [Requests -> RequestRow]
         /\ \A q \in Requests : q # r => request'[q] = request[q]
         /\ request'[r].at = "idle" /\ request'[r].user = NoUser
BY Rows, Typed

-----------------------------------------------------------------------------
(* Kinds of steps.                                                         *)

\* A request that moves while the tables stay, without being at a reset's
\* statements before or after.
LEMMA StepOfRequest ==
  ASSUME AccountsInv, NEW r \in Requests,
         request' \in [Requests -> RequestRow], \A q \in Requests : q # r => request'[q] = request[q],
         request'[r].at # "idle" => request'[r].user \in Users,
         request[r].at \notin {"use", "revoke"},
         request'[r].at = "insert" => /\ request'[r].user \notin user \cup deleted
                                      /\ \A q \in Requests : request[q].user # request'[r].user,
         request'[r].at # "insert" => request'[r].user \in user \cup {NoUser} \cup {request[r].user},
         request'[r].at \in Checked /\ request'[r].user \in user =>
           request'[r].password = password[request'[r].user] \/ r \in raced',
         raced \ {r} = raced' \ {r}, raced' \subseteq Sessions \cup Requests,
         consents' \subseteq user, 
         UNCHANGED <<user, deleted, password, session, lapsed, halted>>,
         link' \in [Links -> LinkRow],
         \A l \in Links : link'[l].user \in user \cup {NoUser} /\ (link'[l].life # "absent" => link'[l].user \in Users)
  PROVE  AccountsInv'
<1> USE DEF AccountsInv
<1>1. AccountsTypeOK'
  BY Typed DEF NothingOutlivesTheAccount, AccountsTypeOK, RequestRow, LinkRow
<1>2. Addressed'
  BY DEF Addressed
<1>3. IdIsNew'
  <2> SUFFICES ASSUME NEW a \in Requests, request'[a].at = "insert"
               PROVE  /\ request'[a].user \notin user \cup deleted
                      /\ \A q \in Requests : q # a => request'[q].user # request'[a].user
    BY DEF IdIsNew
  <2>1. CASE a = r
    BY <2>1
  <2>2. CASE a # r
    <3>1. /\ request[a].at = "insert" /\ request'[a] = request[a] /\ request[a].user \notin user \cup deleted
          /\ request[a].user \in Users
      BY <2>2 DEF IdIsNew, Addressed
    <3>2. request[r].user # request[a].user
      BY <2>2, <3>1 DEF IdIsNew
    <3>3. request'[r].user # request[a].user
      BY <3>1, <3>2, AccountsAssumption, <2>2
    <3> QED BY <2>2, <3>1, <3>3 DEF IdIsNew
  <2> QED BY <2>1, <2>2
<1>4. Current'
  <2> SUFFICES ASSUME NEW a \in Requests, request'[a].at \in Checked, request'[a].user \in user
               PROVE  request'[a].password = password[request'[a].user] \/ a \in raced'
    BY DEF Current
  <2>1. CASE a = r
    BY <2>1
  <2>2. CASE a # r
    BY <2>2 DEF Current
  <2> QED BY <2>1, <2>2
<1>5. OneAccountPerAddress' /\ NothingOutlivesTheAccount'
  BY DEF OneAccountPerAddress, NothingOutlivesTheAccount
<1>6. OldPasswordIsOut'
  <2> SUFFICES ASSUME NEW s \in Sessions, session[s].user # NoUser,
                      session[s].password # password[session[s].user],
                      s \notin raced', session[s].user \notin halted
               PROVE  Resetting(session[s].user)'
    BY DEF OldPasswordIsOut
  <2>1. s \notin raced
    BY AccountsAssumption
  <2>2. PICK a \in Requests : request[a].user = session[s].user /\ request[a].at \in {"use", "revoke"}
    BY <2>1 DEF OldPasswordIsOut, Resetting
  <2>3. a # r
    BY <2>2
  <2> QED BY <2>2, <2>3 DEF Resetting
<1> QED BY <1>1, <1>2, <1>3, <1>4, <1>5, <1>6

-----------------------------------------------------------------------------
(* The steps that change a table.                                          *)

LEMMA KeptByInsertUser ==
  ASSUME AccountsInv, NEW r \in Requests, InsertUser(r)
  PROVE  AccountsInv'
<1> DEFINE u == request[r].user
<1> USE DEF AccountsInv
<1>1. /\ u \in Users /\ u \notin user \cup deleted /\ request[r].password \in Passwords
      /\ \A q \in Requests : q # r => request[q].user # u
  BY Typed DEF InsertUser, At, Addressed, IdIsNew, RequestRow
<1>2. CASE ~AddressFree(u)
  <2>1. /\ request' = [request EXCEPT ![r] = NoRequest] /\ raced' = raced \ {r}
        /\ UNCHANGED <<user, deleted, password, consents, session, lapsed, link, halted>>
    BY <1>2 DEF InsertUser, Leave
  <2>2. /\ request' \in [Requests -> RequestRow]
        /\ \A q \in Requests : q # r => request'[q] = request[q]
        /\ request'[r].at = "idle" /\ request'[r].user = NoUser
    BY <2>1, Ending
  <2>3. request[r].at = "insert"
    BY DEF InsertUser, At
  <2> QED BY <2>1, <2>2, <2>3, StepOfRequest, Typed DEF NothingOutlivesTheAccount, Addressed, Checked
<1>3. CASE AddressFree(u)
  <2>1. /\ user' = user \cup {u} /\ password' = [password EXCEPT ![u] = request[r].password]
        /\ Then(r, "consent") /\ request[r].at = "insert"
        /\ UNCHANGED <<deleted, consents, session, lapsed, link, halted, raced>>
    BY <1>3 DEF InsertUser, At
  <2>2. /\ request' \in [Requests -> RequestRow]
        /\ \A q \in Requests : q # r => request'[q] = request[q]
        /\ request'[r].at = "consent" /\ request'[r].user = u /\ request'[r].password = request[r].password
    BY <2>1, GoingOn DEF Steps
  <2>3. /\ password' \in [Users -> Passwords] /\ password'[u] = request[r].password
        /\ \A v \in Users : v # u => password'[v] = password[v]
    BY <1>1, <2>1, Typed
  <2>4. AccountsTypeOK'
    BY <1>1, <2>1, <2>2, <2>3, Typed DEF AccountsTypeOK, RequestRow, SessionRow, LinkRow
  <2>5. Addressed'
    BY <1>1, <2>1, <2>2 DEF Addressed
  <2>6. IdIsNew'
    <3> SUFFICES ASSUME NEW a \in Requests, request'[a].at = "insert"
                 PROVE  /\ request'[a].user \notin user' \cup deleted'
                        /\ \A q \in Requests : q # a => request'[q].user # request'[a].user
      BY DEF IdIsNew
    <3>1. a # r /\ request[a].at = "insert" /\ request'[a] = request[a]
      BY <2>2
    <3> QED BY <1>1, <2>1, <2>2, <3>1 DEF IdIsNew
  <2>7. Current'
    <3> SUFFICES ASSUME NEW a \in Requests, request'[a].at \in Checked, request'[a].user \in user'
                 PROVE  request'[a].password = password'[request'[a].user] \/ a \in raced'
      BY DEF Current
    <3>1. CASE a = r
      BY <3>1, <2>2, <2>3
    <3>2. CASE a # r
      <4>1. request'[a] = request[a] /\ request[a].user # u /\ request[a].user \in user
        BY <3>2, <2>2, <1>1, <2>1
      <4> QED BY <4>1, <2>1, <2>3, Typed DEF Current
    <3> QED BY <3>1, <3>2
  <2>8. OneAccountPerAddress'
    BY <2>1, <1>3 DEF OneAccountPerAddress, AddressFree
  <2>9. NothingOutlivesTheAccount'
    BY <2>1 DEF NothingOutlivesTheAccount
  <2>10. OldPasswordIsOut'
    <3> SUFFICES ASSUME NEW s \in Sessions, session[s].user # NoUser,
                        session[s].password # password'[session[s].user],
                        s \notin raced, session[s].user \notin halted
                 PROVE  Resetting(session[s].user)'
      BY <2>1 DEF OldPasswordIsOut
    <3>1. session[s].user \in user /\ session[s].user # u
      BY <1>1 DEF NothingOutlivesTheAccount
    <3>2. session[s].password # password[session[s].user]
      BY <3>1, <2>3, Typed
    <3>3. PICK a \in Requests : request[a].user = session[s].user /\ request[a].at \in {"use", "revoke"}
      BY <3>2 DEF OldPasswordIsOut, Resetting
    <3>4. a # r
      BY <3>3, <2>1
    <3> QED BY <3>3, <3>4, <2>1, <2>2 DEF Resetting
  <2> QED BY <2>4, <2>5, <2>6, <2>7, <2>8, <2>9, <2>10
<1> QED BY <1>2, <1>3

\* A step of a request that neither begins nor is at an insert leaves new ids new.
LEMMA NewIdsStayNew ==
  ASSUME AccountsInv, NEW r \in Requests,
         \A q \in Requests : q # r => request'[q] = request[q],
         request'[r].at # "insert", request'[r].user \in {NoUser, request[r].user},
         user' \cup deleted' \subseteq user \cup deleted \cup (IF request[r].at = "insert" THEN {} ELSE {request[r].user})
  PROVE  IdIsNew'
<1> SUFFICES ASSUME NEW a \in Requests, request'[a].at = "insert"
             PROVE  /\ request'[a].user \notin user' \cup deleted'
                    /\ \A q \in Requests : q # a => request'[q].user # request'[a].user
  BY DEF IdIsNew
<1>1. /\ a # r /\ request[a].at = "insert" /\ request'[a] = request[a]
      /\ request[a].user \notin user \cup deleted /\ request[a].user \in Users
      /\ \A q \in Requests : q # a => request[q].user # request[a].user
  BY DEF IdIsNew, AccountsInv, Addressed
<1>2. request[r].user # request[a].user /\ NoUser # request[a].user
  BY <1>1, AccountsAssumption
<1> QED BY <1>1, <1>2

LEMMA KeptBySetPassword ==
  ASSUME AccountsInv, NEW r \in Requests, SetPassword(r)
  PROVE  AccountsInv'
<1> DEFINE u == request[r].user
<1> USE DEF AccountsInv
<1>1. /\ u \in Users /\ request[r].password \in Passwords /\ request[r].at = "set"
      /\ Then(r, "use") /\ UNCHANGED <<user, deleted, consents, session, lapsed, link, halted>>
  BY Typed DEF SetPassword, At, Addressed, RequestRow
<1>2. /\ request' \in [Requests -> RequestRow]
      /\ \A q \in Requests : q # r => request'[q] = request[q]
      /\ request'[r].at = "use" /\ request'[r].user = u /\ request'[r].password = request[r].password
  BY <1>1, GoingOn DEF Steps
<1>3. CASE u \in user
  <2>1. /\ password' = [password EXCEPT ![u] = request[r].password]
        /\ raced' = (raced \ {r}) \cup Overtaken(r)
    BY <1>3 DEF SetPassword
  <2>2. /\ password' \in [Users -> Passwords] /\ password'[u] = request[r].password
        /\ \A v \in Users : v # u => password'[v] = password[v]
    BY <1>1, <2>1, Typed
  <2>3. raced' \subseteq Sessions \cup Requests
    BY <2>1, Typed DEF Overtaken
  <2>4. AccountsTypeOK'
    BY <1>1, <1>2, <2>2, <2>3, Typed DEF AccountsTypeOK, RequestRow, SessionRow, LinkRow
  <2>5. Current'
    <3> SUFFICES ASSUME NEW a \in Requests, request'[a].at \in Checked, request'[a].user \in user
                 PROVE  request'[a].password = password'[request'[a].user] \/ a \in raced'
      BY <1>1 DEF Current
    <3>1. CASE a = r
      BY <3>1, <1>2, <2>2
    <3>2. CASE a # r /\ request[a].user = u
      BY <3>2, <1>2, <2>1 DEF Overtaken, Checked
    <3>3. CASE a # r /\ request[a].user # u
      BY <3>3, <1>2, <2>1, <2>2, Typed DEF Current
    <3> QED BY <3>1, <3>2, <3>3
  <2>6. OldPasswordIsOut'
    <3> SUFFICES ASSUME NEW s \in Sessions, session[s].user # NoUser,
                        session[s].password # password'[session[s].user],
                        s \notin raced', session[s].user \notin halted
                 PROVE  Resetting(session[s].user)'
      BY <1>1 DEF OldPasswordIsOut
    <3>1. CASE session[s].user = u
      BY <3>1, <1>1, <1>2 DEF Resetting
    <3>2. CASE session[s].user # u
      <4>1. s \notin raced /\ session[s].user \in user
        BY <2>1, AccountsAssumption DEF NothingOutlivesTheAccount
      <4>2. session[s].password # password[session[s].user]
        BY <3>2, <4>1, <2>2, Typed
      <4>3. PICK a \in Requests : request[a].user = session[s].user /\ request[a].at \in {"use", "revoke"}
        BY <4>1, <4>2 DEF OldPasswordIsOut, Resetting
      <4>4. a # r
        BY <4>3, <1>1
      <4> QED BY <4>3, <4>4, <1>1, <1>2 DEF Resetting
    <3> QED BY <3>1, <3>2
  <2>7. IdIsNew'
    BY <1>1, <1>2, NewIdsStayNew
  <2> QED BY <1>1, <1>2, <2>4, <2>5, <2>6, <2>7 DEF Addressed, OneAccountPerAddress, NothingOutlivesTheAccount
<1>4. CASE u \notin user
  <2>1. UNCHANGED <<password, raced>>
    BY <1>4 DEF SetPassword
  <2> QED BY <1>1, <1>2, <1>4, <2>1, StepOfRequest, Typed DEF NothingOutlivesTheAccount, Addressed, Checked
<1> QED BY <1>3, <1>4

LEMMA KeptByUseLink ==
  ASSUME AccountsInv, NEW r \in Requests, UseLink(r)
  PROVE  AccountsInv'
<1> DEFINE l == request[r].link
<1> USE DEF AccountsInv
<1>1. /\ request[r].at = "use" /\ Then(r, "revoke")
      /\ UNCHANGED <<user, deleted, password, consents, session, lapsed, raced, halted>>
      /\ link' = IF link[l].life = "absent" THEN link
                   ELSE [link EXCEPT ![l] = [user |-> link[l].user, life |-> "used"]]
  BY DEF UseLink, At
<1>2. /\ request' \in [Requests -> RequestRow]
      /\ \A q \in Requests : q # r => request'[q] = request[q]
      /\ request'[r].at = "revoke" /\ request'[r].user = request[r].user
      /\ request'[r].password = request[r].password
  BY <1>1, GoingOn DEF Steps
<1>3. /\ link' \in [Links -> LinkRow]
      /\ \A k \in Links : /\ link'[k].user = link[k].user
                           /\ link'[k].life = "absent" <=> link[k].life = "absent"
  <2>1. l \in Links => [user |-> link[l].user, life |-> "used"] \in LinkRow
    BY Typed DEF LinkRow
  <2> QED BY <2>1, <1>1, Typed
<1>4. AccountsTypeOK'
  BY <1>1, <1>2, <1>3, Typed DEF AccountsTypeOK, RequestRow, SessionRow, LinkRow
<1>5. Addressed' /\ NothingOutlivesTheAccount' /\ OneAccountPerAddress'
  BY <1>1, <1>2, <1>3 DEF Addressed, NothingOutlivesTheAccount, OneAccountPerAddress
<1>6. IdIsNew'
  BY <1>1, <1>2, NewIdsStayNew
<1>7. Current'
  BY <1>1, <1>2 DEF Current, Checked
<1>8. OldPasswordIsOut'
  BY <1>1, <1>2 DEF OldPasswordIsOut, Resetting
<1> QED BY <1>4, <1>5, <1>6, <1>7, <1>8

\* The sessions of a user are deleted, and nobody else's.
LEMMA Emptied ==
  ASSUME AccountsTypeOK, NEW u \in Users \cup {NoUser},
         session' = [s \in Sessions |-> IF s \in SessionsOf(u) THEN NoSession ELSE session[s]]
  PROVE  /\ session' \in [Sessions -> SessionRow]
         /\ \A s \in Sessions : session'[s] = NoSession \/ (session[s].user # u /\ session'[s] = session[s])
<1>1. \A s \in Sessions : session[s] \in SessionRow
  BY Typed
<1>2. \A s \in Sessions : session'[s] = NoSession \/ (session[s].user # u /\ session'[s] = session[s])
  BY Zenon DEF SessionsOf
<1>3. \A s \in Sessions : session'[s] \in SessionRow
  BY <1>1, <1>2, Rows
<1>4. session' = [s \in Sessions |-> session'[s]]
  OBVIOUS
<1> QED BY <1>2, <1>3, <1>4

\* So are the user's links.
LEMMA Unlinked ==
  ASSUME AccountsTypeOK, NEW u \in Users \cup {NoUser},
         link' = [l \in Links |-> IF link[l].user = u THEN NoLinkRow ELSE link[l]]
  PROVE  /\ link' \in [Links -> LinkRow]
         /\ \A l \in Links : link'[l] = NoLinkRow \/ (link[l].user # u /\ link'[l] = link[l])
<1>1. \A l \in Links : link[l] \in LinkRow
  BY Typed
<1>2. \A l \in Links : link'[l] = NoLinkRow \/ (link[l].user # u /\ link'[l] = link[l])
  BY Zenon
<1>3. \A l \in Links : link'[l] \in LinkRow
  BY <1>1, <1>2, Rows
<1>4. link' = [l \in Links |-> link'[l]]
  OBVIOUS
<1> QED BY <1>2, <1>3, <1>4

\* Both ways to delete a user's sessions: at the end of a reset and of an account.
LEMMA KeptByRevoking ==
  ASSUME AccountsInv, NEW r \in Requests, NEW step \in Steps,
         request[r].at # "idle", Revoke(request[r].user), Then(r, step),
         step \in Checked => request[r].at \in Checked, step \notin {"idle", "insert"},
         request[r].at \notin {"use", "insert"},
         UNCHANGED <<user, deleted, password, consents, link, halted>>
  PROVE  AccountsInv'
<1> DEFINE u == request[r].user
<1> USE DEF AccountsInv
<1>1. /\ request' \in [Requests -> RequestRow]
      /\ \A q \in Requests : q # r => request'[q] = request[q]
      /\ request'[r].at = step /\ request'[r].user = u
      /\ request'[r].password = request[r].password
  BY GoingOn
<1>2. /\ session' \in [Sessions -> SessionRow]
      /\ \A s \in Sessions : session'[s] = NoSession \/ (session[s].user # u /\ session'[s] = session[s])
  <2>1. u \in Users \cup {NoUser}
    BY Typed DEF RequestRow
  <2> QED BY <2>1, Emptied DEF Revoke
<1>3. /\ lapsed' \subseteq lapsed /\ raced' \subseteq raced
      /\ \A q \in Requests : q \in raced => q \in raced'
      /\ \A s \in Sessions : session[s].user # u /\ s \in raced => s \in raced'
  BY AccountsAssumption DEF Revoke, SessionsOf
<1>4. u \in Users
  BY DEF Addressed
<1>5. AccountsTypeOK'
  BY <1>1, <1>2, <1>3, Typed DEF AccountsTypeOK, RequestRow, SessionRow, LinkRow
<1>6. Addressed' /\ NothingOutlivesTheAccount' /\ OneAccountPerAddress'
  BY <1>1, <1>2, <1>4, Rows DEF Addressed, NothingOutlivesTheAccount, OneAccountPerAddress
<1>7. IdIsNew'
  BY <1>1, NewIdsStayNew
<1>8. Current'
  BY <1>1, <1>3 DEF Current
<1>9. OldPasswordIsOut'
  <2> SUFFICES ASSUME NEW s \in Sessions, session'[s].user # NoUser,
                      session'[s].password # password[session'[s].user],
                      s \notin raced', session'[s].user \notin halted
               PROVE  \E a \in Requests : /\ request'[a].user = session'[s].user
                                         /\ request'[a].at \in {"use", "revoke"}
    BY DEF OldPasswordIsOut, Resetting
  <2>1. session'[s] = session[s] /\ session[s].user # u /\ s \notin raced
    BY <1>2, <1>3, Rows
  <2>2. PICK a \in Requests : request[a].user = session[s].user /\ request[a].at \in {"use", "revoke"}
    BY <2>1 DEF OldPasswordIsOut, Resetting
  <2>3. a # r
    BY <2>1, <2>2
  <2> QED BY <2>1, <2>2, <2>3, <1>1
<1> QED BY <1>5, <1>6, <1>7, <1>8, <1>9

LEMMA KeptByEraseUser ==
  ASSUME AccountsInv, NEW r \in Requests, EraseUser(r)
  PROVE  AccountsInv'
<1> DEFINE u == request[r].user
<1> USE DEF AccountsInv
<1>1. /\ request[r].at = "erase" /\ user' = user \ {u} /\ deleted' = deleted \cup {u}
      /\ request' = [request EXCEPT ![r] = NoRequest] /\ Cascade(u)
      /\ raced' = raced \ (SessionsOf(u) \cup {r}) /\ halted' = halted \ {u} /\ password' = password
  BY DEF EraseUser, At
<1>2. /\ request' \in [Requests -> RequestRow]
      /\ \A q \in Requests : q # r => request'[q] = request[q]
      /\ request'[r].at = "idle" /\ request'[r].user = NoUser
  BY <1>1, Ending
<1>3. /\ session' \in [Sessions -> SessionRow] /\ lapsed' \subseteq lapsed /\ consents' = consents \ {u}
      /\ \A s \in Sessions : session'[s] = NoSession \/ (session[s].user # u /\ session'[s] = session[s])
  <2>1. u \in Users \cup {NoUser}
    BY Typed DEF RequestRow
  <2>2. lapsed' \subseteq lapsed /\ consents' = consents \ {u}
    BY <1>1 DEF Cascade
  <2>3. session' = [s \in Sessions |-> IF s \in SessionsOf(u) THEN NoSession ELSE session[s]]
    BY <1>1 DEF Cascade
  <2> QED BY <2>1, <2>2, <2>3, Emptied
<1>4. /\ link' \in [Links -> LinkRow]
      /\ \A l \in Links : link'[l] = NoLinkRow \/ (link[l].user # u /\ link'[l] = link[l])
  <2>1. u \in Users \cup {NoUser}
    BY Typed DEF RequestRow
  <2>2. link' = [l \in Links |-> IF link[l].user = u THEN NoLinkRow ELSE link[l]]
    BY <1>1 DEF Cascade
  <2> QED BY <2>1, <2>2, Unlinked
<1>5. /\ raced' \subseteq raced
      /\ \A q \in Requests : q # r /\ q \in raced => q \in raced'
      /\ \A s \in Sessions : session[s].user # u /\ s \in raced => s \in raced'
  BY <1>1, AccountsAssumption DEF SessionsOf
<1>6. u \in Users
  BY <1>1 DEF Addressed
<1>7. AccountsTypeOK'
  BY <1>1, <1>2, <1>3, <1>4, <1>5, <1>6, Typed DEF AccountsTypeOK, RequestRow, SessionRow, LinkRow
<1>8. Addressed' /\ OneAccountPerAddress'
  BY <1>1, <1>2, <1>4, Rows DEF Addressed, OneAccountPerAddress
<1>9. NothingOutlivesTheAccount'
  BY <1>1, <1>3, <1>4, Rows DEF NothingOutlivesTheAccount
<1>10. IdIsNew'
  BY <1>1, <1>2, NewIdsStayNew
<1>11. Current'
  BY <1>1, <1>2, <1>5 DEF Current, Checked
<1>12. OldPasswordIsOut'
  <2> SUFFICES ASSUME NEW s \in Sessions, session'[s].user # NoUser,
                      session'[s].password # password[session'[s].user],
                      s \notin raced', session'[s].user \notin halted'
               PROVE  \E a \in Requests : /\ request'[a].user = session'[s].user
                                         /\ request'[a].at \in {"use", "revoke"}
    BY <1>1 DEF OldPasswordIsOut, Resetting
  <2>1. session'[s] = session[s] /\ session[s].user # u /\ s \notin raced /\ session[s].user \notin halted
    BY <1>1, <1>3, <1>5, Rows
  <2>2. PICK a \in Requests : request[a].user = session[s].user /\ request[a].at \in {"use", "revoke"}
    BY <2>1 DEF OldPasswordIsOut, Resetting
  <2>3. a # r
    BY <2>1, <2>2
  <2> QED BY <2>1, <2>2, <2>3, <1>2
<1> QED BY <1>7, <1>8, <1>9, <1>10, <1>11, <1>12

LEMMA KeptByOpenSession ==
  ASSUME AccountsInv, NEW r \in Requests, NEW t \in Sessions, OpenSession(r, t)
  PROVE  AccountsInv'
<1> DEFINE u == request[r].user
<1> USE DEF AccountsInv
<1>1. /\ request[r].at \in {"open", "reopen"} /\ request' = [request EXCEPT ![r] = NoRequest]
      /\ session[t].user = NoUser
      /\ UNCHANGED <<user, deleted, password, consents, lapsed, link, halted>>
  BY DEF OpenSession
<1>2. /\ request' \in [Requests -> RequestRow]
      /\ \A q \in Requests : q # r => request'[q] = request[q]
      /\ request'[r].at = "idle" /\ request'[r].user = NoUser
  BY <1>1, Ending
<1>3. CASE u \notin user
  <2>1. raced' = raced \ {r} /\ session' = session
    BY <1>3 DEF OpenSession
  <2> QED BY <1>1, <1>2, <2>1, StepOfRequest, Typed DEF NothingOutlivesTheAccount, Addressed, Checked
<1>4. CASE u \in user
  <2>1. /\ session' = [session EXCEPT ![t] = [user |-> u, password |-> request[r].password]]
        /\ raced' = (raced \ {r}) \cup (IF r \in raced THEN {t} ELSE {})
    BY <1>4 DEF OpenSession
  <2>2. u \in Users /\ request[r].password \in Passwords
    BY <1>1, Typed DEF Addressed, RequestRow
  <2>3. /\ session' \in [Sessions -> SessionRow]
        /\ session'[t].user = u /\ session'[t].password = request[r].password
        /\ \A s \in Sessions : s # t => session'[s] = session[s]
    <3>1. [user |-> u, password |-> request[r].password] \in SessionRow
      BY <2>2 DEF SessionRow
    <3> QED BY <3>1, <2>1, Typed
  <2>4. /\ raced' \subseteq Sessions \cup Requests /\ (r \in raced => t \in raced')
        /\ \A q \in raced : q # r => q \in raced'
    BY <2>1, Typed
  <2>5. AccountsTypeOK'
    BY <1>1, <1>2, <2>3, <2>4, Typed DEF AccountsTypeOK, RequestRow, SessionRow, LinkRow
  <2>6. Addressed' /\ OneAccountPerAddress' /\ NothingOutlivesTheAccount'
    BY <1>1, <1>2, <1>4, <2>3 DEF Addressed, OneAccountPerAddress, NothingOutlivesTheAccount
  <2>7. IdIsNew'
    BY <1>1, <1>2, NewIdsStayNew
  <2>8. Current'
    BY <1>1, <1>2, <2>4 DEF Current, Checked
  <2>9. OldPasswordIsOut'
    <3> SUFFICES ASSUME NEW s \in Sessions, session'[s].user # NoUser,
                        session'[s].password # password[session'[s].user],
                        s \notin raced', session'[s].user \notin halted
                 PROVE  \E a \in Requests : /\ request'[a].user = session'[s].user
                                         /\ request'[a].at \in {"use", "revoke"}
      BY <1>1 DEF OldPasswordIsOut, Resetting
    <3>1. CASE s = t
      <4>1. request[r].password # password[u] /\ r \notin raced
        BY <3>1, <2>3, <2>4
      <4> QED BY <4>1, <1>1, <1>4 DEF Current, Checked
    <3>2. CASE s # t
      <4>1. session'[s] = session[s] /\ s \notin raced
        BY <3>2, <2>3, <2>4, AccountsAssumption
      <4>2. PICK a \in Requests : request[a].user = session[s].user /\ request[a].at \in {"use", "revoke"}
        BY <4>1 DEF OldPasswordIsOut, Resetting
      <4>3. a # r
        BY <4>2, <1>1
      <4> QED BY <4>1, <4>2, <4>3, <1>2
    <3> QED BY <3>1, <3>2
  <2> QED BY <2>5, <2>6, <2>7, <2>8, <2>9
<1> QED BY <1>3, <1>4

\* A session is signed out of, or lapses.
LEMMA KeptBySessions ==
  ASSUME AccountsInv, NEW t \in Sessions, SignOut(t) \/ SessionLapses(t)
  PROVE  AccountsInv'
<1> USE DEF AccountsInv
<1>1. /\ UNCHANGED <<user, deleted, password, consents, link, request, halted>>
      /\ \A s \in Sessions : session'[s] = session[s] \/ session'[s] = NoSession
      /\ session' \in [Sessions -> SessionRow]
  BY Rows, Typed DEF SignOut, SessionLapses
<1>2. /\ lapsed' \subseteq Sessions /\ raced' \subseteq raced
      /\ \A q \in Requests : q \in raced => q \in raced'
      /\ \A s \in Sessions : s \in raced => s \in raced' \/ session'[s] = NoSession
  BY Typed, AccountsAssumption DEF SignOut, SessionLapses
<1>3. AccountsTypeOK'
  BY <1>1, <1>2, Typed DEF AccountsTypeOK, RequestRow, SessionRow, LinkRow
<1>4. Addressed' /\ OneAccountPerAddress' /\ IdIsNew' /\ NothingOutlivesTheAccount'
  BY <1>1, Rows DEF Addressed, OneAccountPerAddress, IdIsNew, NothingOutlivesTheAccount
<1>5. Current'
  BY <1>1, <1>2 DEF Current
<1>6. OldPasswordIsOut'
  <2> SUFFICES ASSUME NEW s \in Sessions, session'[s].user # NoUser,
                      session'[s].password # password[session'[s].user],
                      s \notin raced', session'[s].user \notin halted
               PROVE  \E a \in Requests : /\ request[a].user = session'[s].user
                                         /\ request[a].at \in {"use", "revoke"}
    BY <1>1 DEF OldPasswordIsOut, Resetting
  <2>1. session'[s] = session[s] /\ s \notin raced
    BY <1>1, <1>2, Rows
  <2> QED BY <2>1 DEF OldPasswordIsOut, Resetting
<1> QED BY <1>3, <1>4, <1>5, <1>6

LEMMA KeptByLinkLapses ==
  ASSUME AccountsInv, NEW l \in Links, LinkLapses(l)
  PROVE  AccountsInv'
<1> USE DEF AccountsInv
<1>1. /\ UNCHANGED <<user, deleted, password, consents, session, lapsed, request, raced, halted>>
      /\ link[l].life = "sent"
      /\ link' = [link EXCEPT ![l] = [user |-> link[l].user, life |-> "lapsed"]]
  BY DEF LinkLapses
<1>2. [user |-> link[l].user, life |-> "lapsed"] \in LinkRow
  BY Typed DEF LinkRow
<1>3. /\ link' \in [Links -> LinkRow]
      /\ \A k \in Links : /\ link'[k].user = link[k].user
                           /\ link'[k].life # "absent" => link[k].life # "absent"
  BY <1>1, <1>2, Typed
<1>4. AccountsTypeOK'
  BY <1>1, <1>3, Typed DEF AccountsTypeOK, RequestRow, SessionRow, LinkRow
<1>5. Addressed' /\ OneAccountPerAddress' /\ IdIsNew' /\ NothingOutlivesTheAccount'
  BY <1>1, <1>3 DEF Addressed, OneAccountPerAddress, IdIsNew, NothingOutlivesTheAccount
<1>6. Current' /\ OldPasswordIsOut'
  BY <1>1 DEF Current, OldPasswordIsOut, Resetting
<1> QED BY <1>4, <1>5, <1>6

\* A request that stops in the middle of a reset leaves its user halted.
LEMMA KeptByDie ==
  ASSUME AccountsInv, NEW r \in Requests, Die(r)
  PROVE  AccountsInv'
<1> USE DEF AccountsInv
<1>1. /\ request[r].at # "idle" /\ request' = [request EXCEPT ![r] = NoRequest] /\ raced' = raced \ {r}
      /\ halted' = IF request[r].at \in {"use", "revoke"} THEN halted \cup {request[r].user} ELSE halted
      /\ UNCHANGED <<user, deleted, password, consents, session, lapsed, link>>
  BY DEF Die, Idle, Leave
<1>2. /\ request' \in [Requests -> RequestRow]
      /\ \A q \in Requests : q # r => request'[q] = request[q]
      /\ request'[r].at = "idle" /\ request'[r].user = NoUser
  BY <1>1, Ending
<1>3. request[r].user \in Users
  BY <1>1 DEF Addressed
<1>4. AccountsTypeOK'
  BY <1>1, <1>2, <1>3, Typed DEF AccountsTypeOK, RequestRow, SessionRow, LinkRow
<1>5. Addressed' /\ OneAccountPerAddress' /\ NothingOutlivesTheAccount'
  BY <1>1, <1>2 DEF Addressed, OneAccountPerAddress, NothingOutlivesTheAccount
<1>6. IdIsNew'
  BY <1>1, <1>2, NewIdsStayNew
<1>7. Current'
  BY <1>1, <1>2 DEF Current, Checked
<1>8. OldPasswordIsOut'
  <2> SUFFICES ASSUME NEW s \in Sessions, session[s].user # NoUser,
                      session[s].password # password[session[s].user],
                      s \notin raced', session[s].user \notin halted'
               PROVE  \E a \in Requests : /\ request'[a].user = session[s].user
                                         /\ request'[a].at \in {"use", "revoke"}
    BY <1>1 DEF OldPasswordIsOut, Resetting
  <2>1. s \notin raced /\ session[s].user \notin halted
    BY <1>1, AccountsAssumption
  <2>2. PICK a \in Requests : request[a].user = session[s].user /\ request[a].at \in {"use", "revoke"}
    BY <2>1 DEF OldPasswordIsOut, Resetting
  <2>3. a # r
    BY <1>1, <2>2
  <2> QED BY <2>2, <2>3, <1>2
<1> QED BY <1>4, <1>5, <1>6, <1>7, <1>8

-----------------------------------------------------------------------------
(* The steps that only move a request.                                     *)

\* A handler is called and makes its first reads.
LEMMA KeptByAsking ==
  ASSUME AccountsInv, NEW r \in Requests,
         \/ \E u \in Users, p \in Passwords : AskSignUp(r, u, p)
         \/ \E u \in Users : AskSignIn(r, u)
         \/ \E u \in Users : AskRecovery(r, u)
         \/ \E l \in Links, p \in Passwords : AskReset(r, l, p)
         \/ \E s \in Sessions : AskDelete(r, s)
  PROVE  AccountsInv'
<1> USE DEF AccountsInv
<1>1. \A u \in Users : password[u] \in Passwords
  BY Typed
<1>2. \A l \in Links : link[l].life = "sent" => link[l].user \in Users
  BY DEF Addressed
<1>3. \A s \in Sessions : session[s].password \in Passwords /\ (Valid(s) => session[s].user \in user)
  BY Typed DEF SessionRow, Valid
<1>4. PICK step \in Steps \ {"idle", "use", "revoke"}, u \in Users, l \in Links \cup {NoLink}, p \in Passwords :
        /\ Go(r, step, u, l, p) /\ request[r].at = "idle"
        /\ step = "insert" => Fresh(u)
        /\ step # "insert" => u \in user
        /\ step \in Checked => p = password[u]
        /\ UNCHANGED <<user, deleted, password, consents, session, lapsed, link, raced, halted>>
  <2>1. CASE \E u \in Users, p \in Passwords : AskSignUp(r, u, p)
    <3>1. PICK u \in Users, p \in Passwords : AskSignUp(r, u, p)
      BY <2>1
    <3> QED BY <3>1 DEF AskSignUp, Idle, Steps, Checked
  <2>2. CASE \E u \in Users : AskSignIn(r, u)
    <3>1. PICK u \in Users : AskSignIn(r, u)
      BY <2>2
    <3> QED BY <3>1, <1>1 DEF AskSignIn, Idle, Steps, Checked
  <2>3. CASE \E u \in Users : AskRecovery(r, u)
    <3>1. PICK u \in Users : AskRecovery(r, u)
      BY <2>3
    <3> QED BY <3>1, <1>1 DEF AskRecovery, Idle, Steps, Checked
  <2>4. CASE \E l \in Links, p \in Passwords : AskReset(r, l, p)
    <3>1. PICK l \in Links, p \in Passwords : AskReset(r, l, p)
      BY <2>4
    <3>2. link[l].user \in user
      BY <3>1, <1>2, AccountsAssumption DEF AskReset, NothingOutlivesTheAccount
    <3> QED BY <3>1, <3>2, <1>2 DEF AskReset, Idle, Steps, Checked
  <2>5. CASE \E s \in Sessions : AskDelete(r, s)
    <3>1. PICK s \in Sessions : AskDelete(r, s)
      BY <2>5
    <3>2. session[s].user \in Users
      BY <3>1, <1>3, Typed DEF AskDelete
    <3> QED BY <3>1, <3>2, <1>3 DEF AskDelete, Idle, Steps, Checked
  <2> QED BY <2>1, <2>2, <2>3, <2>4, <2>5
<1>5. /\ request' \in [Requests -> RequestRow]
      /\ \A q \in Requests : q # r => request'[q] = request[q]
      /\ request'[r].at = step /\ request'[r].user = u /\ request'[r].password = p
  BY <1>4, Going
<1>6. step = "insert" => u \notin user \cup deleted /\ \A q \in Requests : request[q].user # u
  BY <1>4 DEF Fresh
<1> QED BY <1>4, <1>5, <1>6, StepOfRequest, Typed DEF NothingOutlivesTheAccount, Addressed

LEMMA KeptByConsents ==
  ASSUME AccountsInv, NEW r \in Requests, InsertConsents(r)
  PROVE  AccountsInv'
<1> USE DEF AccountsInv
<1>1. /\ request[r].at = "consent" /\ request[r].user \in Users
      /\ UNCHANGED <<user, deleted, password, session, lapsed, link, halted>>
  BY DEF InsertConsents, At, Addressed
<1>2. CASE request[r].user \in user
  <2>1. Then(r, "open") /\ consents' = consents \cup {request[r].user} /\ raced' = raced
    BY <1>2 DEF InsertConsents
  <2>2. /\ request' \in [Requests -> RequestRow]
        /\ \A q \in Requests : q # r => request'[q] = request[q]
        /\ request'[r].at = "open" /\ request'[r].user = request[r].user
        /\ request'[r].password = request[r].password
    BY <2>1, GoingOn DEF Steps
  <2>3. request[r].password = password[request[r].user] \/ r \in raced
    BY <1>1, <1>2 DEF Current, Checked
  <2> QED BY <1>1, <1>2, <2>1, <2>2, <2>3, StepOfRequest, Typed DEF NothingOutlivesTheAccount, Addressed
<1>3. CASE request[r].user \notin user
  <2>1. request' = [request EXCEPT ![r] = NoRequest] /\ raced' = raced \ {r} /\ consents' = consents
    BY <1>3 DEF InsertConsents, Leave
  <2>2. /\ request' \in [Requests -> RequestRow]
        /\ \A q \in Requests : q # r => request'[q] = request[q]
        /\ request'[r].at = "idle" /\ request'[r].user = NoUser
    BY <2>1, Ending
  <2> QED BY <1>1, <2>1, <2>2, StepOfRequest, Typed DEF NothingOutlivesTheAccount, Addressed, Checked
<1> QED BY <1>2, <1>3

LEMMA KeptByIssueLink ==
  ASSUME AccountsInv, NEW r \in Requests, NEW l \in Links, IssueLink(r, l)
  PROVE  AccountsInv'
<1> USE DEF AccountsInv
<1>1. /\ request[r].at = "issue" /\ request[r].user \in Users
      /\ request' = [request EXCEPT ![r] = NoRequest] /\ raced' = raced \ {r}
      /\ UNCHANGED <<user, deleted, password, consents, session, lapsed, halted>>
  BY DEF IssueLink, At, Addressed, Leave
<1>2. /\ request' \in [Requests -> RequestRow]
      /\ \A q \in Requests : q # r => request'[q] = request[q]
      /\ request'[r].at = "idle" /\ request'[r].user = NoUser
  BY <1>1, Ending
<1>3. /\ link' \in [Links -> LinkRow]
      /\ \A k \in Links : link'[k] = link[k] \/ (link'[k].user = request[r].user /\ request[r].user \in user)
  <2>1. [user |-> request[r].user, life |-> "sent"] \in LinkRow
    BY <1>1 DEF LinkRow
  <2> QED BY <2>1, Typed DEF IssueLink
<1>4. \A k \in Links : /\ link'[k].user \in user \cup {NoUser}
                       /\ link'[k].life # "absent" => link'[k].user \in Users
  BY <1>1, <1>3 DEF NothingOutlivesTheAccount, Addressed
<1> QED BY <1>1, <1>2, <1>3, <1>4, StepOfRequest, Typed DEF NothingOutlivesTheAccount, Checked

-----------------------------------------------------------------------------
LEMMA AccountsStart == AccountsInit => AccountsInv
<1> SUFFICES ASSUME AccountsInit PROVE AccountsInv
  OBVIOUS
<1>1. password \in [Users -> Passwords]
  BY AccountsAssumption DEF AccountsInit
<1>2. /\ \A s \in Sessions : session[s] = NoSession
      /\ \A l \in Links : link[l] = NoLinkRow
      /\ \A r \in Requests : request[r] = NoRequest
      /\ user = {} /\ consents = {}
  BY DEF AccountsInit
<1>3. AccountsTypeOK
  BY <1>1, Rows, Typed DEF AccountsInit
<1>4. Addressed /\ IdIsNew /\ OneAccountPerAddress
  BY <1>2, Rows DEF Addressed, IdIsNew, OneAccountPerAddress
<1>5. Current /\ NothingOutlivesTheAccount /\ OldPasswordIsOut
  BY <1>2, Rows DEF Current, Checked, NothingOutlivesTheAccount, OldPasswordIsOut
<1> QED BY <1>3, <1>4, <1>5 DEF AccountsInv

LEMMA AccountsStep == AccountsInv /\ [AccountsNext]_accountVars => AccountsInv'
<1> SUFFICES ASSUME AccountsInv, [AccountsNext]_accountVars PROVE AccountsInv'
  OBVIOUS
<1>1. CASE UNCHANGED accountVars
  BY <1>1 DEF accountVars, AccountsInv, AccountsTypeOK, Addressed, IdIsNew, Current, OneAccountPerAddress,
              NothingOutlivesTheAccount, OldPasswordIsOut, Resetting
<1>2. ASSUME NEW r \in Requests, SignUpSteps(r) PROVE AccountsInv'
  BY <1>2, KeptByAsking, KeptByInsertUser, KeptByConsents DEF SignUpSteps
<1>3. ASSUME NEW r \in Requests, NEW u \in Users, AskSignIn(r, u) PROVE AccountsInv'
  BY <1>3, KeptByAsking
<1>4. ASSUME NEW r \in Requests, NEW s \in Sessions, OpenSession(r, s) PROVE AccountsInv'
  BY <1>4, KeptByOpenSession
<1>5. ASSUME NEW r \in Requests, RecoverySteps(r) PROVE AccountsInv'
  <2>1. ASSUME RevokeAll(r) PROVE AccountsInv'
    BY <2>1, KeptByRevoking DEF RevokeAll, At, Steps, Checked
  <2> QED BY <1>5, <2>1, KeptByAsking, KeptByIssueLink, KeptBySetPassword, KeptByUseLink DEF RecoverySteps
<1>6. ASSUME NEW r \in Requests, DeletionSteps(r) PROVE AccountsInv'
  <2>1. ASSUME CloseSessions(r) PROVE AccountsInv'
    BY <2>1, KeptByRevoking DEF CloseSessions, At, Steps, Checked
  <2> QED BY <1>6, <2>1, KeptByAsking, KeptByEraseUser DEF DeletionSteps
<1>7. ASSUME NEW r \in Requests, Die(r) PROVE AccountsInv'
  BY <1>7, KeptByDie
<1>8. ASSUME NEW s \in Sessions, SignOut(s) \/ SessionLapses(s) PROVE AccountsInv'
  BY <1>8, KeptBySessions
<1>9. ASSUME NEW l \in Links, LinkLapses(l) PROVE AccountsInv'
  BY <1>9, KeptByLinkLapses
<1> QED BY <1>1, <1>2, <1>3, <1>4, <1>5, <1>6, <1>7, <1>8, <1>9 DEF AccountsNext

\* The tables and the requests keep their shape.
THEOREM AccountsTyped == AccountsSpec => []AccountsTypeOK
<1>1. AccountsInv => AccountsTypeOK
  BY DEF AccountsInv
<1> QED BY <1>1, AccountsStart, AccountsStep, PTL DEF AccountsSpec

\* Whatever sign-ups, sign-ins, resets and deletions overlap, one address has one
\* account, and a deleted account leaves no session, link or consent.
THEOREM AccountsBeginAndEndWhole == AccountsSpec => []AccountsAreWhole
<1>1. AccountsInv => AccountsAreWhole
  BY DEF AccountsInv, AccountsAreWhole
<1> QED BY <1>1, AccountsStart, AccountsStep, PTL DEF AccountsSpec

\* A session that an old password opened is of a request that a reset overtook,
\* or waits for a reset's revocation, or the reset died before it.
THEOREM ResetPutsOut == AccountsSpec => []OldPasswordIsOut
<1>1. AccountsInv => OldPasswordIsOut
  BY DEF AccountsInv
<1> QED BY <1>1, AccountsStart, AccountsStep, PTL DEF AccountsSpec

-----------------------------------------------------------------------------
(* The rate limiter.                                                       *)

\* The clock never runs backwards, so a key's stamps are in order.
Ordered ==
  \A k \in Callers : \A i, j \in DOMAIN admitted[k] :
    /\ i <= j => admitted[k][i] <= admitted[k][j]
    /\ admitted[k][i] <= clock

\* The sweep and the filter drop nothing that is still within the window.
Remembered ==
  \A k \in Callers : \A i \in DOMAIN admitted[k] :
    Within(k, i) => k \in DOMAIN map /\ i \in map[k]

LimiterInv == LimiterTypeOK /\ Ordered /\ Remembered /\ AtMostMax

-----------------------------------------------------------------------------
(* A call.                                                                 *)

\* Those of its calls that count are all remembered, finitely many.
LEMMA RecentIsWithin ==
  ASSUME LimiterTypeOK, Remembered, NEW k \in Callers
  PROVE  /\ Recent(k) = {i \in DOMAIN admitted[k] : Within(k, i)}
         /\ Recent(k) \subseteq 1..Len(admitted[k])
         /\ Len(admitted[k]) \in Nat /\ DOMAIN admitted[k] = 1..Len(admitted[k])
         /\ IsFiniteSet(Recent(k)) /\ Cardinality(Recent(k)) \in Nat
<1>1. admitted[k] \in Seq(Nat)
  BY DEF LimiterTypeOK
<1>2. Len(admitted[k]) \in Nat /\ DOMAIN admitted[k] = 1..Len(admitted[k])
  BY <1>1
<1>3. Recent(k) = {i \in DOMAIN admitted[k] : Within(k, i)}
  BY DEF Recent, Held, Keeps, Remembered, LimiterTypeOK
<1>4. Recent(k) \in SUBSET (1..Len(admitted[k]))
  BY <1>2, <1>3
<1>5. IsFiniteSet(1..Len(admitted[k]))
  BY <1>2, FS_Interval
<1>6. IsFiniteSet(Recent(k))
  BY <1>4, <1>5, FS_Subset
<1>7. Cardinality(Recent(k)) \in Nat
  BY <1>6, FS_CardinalityType
<1> QED BY <1>2, <1>3, <1>4, <1>6, <1>7

\* If the MaxRequests-th call back still counts, so do those since, and the
\* key is full.
LEMMA FullWhenClose ==
  ASSUME LimiterTypeOK, Ordered, Remembered, NEW k \in Callers,
         NEW i \in DOMAIN admitted[k], Len(admitted[k]) - i + 1 >= MaxRequests, Within(k, i)
  PROVE  Full(k)
<1> DEFINE n == Len(admitted[k])
<1>1. n \in Nat /\ DOMAIN admitted[k] = 1..n /\ i \in 1..n
  BY RecentIsWithin
<1>2. \A j \in i..n : j \in DOMAIN admitted[k] /\ admitted[k][j] \in Nat /\ admitted[k][i] \in Nat
  BY <1>1 DEF LimiterTypeOK
<1>3. ASSUME NEW j \in i..n PROVE Within(k, j)
  <2>1. i <= j /\ j \in DOMAIN admitted[k]
    BY <1>1
  <2>2. admitted[k][i] <= admitted[k][j]
    BY <2>1 DEF Ordered
  <2>3. clock \in Nat /\ admitted[k][i] \in Nat /\ admitted[k][j] \in Nat
    BY <1>2, <1>3 DEF LimiterTypeOK
  <2> HIDE DEF n
  <2> QED BY <2>2, <2>3, RateLimitAssumption DEF Within
<1>4. i..n \in SUBSET Recent(k)
  BY <1>2, <1>3, RecentIsWithin
<1>5. Cardinality(i..n) = n - i + 1
  BY <1>1, FS_Interval
<1>6. Cardinality(i..n) <= Cardinality(Recent(k))
  BY <1>4, RecentIsWithin, FS_Subset
<1> QED BY <1>1, <1>5, <1>6, RecentIsWithin, RateLimitAssumption DEF Full

\* The map after a call: the entries of other keys that have live stamps stay
\* as they are.
LEMMA SweptMap ==
  ASSUME NEW k \in Callers, Check(k)
  PROVE  /\ DOMAIN map' = {j \in DOMAIN map : Keeps(j)} \cup {k}
         /\ Full(k) => map'[k] = Recent(k)
         /\ ~Full(k) => map'[k] = Recent(k) \cup {NextIndex(k)}
         /\ \A j \in DOMAIN map : j # k /\ Keeps(j) => map'[j] = map[j]
<1>1. CASE Full(k)
  BY <1>1, Zenon DEF Check, Swept
<1>2. CASE ~Full(k)
  BY <1>2, Zenon DEF Check, Swept
<1> QED BY <1>1, <1>2

\* A call that is refused.
LEMMA RefusedKeeps ==
  ASSUME LimiterInv, NEW k \in Callers, Full(k), Check(k)
  PROVE  LimiterInv'
<1> USE DEF LimiterInv
<1>1. /\ map' = Swept(k, Recent(k)) /\ verdict' = [key |-> k, ok |-> "no"]
      /\ UNCHANGED <<admitted, clock>>
  BY DEF Check
<1>2. LimiterTypeOK'
  <2>1. ASSUME NEW j \in DOMAIN map' PROVE j \in Callers /\ map'[j] \subseteq DOMAIN admitted[j]
    <3>1. CASE j = k
      <4>1. map'[k] = Recent(k)
        BY SweptMap
      <4>2. Recent(k) \subseteq DOMAIN admitted[k]
        BY RecentIsWithin
      <4> QED BY <3>1, <4>1, <4>2
    <3>2. CASE j # k
      <4>1. j \in DOMAIN map /\ map'[j] = map[j]
        BY <2>1, <3>2, SweptMap
      <4> QED BY <4>1 DEF LimiterTypeOK
    <3> QED BY <3>1, <3>2
  <2>2. verdict' \in [key : Callers, ok : {"none", "yes", "no"}]
    BY <1>1
  <2> QED BY <1>1, <2>1, <2>2 DEF LimiterTypeOK
<1>3. Ordered' /\ AtMostMax'
  BY <1>1 DEF Ordered, AtMostMax
<1>4. Remembered'
  <2> SUFFICES ASSUME NEW j \in Callers, NEW a \in DOMAIN admitted'[j], Within(j, a)'
               PROVE  j \in DOMAIN map' /\ a \in map'[j]
    BY DEF Remembered
  <2>1. a \in DOMAIN admitted[j] /\ Within(j, a)
    BY <1>1 DEF Within
  <2>2. j \in DOMAIN map /\ a \in map[j] /\ Keeps(j)
    BY <2>1 DEF Remembered, Keeps
  <2>3. CASE j = k
    <3>1. a \in Recent(k)
      BY <2>1, <2>3, RecentIsWithin
    <3>2. k \in DOMAIN map' /\ map'[k] = Recent(k)
      BY SweptMap
    <3> QED BY <2>3, <3>1, <3>2
  <2>4. CASE j # k
    BY <2>2, <2>4, SweptMap
  <2> QED BY <2>3, <2>4
<1> QED BY <1>2, <1>3, <1>4

\* A call that is let through: the stamp it adds.
LEMMA Appended ==
  ASSUME LimiterTypeOK, NEW k \in Callers, admitted' = [admitted EXCEPT ![k] = Append(@, clock)]
  PROVE  /\ admitted' \in [Callers -> Seq(Nat)]
         /\ \A j \in Callers : j # k => admitted'[j] = admitted[j]
         /\ Len(admitted'[k]) = NextIndex(k) /\ DOMAIN admitted'[k] = 1..NextIndex(k)
         /\ DOMAIN admitted[k] = 1..Len(admitted[k]) /\ Len(admitted[k]) \in Nat
         /\ \A i \in DOMAIN admitted[k] : i \in Nat /\ i < NextIndex(k) /\ admitted'[k][i] = admitted[k][i]
         /\ admitted'[k][NextIndex(k)] = clock
<1>1. admitted[k] \in Seq(Nat) /\ clock \in Nat /\ admitted \in [Callers -> Seq(Nat)]
  BY DEF LimiterTypeOK
<1>2. admitted'[k] = Append(admitted[k], clock)
  BY <1>1
<1>3. /\ Append(admitted[k], clock) \in Seq(Nat)
      /\ Len(Append(admitted[k], clock)) = Len(admitted[k]) + 1
      /\ Len(admitted[k]) \in Nat /\ DOMAIN admitted[k] = 1..Len(admitted[k])
      /\ \A i \in 1..Len(admitted[k]) : Append(admitted[k], clock)[i] = admitted[k][i]
      /\ Append(admitted[k], clock)[Len(admitted[k]) + 1] = clock
  BY <1>1
<1>4. DOMAIN Append(admitted[k], clock) = 1..(Len(admitted[k]) + 1)
  BY <1>1, <1>3
<1> QED BY <1>1, <1>2, <1>3, <1>4 DEF NextIndex

LEMMA AdmittedKeeps ==
  ASSUME LimiterInv, NEW k \in Callers, ~Full(k), Check(k)
  PROVE  LimiterInv'
<1> USE DEF LimiterInv
<1> DEFINE n == NextIndex(k)
<1>1. /\ admitted' = [admitted EXCEPT ![k] = Append(@, clock)]
      /\ map' = Swept(k, Recent(k) \cup {n}) /\ verdict' = [key |-> k, ok |-> "yes"]
      /\ clock' = clock
  BY DEF Check
<1>2. clock \in Nat /\ \A j \in Callers : \A i \in DOMAIN admitted[j] : admitted[j][i] \in Nat
  BY DEF LimiterTypeOK
<1>3. n \in Nat \ {0} /\ n = Len(admitted[k]) + 1
  BY RecentIsWithin DEF NextIndex
<1>4. LimiterTypeOK'
  <2>1. DOMAIN map' \subseteq Callers
    BY <1>1, SweptMap DEF LimiterTypeOK
  <2>2. \A j \in DOMAIN map' : map'[j] \subseteq DOMAIN admitted'[j]
    <3>1. map'[k] \subseteq DOMAIN admitted'[k]
      <4>1. map'[k] = Recent(k) \cup {n} /\ Recent(k) \subseteq 1..Len(admitted[k])
        BY SweptMap, RecentIsWithin
      <4>2. DOMAIN admitted'[k] = 1..n
        BY <1>1, Appended
      <4> HIDE DEF n
      <4> QED BY <1>3, <4>1, <4>2, RecentIsWithin
    <3>2. ASSUME NEW j \in DOMAIN map', j # k PROVE map'[j] \subseteq DOMAIN admitted'[j]
      <4>1. j \in DOMAIN map /\ map'[j] = map[j]
        BY <3>2, SweptMap
      <4>2. map[j] \subseteq DOMAIN admitted[j] /\ j \in Callers
        BY <4>1 DEF LimiterTypeOK
      <4>3. admitted'[j] = admitted[j]
        BY <1>1, <3>2, <4>2, Appended
      <4> QED BY <4>1, <4>2, <4>3
    <3> QED BY <3>1, <3>2
  <2> QED BY <1>1, <2>1, <2>2, Appended DEF LimiterTypeOK
<1>5. Ordered'
  <2> SUFFICES ASSUME NEW j \in Callers, NEW a \in DOMAIN admitted'[j], NEW b \in DOMAIN admitted'[j]
               PROVE  /\ a <= b => admitted'[j][a] <= admitted'[j][b]
                      /\ admitted'[j][a] <= clock'
    BY DEF Ordered
  <2>1. CASE j # k
    BY <1>1, <2>1, Appended DEF Ordered
  <2>2. CASE j = k
    <3>1. a \in DOMAIN admitted[k] \/ a = n
      BY <1>1, <1>3, <2>2, Appended
    <3>2. b \in DOMAIN admitted[k] \/ b = n
      BY <1>1, <1>3, <2>2, Appended
    <3>3. a \in DOMAIN admitted[k] => a < n /\ admitted'[k][a] = admitted[k][a] /\ a \in Nat
      BY <1>1, Appended
    <3>4. b \in DOMAIN admitted[k] => b < n /\ admitted'[k][b] = admitted[k][b] /\ b \in Nat
      BY <1>1, Appended
    <3>5. admitted'[k][n] = clock
      BY <1>1, Appended
    <3> QED BY <1>1, <1>2, <1>3, <2>2, <3>1, <3>2, <3>3, <3>4, <3>5 DEF Ordered
  <2> QED BY <2>1, <2>2
<1>6. Remembered'
  <2> SUFFICES ASSUME NEW j \in Callers, NEW a \in DOMAIN admitted'[j], Within(j, a)'
               PROVE  j \in DOMAIN map' /\ a \in map'[j]
    BY DEF Remembered
  <2>1. CASE j # k
    <3>1. a \in DOMAIN admitted[j] /\ Within(j, a)
      BY <1>1, <2>1, Appended DEF Within
    <3>2. j \in DOMAIN map /\ a \in map[j] /\ Keeps(j)
      BY <3>1 DEF Remembered, Keeps
    <3> QED BY <1>1, <2>1, <3>2, SweptMap
  <2>2. CASE j = k
    <3>1. a = n \/ a \in DOMAIN admitted[k]
      BY <1>1, <1>3, <2>2, Appended
    <3>2. a \in DOMAIN admitted[k] => Within(k, a)
      BY <1>1, <2>2, Appended DEF Within
    <3> QED BY <1>1, <2>2, <3>1, <3>2, SweptMap, RecentIsWithin
  <2> QED BY <2>1, <2>2
<1>7. AtMostMax'
  <2> SUFFICES ASSUME NEW j \in Callers, NEW a \in DOMAIN admitted'[j],
                      a + MaxRequests <= Len(admitted'[j])
               PROVE  admitted'[j][a + MaxRequests] - admitted'[j][a] >= Window
    BY DEF AtMostMax
  <2>1. CASE j # k
    BY <1>1, <2>1, Appended DEF AtMostMax
  <2>2. CASE j = k
    <3>1. a \in DOMAIN admitted[k] /\ a \in Nat /\ admitted'[k][a] = admitted[k][a] /\ a + MaxRequests <= n
      BY <1>1, <1>3, <2>2, Appended, RateLimitAssumption
    <3>2. CASE a + MaxRequests = n
      <4>1. ~Within(k, a)
        BY <1>3, <3>1, <3>2, FullWhenClose, RateLimitAssumption
      <4>2. admitted'[k][n] = clock
        BY <1>1, Appended
      <4> QED BY <1>2, <2>2, <3>1, <3>2, <4>1, <4>2, RateLimitAssumption DEF Within
    <3>3. CASE a + MaxRequests < n
      <4>1. a + MaxRequests \in DOMAIN admitted[k] /\ a + MaxRequests <= Len(admitted[k])
        BY <1>3, <3>1, <3>3, RecentIsWithin, RateLimitAssumption
      <4>2. admitted'[k][a + MaxRequests] = admitted[k][a + MaxRequests]
        BY <1>1, <4>1, Appended
      <4> QED BY <2>2, <3>1, <4>1, <4>2 DEF AtMostMax
    <3> QED BY <1>3, <3>1, <3>2, <3>3, RateLimitAssumption
  <2> QED BY <2>1, <2>2
<1> QED BY <1>4, <1>5, <1>6, <1>7

-----------------------------------------------------------------------------
(* The theorems.                                                           *)

LEMMA LimiterStep == LimiterInv /\ [LimiterNext]_limiterVars => LimiterInv'
<1> SUFFICES ASSUME LimiterInv, [LimiterNext]_limiterVars PROVE LimiterInv'
  OBVIOUS
<1>1. ASSUME NEW k \in Callers, Check(k) PROVE LimiterInv'
  BY <1>1, RefusedKeeps, AdmittedKeeps
<1>2. CASE Tick
  <2>1. clock \in Nat /\ clock' = clock + 1 /\ UNCHANGED <<admitted, map, verdict>>
    BY <1>2 DEF Tick, LimiterInv, LimiterTypeOK
  <2>2. \A k \in Callers : \A i \in DOMAIN admitted[k] : admitted[k][i] \in Nat
    BY DEF LimiterInv, LimiterTypeOK
  <2>3. LimiterTypeOK' /\ AtMostMax'
    BY <2>1 DEF LimiterInv, LimiterTypeOK, AtMostMax
  <2>4. Ordered'
    BY <2>1, <2>2 DEF LimiterInv, Ordered
  <2>5. Remembered'
    BY <2>1, <2>2, RateLimitAssumption DEF LimiterInv, Remembered, Within
  <2> QED BY <2>3, <2>4, <2>5 DEF LimiterInv
<1>3. CASE ColdStart
  <2>1. \A k \in Callers : admitted'[k] = <<>>
    BY <1>3 DEF ColdStart
  <2>2. /\ admitted' \in [Callers -> Seq(Nat)] /\ DOMAIN map' = {} /\ clock' = clock
        /\ verdict' \in [key : Callers, ok : {"none", "yes", "no"}]
    <3>1. <<>> \in Seq(Nat)
      OBVIOUS
    <3>2. admitted' \in [Callers -> Seq(Nat)]
      BY <1>3, <3>1 DEF ColdStart
    <3>3. DOMAIN map' = {}
      BY <1>3 DEF ColdStart
    <3> QED BY <1>3, <3>2, <3>3 DEF ColdStart, LimiterInv, LimiterTypeOK
  <2>3. DOMAIN (<<>>) = {}
    OBVIOUS
  <2>4. LimiterTypeOK'
    BY <2>2 DEF LimiterInv, LimiterTypeOK
  <2> QED BY <2>1, <2>3, <2>4 DEF LimiterInv, Ordered, Remembered, AtMostMax
<1>4. CASE UNCHANGED limiterVars
  BY <1>4 DEF limiterVars, LimiterInv, LimiterTypeOK, Ordered, Remembered, AtMostMax, Within
<1> QED BY <1>1, <1>2, <1>3, <1>4 DEF LimiterNext

LEMMA LimiterStart == LimiterInit => LimiterInv
<1> SUFFICES ASSUME LimiterInit PROVE LimiterInv
  OBVIOUS
<1>1. \A k \in Callers : admitted[k] = <<>>
  BY DEF LimiterInit
<1>2. DOMAIN (<<>>) = {}
  OBVIOUS
<1>3. LimiterTypeOK
  BY RateLimitAssumption DEF LimiterInit, LimiterTypeOK
<1> QED BY <1>1, <1>2, <1>3 DEF LimiterInv, Ordered, Remembered, AtMostMax

\* A refusal is earned: the calls that filled the window are the ones counted.
LEMMA RefusalStep ==
  ASSUME LimiterInv, [LimiterNext]_limiterVars, NEW k \in Callers,
         verdict' = [key |-> k, ok |-> "no"], clock' = clock, ~UNCHANGED limiterVars
  PROVE  Cardinality({i \in DOMAIN admitted[k] : clock - admitted[k][i] < Window}) >= MaxRequests
<1>1. clock \in Nat
  BY DEF LimiterInv, LimiterTypeOK
<1>2. ~Tick /\ ~ColdStart
  BY <1>1 DEF Tick, ColdStart
<1>3. PICK j \in Callers : Check(j)
  BY <1>2 DEF LimiterNext
<1>4. Full(j) /\ j = k
  BY <1>3 DEF Check
<1>5. Recent(k) = {i \in DOMAIN admitted[k] : clock - admitted[k][i] < Window}
  BY RecentIsWithin DEF LimiterInv, Within
<1> QED BY <1>4, <1>5 DEF Full

\* What a call leaves in the map has a stamp that counts.
LEMMA SweepStep ==
  ASSUME LimiterInv, [LimiterNext]_limiterVars, map' # map, NEW j \in DOMAIN map'
  PROVE  \E i \in map'[j] : clock' - admitted'[j][i] < Window
<1> USE DEF LimiterInv
<1>1. CASE ColdStart
  BY <1>1 DEF ColdStart
<1>2. ~Tick /\ ~UNCHANGED limiterVars
  BY DEF Tick, limiterVars
<1>3. ASSUME NEW k \in Callers, Check(k) PROVE \E i \in map'[j] : clock' - admitted'[j][i] < Window
  <2>1. clock' = clock /\ clock \in Nat
    BY <1>3 DEF Check, LimiterTypeOK
  <2>2. CASE j = k /\ Full(k)
    <3>1. map'[k] = Recent(k) /\ admitted' = admitted
      BY <1>3, <2>2, SweptMap DEF Check
    <3>2. Recent(k) # {}
      BY <2>2, FS_EmptySet, RecentIsWithin, RateLimitAssumption DEF Full
    <3> QED BY <2>1, <2>2, <3>1, <3>2, RecentIsWithin DEF Within
  <2>3. CASE j = k /\ ~Full(k)
    <3>1. NextIndex(k) \in map'[k] /\ admitted'[k][NextIndex(k)] = clock
      BY <1>3, <2>3, SweptMap, Appended DEF Check
    <3> QED BY <2>1, <2>3, <3>1, RateLimitAssumption
  <2>4. CASE j # k
    <3>2. j \in DOMAIN map /\ Keeps(j) /\ map'[j] = map[j]
      BY <1>3, <2>4, SweptMap
    <3>3. j \in Callers /\ admitted'[j] = admitted[j]
      BY <1>3, <2>4, <3>2, Appended DEF Check, LimiterTypeOK
    <3> QED BY <2>1, <3>2, <3>3 DEF Keeps, Within
  <2> QED BY <2>2, <2>3, <2>4
<1> QED BY <1>1, <1>2, <1>3 DEF LimiterNext

\* The shape of the map and of its stamps survives every call.
THEOREM LimiterTyped == LimiterSpec => []LimiterTypeOK
<1>1. LimiterInv => LimiterTypeOK
  BY DEF LimiterInv
<1> QED BY <1>1, LimiterStart, LimiterStep, PTL DEF LimiterSpec

\* For every limit and window: no key gets more than MaxRequests calls in any
\* stretch of Window, none is refused with fewer, and the map holds no key whose
\* calls are all past it.
THEOREM LimiterExact == LimiterSpec => LimiterIsExact
<1>1. LimiterInv => AtMostMax
  BY DEF LimiterInv
<1>2. LimiterInv /\ [LimiterNext]_limiterVars
        => [\A k \in Callers : verdict' = [key |-> k, ok |-> "no"] /\ clock' = clock =>
              Cardinality({i \in DOMAIN admitted[k] : clock - admitted[k][i] < Window}) >= MaxRequests
           ]_limiterVars
  BY RefusalStep
<1>3. LimiterInv /\ [LimiterNext]_limiterVars
        => [map' # map => \A k \in DOMAIN map' : \E i \in map'[k] : clock' - admitted'[k][i] < Window
           ]_limiterVars
  BY SweepStep
<1> QED BY <1>1, <1>2, <1>3, LimiterStart, LimiterStep, PTL
        DEF LimiterSpec, LimiterIsExact, RefusedOnlyWhenFull, MapHoldsLiveKeys

-----------------------------------------------------------------------------
(* The intake form.                                                        *)

\* A case is made by a form that then waits for its page, and waits for good.
MadeOnce == made \in Nat /\ made <= 1 /\ (waits.to # "case" => made = 0)

\* What a triage waits for names the route that was asked about.
AskedAbout == waits.to = "triage" => waits.route \in Routes

FormInv == IntakeFormTypeOK /\ DraftSurvivesSignUp /\ MadeOnce /\ AskedAbout

\* What is sent is an answer, with the fields of the form.
PayloadFit ==
  /\ Payload \in Answers /\ Payload # Nothing
  /\ Payload.still = IF form.still = "" THEN "unknown" ELSE form.still
  /\ Payload.end = IF form.end = "" THEN "none" ELSE form.end
  /\ Payload.acas = form.acas

LEMMA PayloadFits == IntakeFormTypeOK => PayloadFit
  <1> SUFFICES ASSUME IntakeFormTypeOK PROVE PayloadFit
    OBVIOUS
  <1>1. form \in Fields /\ (chosen # NoRoute => chosen \in Routes)
    BY DEF IntakeFormTypeOK
  <1>2. Payload \in Answers
    BY <1>1 DEF Payload, Answers, Fields
  <1>3. Payload.route \in Routes /\ Nothing.route \notin Routes
    BY <1>1, IntakeFormAssumption DEF Payload, Fields, Nothing
  <1> QED BY <1>2, <1>3 DEF Payload, PayloadFit

LEMMA PayloadFitsNext == IntakeFormTypeOK' => PayloadFit'
  BY PayloadFits, PTL

\* The form of a draft sends the draft.
LEMMA RestoredSends ==
  ASSUME NEW d \in Answers
  PROVE  /\ Restored(d) \in Fields /\ Restored(d).route = d.route
         /\ (IF Restored(d).still = "" THEN "unknown" ELSE Restored(d).still) = d.still
         /\ (IF Restored(d).end = "" THEN "none" ELSE Restored(d).end) = d.end
         /\ Restored(d).acas = d.acas
  BY DEF Restored, Answers, Fields

\* Where the draft, the answers and the fields stay as they are, what survives
\* the sign-up does too: the route that is selected does not matter.
LEMMA DraftKept ==
  ASSUME IntakeFormTypeOK, IntakeFormTypeOK', DraftSurvivesSignUp,
         UNCHANGED <<page, form, draft, put>>
  PROVE  DraftSurvivesSignUp'
  <1>1. PayloadFit /\ PayloadFit'
    BY PayloadFits, PayloadFitsNext
  <1>2. [Payload' EXCEPT !.route = form'.route] = [Payload EXCEPT !.route = form.route]
    BY <1>1 DEF PayloadFit, Answers
  <1>3. HasForm' = HasForm
    BY DEF HasForm
  <1> QED BY <1>2, <1>3 DEF DraftSurvivesSignUp

\* Opening a page: what was put away is still there, or is in the form.
LEMMA LoadKeeps ==
  ASSUME FormInv, NEW p \in {"start", "new", "app", "sign-up", "sign-in", "case"},
         NEW then \in {"app", "new"}, login' \in {"in", "out"}, Load(p, then)
  PROVE  FormInv'
  <1> DEFINE back == p = "new" /\ draft # Nothing
  <1>1. /\ page' = p /\ next' = then /\ asMember' \in BOOLEAN
        /\ offered' = {} /\ chosen' = NoRoute /\ waits' = For("idle") /\ made' = 0
    BY DEF Load
  <1>2. /\ draft \in Answers \cup {Nothing} /\ put \in Answers \cup {Nothing}
        /\ (draft # Nothing => put = draft)
    BY DEF FormInv, IntakeFormTypeOK, DraftSurvivesSignUp
  <1>3. CASE back
    <2>1. /\ form' = Restored(draft) /\ draft' = Nothing /\ put' = draft /\ draft \in Answers
      BY <1>2, <1>3 DEF Load
    <2>2. /\ form' \in Fields /\ form'.route = draft.route
          /\ (IF form'.still = "" THEN "unknown" ELSE form'.still) = draft.still
          /\ (IF form'.end = "" THEN "none" ELSE form'.end) = draft.end
          /\ form'.acas = draft.acas
      BY <2>1, RestoredSends
    <2>3. IntakeFormTypeOK'
      BY <1>1, <2>1, <2>2 DEF IntakeFormTypeOK, For, Waiting
    <2>4. /\ Payload'.still = draft.still /\ Payload'.end = draft.end /\ Payload'.acas = draft.acas
          /\ Payload' \in Answers
      BY <2>2, <2>3, PayloadFitsNext DEF PayloadFit
    <2>5. [Payload' EXCEPT !.route = form'.route] = draft
      BY <2>1, <2>2, <2>4 DEF Answers
    <2>6. DraftSurvivesSignUp'
      BY <2>1, <2>5 DEF DraftSurvivesSignUp
    <2> QED BY <1>1, <2>3, <2>6 DEF FormInv, MadeOnce, AskedAbout, For
  <1>4. CASE ~back
    <2>1. /\ form' = Blank /\ draft' = draft
          /\ put' = IF draft # Nothing THEN put ELSE Nothing
      BY <1>4 DEF Load
    <2>2. Blank \in Fields
      BY IntakeFormAssumption DEF Blank, Fields
    <2>3. IntakeFormTypeOK'
      BY <1>1, <1>2, <2>1, <2>2 DEF IntakeFormTypeOK, For, Waiting
    <2>4. DraftSurvivesSignUp'
      BY <1>2, <2>1 DEF DraftSurvivesSignUp
    <2> QED BY <1>1, <2>3, <2>4 DEF FormInv, MadeOnce, AskedAbout, For
  <1> QED BY <1>3, <1>4

\* Waiting for something else, and nothing more.
LEMMA WaitKeeps ==
  ASSUME FormInv, NEW what, Wait(what), HasForm,
         what \in [to : {"idle", "triage", "create"}, route : Routes \cup {NoRoute}],
         what.to = "triage" => what.route \in Routes, waits.to # "case"
  PROVE  FormInv'
  <1>1. /\ waits' = what /\ made' = made
        /\ UNCHANGED <<page, next, login, asMember, form, offered, chosen, draft, put>>
    BY DEF Wait
  <1>2. what \in [to : {"idle", "triage", "create", "sign-up", "case"}, route : Routes \cup {NoRoute}]
    OBVIOUS
  <1>3. IntakeFormTypeOK'
    BY <1>1, <1>2 DEF FormInv, IntakeFormTypeOK, HasForm
  <1>4. DraftSurvivesSignUp'
    BY <1>1, <1>3, DraftKept DEF FormInv
  <1> QED BY <1>1, <1>3, <1>4 DEF FormInv, MadeOnce, AskedAbout

LEMMA EditKeeps ==
  ASSUME FormInv, NEW new \in Fields, Edit(new)
  PROVE  FormInv'
  <1>1. /\ form' = new /\ put' = IF draft = Nothing THEN Nothing ELSE put
        /\ UNCHANGED <<page, next, login, asMember, offered, chosen, waits, draft, made>>
    BY DEF Edit
  <1>2. IntakeFormTypeOK'
    BY <1>1 DEF FormInv, IntakeFormTypeOK, Waiting, HasForm
  <1>3. DraftSurvivesSignUp'
    BY <1>1 DEF FormInv, DraftSurvivesSignUp
  <1> QED BY <1>1, <1>2, <1>3 DEF FormInv, MadeOnce, AskedAbout

LEMMA EditFieldKeeps ==
  ASSUME FormInv, EditField
  PROVE  FormInv'
  <1>1. form \in Fields
    BY DEF FormInv, IntakeFormTypeOK
  <1>2. CASE \E r \in Routes : Edit([form EXCEPT !.route = r])
    <2>1. PICK r \in Routes : Edit([form EXCEPT !.route = r])
      BY <1>2
    <2>2. [form EXCEPT !.route = r] \in Fields
      BY <1>1 DEF Fields
    <2> QED BY <2>1, <2>2, EditKeeps
  <1>3. CASE \E s \in {"", "yes", "no"} : Edit([form EXCEPT !.still = s])
    <2>1. PICK s \in {"", "yes", "no"} : Edit([form EXCEPT !.still = s])
      BY <1>3
    <2>2. [form EXCEPT !.still = s] \in Fields
      BY <1>1 DEF Fields
    <2> QED BY <2>1, <2>2, EditKeeps
  <1>4. CASE \E d \in {"", "a date"} : Edit([form EXCEPT !.end = d])
    <2>1. PICK d \in {"", "a date"} : Edit([form EXCEPT !.end = d])
      BY <1>4
    <2>2. [form EXCEPT !.end = d] \in Fields
      BY <1>1 DEF Fields
    <2> QED BY <2>1, <2>2, EditKeeps
  <1>5. CASE Edit([form EXCEPT !.acas = ~@])
    <2>1. [form EXCEPT !.acas = ~@] \in Fields
      BY <1>1 DEF Fields
    <2> QED BY <1>5, <2>1, EditKeeps
  <1> QED BY <1>2, <1>3, <1>4, <1>5 DEF EditField

LEMMA RunTriageKeeps ==
  ASSUME FormInv, RunTriage
  PROVE  FormInv'
  <1>1. Payload.route \in Routes
    BY PayloadFits DEF FormInv, PayloadFit, Answers
  <1> DEFINE what == [to |-> "triage", route |-> Payload.route]
  <1>2. /\ what \in [to : {"idle", "triage", "create"}, route : Routes \cup {NoRoute}]
        /\ what.to = "triage" /\ what.route \in Routes
    BY <1>1
  <1>3. HasForm /\ waits.to # "case" /\ Wait(what)
    BY DEF RunTriage, Waiting, For
  <1> HIDE DEF what
  <1> QED BY <1>2, <1>3, WaitKeeps

LEMMA TriageAnsweredKeeps ==
  ASSUME FormInv, NEW suggested \in SUBSET Routes, NEW first \in Routes,
         TriageAnswered(suggested, first)
  PROVE  FormInv'
  <1> DEFINE all == Offered(waits.route, suggested)
  <1>1. /\ first \in all /\ offered' = all /\ chosen' = first /\ waits' = For("idle")
        /\ UNCHANGED <<page, next, login, asMember, form, draft, put, made>>
        /\ waits.to = "triage"
    BY DEF TriageAnswered
  <1>2. waits.route \in Routes
    BY <1>1 DEF FormInv, AskedAbout
  <1>3. all \subseteq Routes
    BY <1>2, IntakeFormAssumption DEF Offered
  <1> HIDE DEF all
  <1>4. first # NoRoute
    BY IntakeFormAssumption
  <1>5. IntakeFormTypeOK'
    BY <1>1, <1>3, <1>4 DEF FormInv, IntakeFormTypeOK, Waiting, For
  <1>6. DraftSurvivesSignUp'
    BY <1>1, <1>5, DraftKept DEF FormInv
  <1> QED BY <1>1, <1>5, <1>6 DEF FormInv, MadeOnce, AskedAbout, For

LEMMA ChooseKeeps ==
  ASSUME FormInv, NEW r \in Routes, Choose(r)
  PROVE  FormInv'
  <1>1. /\ chosen' = r /\ r \in offered
        /\ UNCHANGED <<page, next, login, asMember, form, offered, waits, draft, put, made>>
    BY DEF Choose
  <1>2. r # NoRoute
    BY IntakeFormAssumption
  <1>3. IntakeFormTypeOK'
    BY <1>1, <1>2 DEF FormInv, IntakeFormTypeOK, Waiting, HasForm
  <1>4. DraftSurvivesSignUp'
    BY <1>1, <1>3, DraftKept DEF FormInv
  <1> QED BY <1>1, <1>3, <1>4 DEF FormInv, MadeOnce, AskedAbout

LEMMA PutAwayKeeps ==
  ASSUME FormInv, PutAway
  PROVE  FormInv'
  <1>1. /\ draft' = Payload /\ put' = Payload /\ waits' = For("sign-up") /\ HasForm
        /\ UNCHANGED <<page, next, login, asMember, form, offered, chosen, made>>
    BY DEF PutAway
  <1>2. Payload \in Answers /\ Payload # Nothing
    BY PayloadFits DEF FormInv, PayloadFit
  <1>3. waits = For("idle")
    BY DEF PutAway, Waiting
  <1>4. IntakeFormTypeOK'
    BY <1>1, <1>2 DEF FormInv, IntakeFormTypeOK, For, HasForm
  <1>5. DraftSurvivesSignUp'
    BY <1>1, <1>2 DEF DraftSurvivesSignUp
  <1> QED BY <1>1, <1>3, <1>4, <1>5 DEF FormInv, MadeOnce, AskedAbout, For

LEMMA CaseCreatedKeeps ==
  ASSUME FormInv, CaseCreated
  PROVE  FormInv'
  <1>1. /\ waits = For("create") /\ waits' = For("case") /\ made' = made + 1
        /\ UNCHANGED <<page, next, login, asMember, form, offered, chosen, draft, put>>
    BY DEF CaseCreated, AfterAnswer
  <1>2. HasForm
    BY <1>1 DEF FormInv, IntakeFormTypeOK, Waiting, For
  <1>3. made = 0
    BY <1>1 DEF FormInv, MadeOnce, For
  <1>4. IntakeFormTypeOK'
    BY <1>1, <1>2, <1>3 DEF FormInv, IntakeFormTypeOK, For, HasForm
  <1>5. DraftSurvivesSignUp'
    BY <1>1, <1>4, DraftKept DEF FormInv
  <1> QED BY <1>1, <1>3, <1>4, <1>5 DEF FormInv, MadeOnce, AskedAbout, For

LEMMA FormStarts ==
  ASSUME IntakeFormInit
  PROVE  FormInv
  <1>1. Blank \in Fields
    BY IntakeFormAssumption DEF Blank, Fields
  <1>2. IntakeFormTypeOK
    BY <1>1 DEF IntakeFormInit, IntakeFormTypeOK, For, Waiting
  <1> QED BY <1>2 DEF IntakeFormInit, FormInv, DraftSurvivesSignUp, MadeOnce, AskedAbout, For

LEMMA FormSteps ==
  ASSUME FormInv, [IntakeFormNext]_formVars
  PROVE  FormInv'
  <1>0. login \in {"in", "out"} /\ next \in {"app", "new"}
    BY DEF FormInv, IntakeFormTypeOK
  <1>1. ASSUME NEW p \in {"start", "new", "app", "sign-up", "sign-in"}, Visit(p)
        PROVE  FormInv'
    BY <1>0, <1>1, LoadKeeps DEF Visit
  <1>2. CASE SessionEnds
    <2>1. /\ login' = "out"
          /\ UNCHANGED <<page, next, asMember, form, offered, chosen, waits, draft, put, made>>
      BY <1>2 DEF SessionEnds
    <2>2. IntakeFormTypeOK'
      BY <2>1 DEF FormInv, IntakeFormTypeOK, Waiting, HasForm
    <2>3. DraftSurvivesSignUp'
      BY <2>1, <2>2, DraftKept DEF FormInv
    <2> QED BY <2>1, <2>2, <2>3 DEF FormInv, MadeOnce, AskedAbout
  <1>3. CASE Authenticate
    BY <1>3, LoadKeeps DEF Authenticate
  <1>4. CASE EditField
    BY <1>4, EditFieldKeeps
  <1>5. CASE RunTriage
    BY <1>5, RunTriageKeeps
  <1>6. CASE \E suggested \in SUBSET Routes : \E first \in Routes : TriageAnswered(suggested, first)
    BY <1>6, TriageAnsweredKeeps
  <1>7. CASE \E r \in Routes : Choose(r)
    BY <1>7, ChooseKeeps
  <1>8. CASE PutAway
    BY <1>8, PutAwayKeeps
  <1>9. CASE CreateCase
    <2>1. HasForm /\ waits.to # "case" /\ Wait(For("create"))
      BY <1>9 DEF CreateCase, Waiting, For
    <2>2. /\ For("create") \in [to : {"idle", "triage", "create"}, route : Routes \cup {NoRoute}]
          /\ For("create").to # "triage"
      BY DEF For
    <2> QED BY <2>1, <2>2, WaitKeeps
  <1>10. CASE CaseCreated
    BY <1>10, CaseCreatedKeeps
  <1>11. CASE GivenUp
    <2>1. waits.to # "case" /\ Wait(For("idle")) /\ Waiting
      BY <1>11 DEF GivenUp, Waiting, For
    <2>2. HasForm
      BY <2>1 DEF FormInv, IntakeFormTypeOK
    <2>3. /\ For("idle") \in [to : {"idle", "triage", "create"}, route : Routes \cup {NoRoute}]
          /\ For("idle").to # "triage"
      BY DEF For
    <2> QED BY <2>1, <2>2, <2>3, WaitKeeps
  <1>12. CASE Arrive
    BY <1>0, <1>12, LoadKeeps DEF Arrive
  <1>13. CASE UNCHANGED formVars
    <2>1. /\ UNCHANGED <<page, next, login, asMember, form, offered, chosen, waits, draft, put, made>>
      BY <1>13 DEF formVars
    <2>2. IntakeFormTypeOK'
      BY <2>1 DEF FormInv, IntakeFormTypeOK, Waiting, HasForm
    <2>3. DraftSurvivesSignUp'
      BY <2>1, <2>2, DraftKept DEF FormInv
    <2> QED BY <2>1, <2>2, <2>3 DEF FormInv, MadeOnce, AskedAbout
  <1> QED
    BY <1>1, <1>2, <1>3, <1>4, <1>5, <1>6, <1>7, <1>8, <1>9, <1>10, <1>11, <1>12, <1>13
    DEF IntakeFormNext

LEMMA FormAlways == IntakeFormSpec => []FormInv
  BY FormStarts, FormSteps, PTL DEF IntakeFormSpec

\* AnswersReachOneCase: whatever pages a visitor opens and whenever her session
\* ends, what she had answered when she asked for an account is what the form
\* sends once she has one, and one form makes one case.
THEOREM AnswersArrive == IntakeFormSpec => []AnswersReachOneCase
  <1>1. FormInv => AnswersReachOneCase
    BY DEF FormInv, MadeOnce, AnswersReachOneCase, NoSecondCase
  <1> QED BY <1>1, FormAlways, PTL

-----------------------------------------------------------------------------
(* The Exports screen.                                                     *)

Screen == [open : BOOLEAN, box : 0..MaxRows, task : Task]

\* What a text sets out is all of the process as it now reads.
Complete(text) == \A p \in Points \ unmarked : point[p] # "absent" => text[p] = point[p]

\* A screen that is not open asks for nothing.
AskedOpen(s) == s.task.at # "idle" => s.open

\* No request is ahead of the table by more than its own row.
NumberedNext(s) == s.task.at = "insert" => s.task.version <= Cardinality(Known) + 1

\* The only screen's new row follows every other of its kind.
NumberedLast(s) ==
  OneScreen /\ s.task.at = "insert" /\ s.task.type # Summary =>
    \A i \in Live : artifact[i].type = s.task.type => artifact[i].version < s.task.version

\* What a request has read is still so, or it has a mark to miss.
ReadIsFresh(s) ==
  changer = {} /\ s.task.at \in {"number", "insert"} /\ s.task.stale = "no" => Complete(s.task.point)

ScreenGood(s) == AskedOpen(s) /\ NumberedNext(s) /\ NumberedLast(s) /\ ReadIsFresh(s)

\* Versions are given out no faster than rows.
VersionsFollowRows == \A i \in Known : artifact[i].version <= Cardinality(Known)

ExportsInv ==
  /\ ExportsTypeOK
  /\ \A t \in Tabs : ScreenGood(tab[t])
  /\ VersionsFollowRows /\ OneScreenNumbersApart /\ FreshIsComplete

LEMMA NoTaskFits == NoTask \in Task /\ Unmade \in Row
  <1>1. [p \in Points |-> "absent"] \in [Points -> Wordings]
    BY DEF Wordings
  <1>2. NoTask \in Task
    BY <1>1, ExportsAssumption DEF NoTask, Task
  <1>3. Unmade \in Row
    BY <1>1, ExportsAssumption DEF Unmade, Row
  <1> QED BY <1>2, <1>3

\* A finite set of versions has a highest, and no row is above it.
LEMMA HighestIsHighest ==
  ASSUME artifact \in [Ids -> Row], NEW rows \in SUBSET Ids, rows # {}
  PROVE  /\ Highest(rows) \in 0..MaxRows
         /\ \E i \in rows : artifact[i].version = Highest(rows)
         /\ \A i \in rows : artifact[i].version <= Highest(rows)
  <1> DEFINE Above == {n \in Nat : \A i \in rows : artifact[i].version <= n}
             V == {artifact[i].version : i \in rows}
  <1>1. \A i \in rows : artifact[i].version \in 0..MaxRows
    BY DEF Row
  <1>2. MaxRows \in Above
    BY <1>1, ExportsAssumption
  <1>3. PICK n \in Above : \A m \in Above : ~(<<m, n>> \in OpToRel(<, Nat))
    BY <1>2, NatLessThanWellFounded, WFMin, Above \subseteq Nat
  <1>4. \A m \in Above : n <= m
    <2>1. SUFFICES ASSUME NEW m \in Above PROVE n <= m
      OBVIOUS
    <2>2. m \in Nat /\ n \in Nat
      OBVIOUS
    <2>3. <<m, n>> \notin OpToRel(<, Nat)
      BY <1>3
    <2> HIDE DEF Above
    <2>4. ASSUME m < n PROVE FALSE
      <3>1. <<m, n>> \in Nat \X Nat /\ <<m, n>>[1] < <<m, n>>[2]
        BY <2>2, <2>4
      <3> QED BY <2>3, <3>1 DEF OpToRel
    <2> QED BY <2>2, <2>4
  <1>5. \E i \in rows : artifact[i].version = n
    <2>1. SUFFICES ASSUME \A i \in rows : artifact[i].version # n PROVE FALSE
      OBVIOUS
    <2>2. \A i \in rows : artifact[i].version < n
      BY <1>1, <2>1
    <2>3. n \in Nat /\ n - 1 \in Nat
      BY <1>1, <2>2
    <2>4. n - 1 \in Above
      BY <1>1, <2>2, <2>3
    <2> QED BY <1>4, <2>3, <2>4
  <1>6. n \in V /\ \A i \in rows : artifact[i].version <= n
    BY <1>5
  <1> HIDE DEF V
  <1>7. \E v \in V : \A i \in rows : artifact[i].version <= v
    BY <1>6
  <1>8. Highest(rows) = CHOOSE v \in V : \A i \in rows : artifact[i].version <= v
    BY DEF Highest, V
  <1>9. Highest(rows) \in V /\ \A i \in rows : artifact[i].version <= Highest(rows)
    BY <1>7, <1>8
  <1> QED BY <1>1, <1>9 DEF V

LEMMA KnownIsFinite ==
  /\ IsFiniteSet(Known) /\ Cardinality(Known) \in Nat
  /\ Known \subseteq Ids
  <1>1. Known \subseteq Ids /\ Ids = 1..MaxRows /\ MaxRows \in Nat
    BY ExportsAssumption DEF Known, Ids
  <1>2. IsFiniteSet(1..MaxRows)
    BY <1>1, FS_Interval
  <1>3. IsFiniteSet(Known)
    BY <1>1, <1>2, FS_Subset
  <1> QED BY <1>1, <1>3, FS_CardinalityType

-----------------------------------------------------------------------------
(* Steps of one screen that leave the tables alone.                        *)

\* Screens stay open or closed, so there is one or there are several for good.
LEMMA OpenForGood ==
  ASSUME ExportsTypeOK, NEW t \in Tabs, NEW s \in Screen, s.open = tab[t].open,
         tab' = [tab EXCEPT ![t] = s]
  PROVE  OneScreen' = OneScreen /\ \A u \in Tabs : tab'[u].open = tab[u].open
  <1>1. \A u \in Tabs : tab'[u] = IF u = t THEN s ELSE tab[u]
    BY DEF ExportsTypeOK
  <1>2. \A u \in Tabs : tab'[u].open = tab[u].open
    BY <1>1
  <1>3. {u \in Tabs : tab'[u].open} = {u \in Tabs : tab[u].open}
    BY <1>2
  <1> QED BY <1>2, <1>3 DEF OneScreen

LEMMA OneOpen ==
  ASSUME OneScreen, NEW t \in Tabs, NEW u \in Tabs, tab[t].open, tab[u].open
  PROVE  t = u
  <1> DEFINE Open == {v \in Tabs : tab[v].open}
  <1>1. IsFiniteSet(Open)
    BY ExportsAssumption, FS_Subset
  <1>2. t \in Open /\ u \in Open /\ Cardinality(Open) <= 1
    BY DEF OneScreen
  <1> HIDE DEF Open
  <1>3. CASE Cardinality(Open) = 0
    BY <1>1, <1>2, <1>3, FS_EmptySet
  <1>4. CASE Cardinality(Open) = 1
    <2>1. PICK v : Open = {v}
      BY <1>1, <1>4, FS_Singleton
    <2> QED BY <1>2, <2>1
  <1>5. Cardinality(Open) \in Nat
    BY <1>1, FS_CardinalityType
  <1> QED BY <1>2, <1>3, <1>4, <1>5

\* A screen that asks for something else, as it may, disturbs nothing.
LEMMA ScreenMoves ==
  ASSUME ExportsInv, NEW t \in Tabs, NEW s \in Screen, s.open = tab[t].open, ScreenGood(s),
         tab' = [tab EXCEPT ![t] = s], UNCHANGED <<artifact, point, changer, unmarked>>
  PROVE  ExportsInv'
  <1>1. \A u \in Tabs : tab'[u] = IF u = t THEN s ELSE tab[u]
    BY DEF ExportsInv, ExportsTypeOK
  <1>2. OneScreen' = OneScreen
    BY OpenForGood DEF ExportsInv
  <1>3. Known' = Known /\ Live' = Live
    BY DEF Known, Live
  <1>4. tab' \in [Tabs -> Screen]
    BY DEF ExportsInv, ExportsTypeOK, Screen
  <1>5. ExportsTypeOK'
    BY <1>3, <1>4 DEF ExportsInv, ExportsTypeOK, Screen
  <1>6. ASSUME NEW u \in Tabs PROVE ScreenGood(tab[u])'
    <2>1. PICK x : x = tab'[u] /\ ScreenGood(x)
      BY <1>1 DEF ExportsInv
    <2>2. /\ AskedOpen(tab[u])' /\ NumberedNext(tab[u])'
      BY <1>3, <2>1 DEF ScreenGood, AskedOpen, NumberedNext
    <2>3. NumberedLast(tab[u])'
      BY <1>2, <1>3, <2>1 DEF ScreenGood, NumberedLast
    <2>4. ReadIsFresh(tab[u])'
      BY <2>1 DEF ScreenGood, ReadIsFresh, Complete
    <2> QED BY <2>2, <2>3, <2>4 DEF ScreenGood
  <1>7. VersionsFollowRows' /\ FreshIsComplete'
    BY <1>3 DEF ExportsInv, VersionsFollowRows, FreshIsComplete
  <1>8. OneScreenNumbersApart'
    BY <1>2, <1>3 DEF ExportsInv, OneScreenNumbersApart
  <1> QED BY <1>5, <1>6, <1>7, <1>8 DEF ExportsInv

\* A request that has neither read nor numbered has nothing to answer for.
LEMMA AskingIsGood ==
  ASSUME NEW s, s.open, s.task.at \notin {"number", "insert"}
  PROVE  ScreenGood(s)
  BY DEF ScreenGood, AskedOpen, NumberedNext, NumberedLast, ReadIsFresh

LEMMA IdleIsGood ==
  ASSUME NEW s, s.task.at = "idle"
  PROVE  ScreenGood(s)
  BY DEF ScreenGood, AskedOpen, NumberedNext, NumberedLast, ReadIsFresh

\* What is good depends on the task alone, once the screen is the same.
LEMMA BoxIsNoMatter ==
  ASSUME NEW s, NEW r, ScreenGood(s), r.task = s.task, r.open = s.open
  PROVE  ScreenGood(r)
  BY DEF ScreenGood, AskedOpen, NumberedNext, NumberedLast, ReadIsFresh

LEMMA SendKeeps ==
  ASSUME ExportsInv, NEW t \in Tabs, NEW task \in Task,
         task.at \notin {"number", "insert"}, Send(t, task)
  PROVE  ExportsInv'
  <1> DEFINE s == [tab[t] EXCEPT !.task = task]
  <1>1. tab[t] \in Screen
    BY DEF ExportsInv, ExportsTypeOK, Screen
  <1>2. s \in Screen /\ s.open = tab[t].open /\ s.task = task
    BY <1>1 DEF Screen
  <1>3. /\ tab' = [tab EXCEPT ![t] = s] /\ tab[t].open
        /\ UNCHANGED <<artifact, point, changer, unmarked>>
    BY DEF Send
  <1> HIDE DEF s
  <1> QED BY <1>2, <1>3, AskingIsGood, ScreenMoves

LEMMA SetBoxKeeps ==
  ASSUME ExportsInv, NEW t \in Tabs, NEW i \in 0..MaxRows, SetBox(t, i)
  PROVE  ExportsInv'
  <1> DEFINE s == [tab[t] EXCEPT !.box = i]
  <1>1. tab[t] \in Screen /\ ScreenGood(tab[t])
    BY DEF ExportsInv, ExportsTypeOK, Screen
  <1>2. s \in Screen /\ s.open = tab[t].open /\ s.task = tab[t].task
    BY <1>1 DEF Screen
  <1>3. tab' = [tab EXCEPT ![t] = s] /\ UNCHANGED <<artifact, point, changer, unmarked>>
    BY DEF SetBox
  <1> HIDE DEF s
  <1> QED BY <1>1, <1>2, <1>3, BoxIsNoMatter, ScreenMoves

LEMMA ClickKeeps ==
  ASSUME ExportsInv, NEW t \in Tabs, Click(t)
  PROVE  ExportsInv'
  <1>1. Known \subseteq 1..MaxRows /\ MaxRows \in Nat
    BY ExportsAssumption DEF Known, Ids
  <1>2. ASSUME NEW type \in Kinds, Generate(t, type) PROVE ExportsInv'
    <2> DEFINE task == [NoTask EXCEPT !.at = "gather", !.type = type]
    <2>1. task \in Task /\ task.at = "gather"
      BY NoTaskFits DEF Task
    <2> QED BY <1>2, <2>1, SendKeeps DEF Generate
  <1>3. ASSUME NEW i \in 0..MaxRows, NEW wants \in {"draft", "final", "save", "delete"},
               Send(t, [NoTask EXCEPT !.at = "find", !.id = i, !.wants = wants])
        PROVE  ExportsInv'
    <2> DEFINE task == [NoTask EXCEPT !.at = "find", !.id = i, !.wants = wants]
    <2>1. task \in Task /\ task.at = "find"
      BY NoTaskFits DEF Task
    <2> QED BY <1>3, <2>1, SendKeeps
  <1>4. tab[t].box \in 0..MaxRows
    BY DEF ExportsInv, ExportsTypeOK
  <1>5. CASE Save(t)
    BY <1>3, <1>4, <1>5 DEF Save
  <1>6. ASSUME NEW i \in Known, Delete(t, i) PROVE ExportsInv'
    <2>1. i \in 0..MaxRows
      BY <1>1
    <2> QED BY <1>3, <1>6, <2>1 DEF Delete
  <1>7. ASSUME NEW i \in Known, NEW status \in {"draft", "final"}, MarkAs(t, i, status)
        PROVE  ExportsInv'
    <2>1. i \in 0..MaxRows
      BY <1>1
    <2> QED BY <1>3, <1>7, <2>1 DEF MarkAs
  <1>8. ASSUME NEW i \in Known \cup {0}, SetBox(t, i) PROVE ExportsInv'
    BY <1>1, <1>8, SetBoxKeeps
  <1> QED BY <1>2, <1>5, <1>6, <1>7, <1>8 DEF Click

-----------------------------------------------------------------------------
(* The steps of a request that only read.                                  *)

LEMMA AnsweredKeeps ==
  ASSUME ExportsInv, NEW t \in Tabs, NEW box \in 0..MaxRows,
         tab' = [tab EXCEPT ![t] = [tab[t] EXCEPT !.task = NoTask, !.box = box]],
         UNCHANGED <<artifact, point, changer, unmarked>>
  PROVE  ExportsInv'
  <1> DEFINE s == [tab[t] EXCEPT !.task = NoTask, !.box = box]
  <1>1. tab[t] \in Screen
    BY DEF ExportsInv, ExportsTypeOK, Screen
  <1>2. s \in Screen /\ s.open = tab[t].open /\ s.task = NoTask
    BY <1>1, NoTaskFits DEF Screen
  <1>3. NoTask.at = "idle"
    BY DEF NoTask
  <1>4. tab' = [tab EXCEPT ![t] = s]
    OBVIOUS
  <1> HIDE DEF s
  <1> QED BY <1>2, <1>3, <1>4, IdleIsGood, ScreenMoves

\* A task that is changed on its screen.
LEMMA TaskMoves ==
  ASSUME ExportsInv, NEW t \in Tabs, NEW task \in Task,
         ScreenGood([tab[t] EXCEPT !.task = task]),
         tab' = [tab EXCEPT ![t] = [tab[t] EXCEPT !.task = task]],
         UNCHANGED <<artifact, point, changer, unmarked>>
  PROVE  ExportsInv'
  <1> DEFINE s == [tab[t] EXCEPT !.task = task]
  <1>1. tab[t] \in Screen
    BY DEF ExportsInv, ExportsTypeOK, Screen
  <1>2. s \in Screen /\ s.open = tab[t].open
    BY <1>1 DEF Screen
  <1>3. ScreenGood(s) /\ tab' = [tab EXCEPT ![t] = s]
    OBVIOUS
  <1> HIDE DEF s
  <1> QED BY <1>2, <1>3, ScreenMoves

\* The screen of a task: its fields, and that it is open while the task is on.
LEMMA OnScreen ==
  ASSUME ExportsInv, NEW t \in Tabs
  PROVE  /\ tab[t] \in Screen /\ tab[t].task \in Task /\ ScreenGood(tab[t])
         /\ (tab[t].task.at # "idle" => tab[t].open)
         /\ \A task : LET s == [tab[t] EXCEPT !.task = task] IN s.task = task /\ s.open = tab[t].open
  <1>1. tab[t] \in Screen /\ ScreenGood(tab[t])
    BY DEF ExportsInv, ExportsTypeOK, Screen
  <1> QED BY <1>1 DEF Screen, ScreenGood, AskedOpen

\* The text read is the one there is.
LEMMA ReadKeeps ==
  ASSUME ExportsInv, NEW t \in Tabs, Read(t)
  PROVE  ExportsInv'
  <1> DEFINE task == [tab[t].task EXCEPT !.at = "number", !.point = point]
             s == [tab[t] EXCEPT !.task = task]
  <1>1. tab[t].task \in Task /\ tab[t].open
    BY OnScreen DEF Read, Stands
  <1>2. point \in [Points -> Wordings]
    BY DEF ExportsInv, ExportsTypeOK
  <1>3. task \in Task /\ task.at = "number" /\ task.point = point
    BY <1>1, <1>2 DEF Task
  <1>4. s.task = task /\ s.open = tab[t].open
    BY OnScreen
  <1>5. tab' = [tab EXCEPT ![t] = s] /\ UNCHANGED <<artifact, point, changer, unmarked>>
    BY OnScreen DEF Read, Screen, Task
  <1> HIDE DEF task
  <1>6. ScreenGood(s)
    BY <1>1, <1>3, <1>4
    DEF ScreenGood, AskedOpen, NumberedNext, NumberedLast, ReadIsFresh, Complete
  <1> QED BY <1>3, <1>5, <1>6, TaskMoves

\* The version follows every row that counts, and so, but for the summaries of
\* a case, every row there is of the kind.
LEMMA NumberKeeps ==
  ASSUME ExportsInv, NEW t \in Tabs, Number(t)
  PROVE  ExportsInv'
  <1> DEFINE type == tab[t].task.type
             rows == Counted(type)
             version == Highest(rows) + 1
             task == [tab[t].task EXCEPT !.at = "insert", !.version = version]
             s == [tab[t] EXCEPT !.task = task]
  <1>1. tab[t].task \in Task /\ tab[t].open /\ tab[t].task.at = "number" /\ ScreenGood(tab[t])
    BY OnScreen DEF Number, Stands
  <1>2. /\ artifact \in [Ids -> Row] /\ rows \subseteq Live /\ Live \subseteq Known /\ Known \subseteq Ids
        /\ Cardinality(Known) \in Nat
    <2>1. artifact \in [Ids -> Row] /\ Known \subseteq Ids /\ rows \subseteq Live /\ Live \subseteq Known
      BY DEF ExportsInv, ExportsTypeOK, Counted, Live, Known
    <2> QED BY <2>1, KnownIsFinite
  <1> HIDE DEF rows
  <1> DEFINE Follows == /\ Highest(rows) \in 0..MaxRows /\ Highest(rows) <= Cardinality(Known)
                        /\ \A i \in rows : artifact[i].version <= Highest(rows)
  <1>3. Follows
    <2>1. CASE rows = {}
      <3>1. Highest(rows) = 0
        BY <2>1 DEF Highest
      <3> QED BY <1>2, <2>1, <3>1, ExportsAssumption
    <2>2. CASE rows # {}
      <3>1. /\ Highest(rows) \in 0..MaxRows
            /\ \E i \in rows : artifact[i].version = Highest(rows)
            /\ \A i \in rows : artifact[i].version <= Highest(rows)
        BY <1>2, <2>2, HighestIsHighest
      <3>2. \A i \in rows : artifact[i].version <= Cardinality(Known)
        BY <1>2 DEF ExportsInv, VersionsFollowRows
      <3> QED BY <3>1, <3>2
    <2> QED BY <2>1, <2>2
  <1>4. version \in 0..(MaxRows + 1)
    BY <1>3, ExportsAssumption
  <1>5. /\ task \in Task /\ task.at = "insert" /\ task.version = version /\ task.type = type
        /\ task.stale = tab[t].task.stale /\ task.point = tab[t].task.point
    BY <1>1, <1>4 DEF Task
  <1>6. s.task = task /\ s.open = tab[t].open
    BY OnScreen
  <1>7. tab' = [tab EXCEPT ![t] = s] /\ UNCHANGED <<artifact, point, changer, unmarked>>
    BY OnScreen DEF Number, Screen, Task, rows
  <1>8. \A i \in Live : artifact[i].version \in Nat /\ (type # Summary /\ artifact[i].type = type => i \in rows)
    BY <1>2 DEF rows, Counted, Row
  <1> HIDE DEF task
  <1>9. AskedOpen(s) /\ NumberedNext(s)
    BY <1>1, <1>2, <1>3, <1>5, <1>6 DEF AskedOpen, NumberedNext
  <1>10. NumberedLast(s)
    BY <1>3, <1>5, <1>6, <1>8 DEF NumberedLast
  <1>11. ReadIsFresh(s)
    BY <1>1, <1>5, <1>6 DEF ScreenGood, ReadIsFresh
  <1> HIDE DEF s
  <1>12. ScreenGood(s)
    BY <1>9, <1>10, <1>11 DEF ScreenGood
  <1> QED BY <1>5, <1>7, <1>12, TaskMoves DEF s

LEMMA FindKeeps ==
  ASSUME ExportsInv, NEW t \in Tabs, Find(t)
  PROVE  ExportsInv'
  <1> DEFINE task == [tab[t].task EXCEPT !.at = "write"]
             s == [tab[t] EXCEPT !.task = task]
  <1>1. tab[t].task \in Task /\ tab[t].open
    BY OnScreen DEF Find, Stands
  <1>2. task \in Task /\ task.at = "write"
    BY <1>1 DEF Task
  <1>3. s.task = task /\ s.open = tab[t].open
    BY OnScreen
  <1>4. tab' = [tab EXCEPT ![t] = s] /\ UNCHANGED <<artifact, point, changer, unmarked>>
    BY OnScreen DEF Find, Proceed, Screen, Task
  <1> HIDE DEF task
  <1>5. ScreenGood(s)
    BY <1>1, <1>2, <1>3, AskingIsGood
  <1> QED BY <1>2, <1>4, <1>5, TaskMoves

LEMMA AnswerKeeps ==
  ASSUME ExportsInv, NEW t \in Tabs, Answered(t) \/ Unanswered(t)
  PROVE  ExportsInv'
  <1>1. tab[t] \in Screen /\ tab \in [Tabs -> Screen]
    BY DEF ExportsInv, ExportsTypeOK, Screen
  <1>2. 0 \in 0..MaxRows /\ tab[t].box \in 0..MaxRows
    BY <1>1, ExportsAssumption DEF Screen
  <1>3. CASE Answered(t)
    <2> DEFINE box == IF tab[t].task.wants = "save" THEN 0 ELSE tab[t].box
    <2>1. box \in 0..MaxRows
      BY <1>2
    <2>2. /\ tab' = [tab EXCEPT ![t] = [tab[t] EXCEPT !.task = NoTask, !.box = box]]
          /\ UNCHANGED <<artifact, point, changer, unmarked>>
      BY <1>1, <1>3 DEF Answered, Screen
    <2> HIDE DEF box
    <2> QED BY <2>1, <2>2, AnsweredKeeps
  <1>4. CASE Unanswered(t)
    <2> DEFINE s == [tab[t] EXCEPT !.task = NoTask]
    <2>1. s \in Screen /\ s.task = NoTask /\ s.open = tab[t].open /\ NoTask.at = "idle"
      BY <1>1, NoTaskFits DEF Screen, NoTask
    <2>2. tab' = [tab EXCEPT ![t] = s] /\ UNCHANGED <<artifact, point, changer, unmarked>>
      BY <1>4 DEF Unanswered
    <2> HIDE DEF s
    <2> QED BY <2>1, <2>2, IdleIsGood, ScreenMoves
  <1> QED BY <1>3, <1>4

-----------------------------------------------------------------------------
(* The steps that write the artifacts table.                               *)

\* A row of the table that is not there yet comes next.
LEMMA InsertMakes ==
  ASSUME ExportsInv, NEW t \in Tabs, Insert(t)
  PROVE  LET i == Cardinality(Known) + 1
             task == tab[t].task IN
         /\ i \in Ids /\ i \notin Known
         /\ artifact' \in [Ids -> Row]
         /\ artifact'[i].type = task.type /\ artifact'[i].life = "draft"
         /\ artifact'[i].version = task.version
         /\ artifact'[i].stale = task.stale /\ artifact'[i].point = task.point
         /\ \A k \in Ids \ {i} : artifact'[k] = artifact[k]
         /\ Known' = 1..i /\ Cardinality(Known') = i /\ Live' = Live \cup {i}
  <1> DEFINE n == Cardinality(Known)
             i == n + 1
             task == tab[t].task
             row == [type |-> task.type, life |-> "draft", version |-> task.version,
                     wording |-> "drafted", stale |-> task.stale, point |-> task.point]
  <1>1. n \in Nat /\ Known = 1..n /\ artifact \in [Ids -> Row]
    BY KnownIsFinite DEF ExportsInv, ExportsTypeOK
  <1>2. i \in Ids /\ artifact' = [artifact EXCEPT ![i] = row] /\ task.at = "insert"
    BY DEF Insert, Stands
  <1>3. task \in Task /\ task.version <= i
    BY <1>1, <1>2, OnScreen DEF ScreenGood, NumberedNext
  <1>4. row \in Row
    BY <1>2, <1>3, ExportsAssumption DEF Task, Row, Ids
  <1>5. /\ row.type = task.type /\ row.life = "draft" /\ row.version = task.version
        /\ row.stale = task.stale /\ row.point = task.point
    OBVIOUS
  <1> HIDE DEF row, task
  <1>6. /\ artifact' \in [Ids -> Row]
        /\ \A k \in Ids : artifact'[k] = IF k = i THEN row ELSE artifact[k]
    BY <1>1, <1>2, <1>4
  <1>7. i \notin Known
    BY <1>1
  <1> HIDE DEF i
  <1>8. Known' = Known \cup {i} /\ Live' = Live \cup {i}
    BY <1>2, <1>5, <1>6 DEF Known, Live
  <1>9. Known' = 1..i
    BY <1>1, <1>8 DEF i
  <1>10. Cardinality(Known') = i
    BY <1>1, <1>9, FS_Interval DEF i
  <1> QED BY <1>2, <1>5, <1>6, <1>7, <1>8, <1>9, <1>10 DEF i, n, task

LEMMA DoneMoves ==
  ASSUME ExportsInv, NEW t \in Tabs, NEW wants \in {"draft", "final", "save", "delete"},
         Done(t, wants), tab[t].open
  PROVE  \E s \in Screen :
           /\ tab' = [tab EXCEPT ![t] = s] /\ s.open = tab[t].open /\ s.task.at = "done"
  <1> DEFINE task == [NoTask EXCEPT !.at = "done", !.wants = wants]
             s == [tab[t] EXCEPT !.task = task]
  <1>1. task \in Task /\ task.at = "done"
    BY NoTaskFits DEF Task
  <1>2. tab[t] \in Screen
    BY OnScreen
  <1>3. tab' = [tab EXCEPT ![t] = s]
    BY DEF Done
  <1> HIDE DEF task
  <1>4. s \in Screen /\ s.open = tab[t].open /\ s.task = task
    BY <1>1, <1>2 DEF Screen
  <1> QED BY <1>1, <1>3, <1>4

LEMMA InsertKeeps ==
  ASSUME ExportsInv, NEW t \in Tabs, Insert(t)
  PROVE  ExportsInv'
  <1> DEFINE i == Cardinality(Known) + 1
             task == tab[t].task
  <1>1. /\ i \in Ids /\ i \notin Known
        /\ artifact' \in [Ids -> Row]
        /\ artifact'[i].type = task.type /\ artifact'[i].life = "draft"
        /\ artifact'[i].version = task.version
        /\ artifact'[i].stale = task.stale /\ artifact'[i].point = task.point
        /\ \A k \in Ids \ {i} : artifact'[k] = artifact[k]
        /\ Known' = 1..i /\ Cardinality(Known') = i /\ Live' = Live \cup {i}
    BY InsertMakes
  <1>2. /\ tab[t].open /\ task.at = "insert" /\ ScreenGood(tab[t]) /\ task \in Task
        /\ UNCHANGED <<point, changer, unmarked>>
    BY OnScreen DEF Insert, Stands
  <1>3. Cardinality(Known) \in Nat /\ Live \subseteq Ids /\ Live \subseteq Known /\ Known = 1..Cardinality(Known)
    BY KnownIsFinite DEF Live, Known, ExportsInv, ExportsTypeOK
  <1>4. PICK s \in Screen :
          /\ tab' = [tab EXCEPT ![t] = s] /\ s.open = tab[t].open /\ s.task.at = "done"
    BY <1>2, DoneMoves DEF Insert
  <1>5. \A u \in Tabs : tab'[u] = IF u = t THEN s ELSE tab[u]
    BY <1>4 DEF ExportsInv, ExportsTypeOK
  <1>6. tab' \in [Tabs -> Screen]
    BY <1>4 DEF ExportsInv, ExportsTypeOK, Screen
  <1>7. OneScreen' = OneScreen
    BY <1>4, OpenForGood DEF ExportsInv
  <1>8. ExportsTypeOK'
    BY <1>1, <1>2, <1>6 DEF ExportsInv, ExportsTypeOK, Screen
  <1> HIDE DEF i
  <1>9. ASSUME NEW u \in Tabs PROVE ScreenGood(tab[u])'
    <2>1. CASE u = t
      <3>1. tab'[u].open /\ tab'[u].task.at = "done"
        BY <1>2, <1>4, <1>5, <2>1
      <3> QED BY <3>1 DEF ScreenGood, AskedOpen, NumberedNext, NumberedLast, ReadIsFresh
    <2>2. CASE u # t
      <3>1. PICK r : r = tab[u] /\ tab'[u] = r /\ ScreenGood(r)
        BY <1>5, <2>2 DEF ExportsInv
      <3>2. r.task.version \in Nat
        BY <3>1, OnScreen DEF Task
      <3>3. AskedOpen(tab[u])' /\ ReadIsFresh(tab[u])'
        BY <1>2, <3>1 DEF ScreenGood, AskedOpen, ReadIsFresh, Complete
      <3>4. NumberedNext(tab[u])'
        BY <1>1, <1>3, <3>1, <3>2 DEF ScreenGood, NumberedNext, i
      <3>5. OneScreen => r.task.at # "insert"
        BY <1>2, <2>2, <3>1, OneOpen DEF ScreenGood, AskedOpen
      <3>6. NumberedLast(tab[u])'
        BY <1>7, <3>1, <3>5 DEF NumberedLast
      <3> QED BY <3>3, <3>4, <3>6 DEF ScreenGood
    <2> QED BY <2>1, <2>2
  <1>10. VersionsFollowRows'
    <2>1. SUFFICES ASSUME NEW k \in 1..i PROVE artifact'[k].version <= i
      BY <1>1 DEF VersionsFollowRows
    <2>2. CASE k = i
      BY <1>1, <1>2, <2>2 DEF i, ScreenGood, NumberedNext
    <2>3. CASE k # i
      <3>1. k \in Known /\ k \in Ids \ {i}
        BY <1>1, <1>3, <2>3 DEF i, Known
      <3>2. artifact'[k].version = artifact[k].version /\ artifact[k].version \in Nat
        BY <1>1, <3>1 DEF ExportsInv, ExportsTypeOK, Row
      <3>3. artifact[k].version <= Cardinality(Known)
        BY <3>1 DEF ExportsInv, VersionsFollowRows
      <3> QED BY <1>3, <3>2, <3>3 DEF i
    <2> QED BY <2>2, <2>3
  <1>11. OneScreenNumbersApart'
    <2>1. SUFFICES ASSUME OneScreen, NEW j \in Live \cup {i}, NEW k \in Live \cup {i},
                          artifact'[j].type = artifact'[k].type, artifact'[j].type # Summary,
                          artifact'[j].version = artifact'[k].version, j # k
                   PROVE  FALSE
      BY <1>1, <1>7 DEF OneScreenNumbersApart
    <2>2. \A l \in Live : /\ artifact'[l] = artifact[l] /\ artifact[l].version \in Nat /\ l # i
                          /\ (task.type # Summary /\ artifact[l].type = task.type =>
                                artifact[l].version < task.version)
      <3>1. \A l \in Live : task.type # Summary /\ artifact[l].type = task.type =>
                              artifact[l].version < task.version
        BY <1>2, <2>1 DEF ScreenGood, NumberedLast
      <3>2. \A l \in Live : artifact'[l] = artifact[l] /\ l # i
        BY <1>1, <1>3
      <3>3. \A l \in Live : artifact[l].version \in Nat
        BY <1>3 DEF ExportsInv, ExportsTypeOK, Row
      <3> QED BY <3>1, <3>2, <3>3
    <2>3. CASE j \in Live /\ k \in Live
      BY <2>1, <2>2, <2>3 DEF ExportsInv, OneScreenNumbersApart
    <2>4. task.version \in Nat
      BY <1>2 DEF Task
    <2>5. CASE j = i
      BY <1>1, <2>1, <2>2, <2>4, <2>5
    <2>6. CASE k = i
      BY <1>1, <2>1, <2>2, <2>4, <2>6
    <2> QED BY <2>1, <2>3, <2>5, <2>6
  <1>12. FreshIsComplete'
    <2>1. SUFFICES ASSUME NEW k \in Live \cup {i}, artifact'[k].stale = "no", changer = {}
                   PROVE  \A p \in Points \ unmarked : point[p] # "absent" => artifact'[k].point[p] = point[p]
      BY <1>1, <1>2 DEF FreshIsComplete
    <2>2. CASE k = i
      BY <1>1, <1>2, <2>1, <2>2 DEF ScreenGood, ReadIsFresh, Complete
    <2>3. CASE k # i
      <3>1. artifact'[k] = artifact[k] /\ k \in Live
        BY <1>1, <1>3, <2>3
      <3> QED BY <2>1, <3>1 DEF ExportsInv, FreshIsComplete
    <2> QED BY <2>2, <2>3
  <1> QED BY <1>8, <1>9, <1>10, <1>11, <1>12 DEF ExportsInv

\* A write on a row leaves every other, and of its own only what it sets.
LEMMA WriteSets ==
  ASSUME ExportsInv, NEW t \in Tabs, Write(t)
  PROVE  /\ artifact' \in [Ids -> Row] /\ Known' = Known /\ Live' \subseteq Live
         /\ \A k \in Known : artifact'[k].version <= artifact[k].version
         /\ \A k \in Live' : /\ artifact'[k].type = artifact[k].type
                             /\ artifact'[k].version = artifact[k].version
                             /\ artifact'[k].stale = artifact[k].stale
                             /\ artifact'[k].point = artifact[k].point
         /\ \A k \in Ids : artifact'[k].wording # artifact[k].wording /\ artifact'[k].life # "deleted" =>
                             artifact'[k] = [artifact[k] EXCEPT !.wording = "edited"]
  <1> DEFINE i == tab[t].task.id
             wants == tab[t].task.wants
             row == IF wants = "delete" THEN [Unmade EXCEPT !.life = "deleted"]
                                        ELSE Patch(artifact[i], wants)
  <1>1. artifact \in [Ids -> Row] /\ wants \in {"draft", "final", "save", "delete"}
    BY OnScreen DEF ExportsInv, ExportsTypeOK, Task
  <1>2. Live \subseteq Known /\ Known \subseteq Ids
    BY DEF Live, Known
  <1>3. CASE i \notin Live
    <2>1. artifact' = artifact
      BY <1>3 DEF Write
    <2>2. \A k \in Ids : artifact[k].version <= artifact[k].version
      BY <1>1 DEF Row
    <2> QED BY <1>1, <1>2, <2>1, <2>2 DEF Known, Live
  <1>4. CASE i \in Live
    <2>1. i \in Ids /\ artifact[i] \in Row /\ artifact[i].life \in {"draft", "final"}
          /\ artifact[i].version \in Nat
      BY <1>1, <1>4 DEF Live, Row
    <2>2. artifact' = [artifact EXCEPT ![i] = row]
      BY <1>4 DEF Write
    <2>3. CASE wants = "delete"
      <3>1. row \in Row /\ row.life = "deleted" /\ row.version = 0
        BY <2>3, NoTaskFits DEF Row, Unmade
      <3> HIDE DEF row, i
      <3>2. /\ artifact' \in [Ids -> Row]
            /\ \A k \in Ids : artifact'[k] = IF k = i THEN row ELSE artifact[k]
        BY <1>1, <2>1, <2>2, <3>1
      <3>3. Known' = Known /\ Live' = Live \ {i}
        BY <2>1, <3>1, <3>2 DEF Known, Live
      <3>4. \A k \in Known : artifact'[k].version <= artifact[k].version
        BY <1>1, <1>2, <2>1, <3>1, <3>2 DEF Row
      <3> QED BY <1>2, <3>1, <3>2, <3>3, <3>4
    <2>4. CASE wants # "delete"
      <3>1. row = Patch(artifact[i], wants)
        BY <2>4
      <3> HIDE DEF row
      <3>2. /\ row \in Row /\ row.life \in {"draft", "final"}
            /\ row.type = artifact[i].type /\ row.version = artifact[i].version
            /\ row.stale = artifact[i].stale /\ row.point = artifact[i].point
        BY <1>1, <2>1, <2>4, <3>1 DEF Patch, Row
      <3>3. row.wording # artifact[i].wording => row = [artifact[i] EXCEPT !.wording = "edited"]
        BY <2>1, <3>1 DEF Patch, Row
      <3> HIDE DEF i
      <3>4. /\ artifact' \in [Ids -> Row]
            /\ \A k \in Ids : artifact'[k] = IF k = i THEN row ELSE artifact[k]
        BY <1>1, <2>1, <2>2, <3>2
      <3>5. Known' = Known /\ Live' = Live
        BY <2>1, <3>2, <3>4 DEF Known, Live
      <3>6. \A k \in Known : artifact'[k].version <= artifact[k].version
        BY <1>1, <1>2, <3>2, <3>4 DEF Row
      <3> QED BY <1>2, <3>2, <3>3, <3>4, <3>5, <3>6
    <2> QED BY <2>3, <2>4
  <1> QED BY <1>3, <1>4

LEMMA WriteKeeps ==
  ASSUME ExportsInv, NEW t \in Tabs, Write(t)
  PROVE  ExportsInv'
  <1>1. /\ artifact' \in [Ids -> Row] /\ Known' = Known /\ Live' \subseteq Live
        /\ \A k \in Known : artifact'[k].version <= artifact[k].version
        /\ \A k \in Live' : /\ artifact'[k].type = artifact[k].type
                            /\ artifact'[k].version = artifact[k].version
                            /\ artifact'[k].stale = artifact[k].stale
                            /\ artifact'[k].point = artifact[k].point
    BY WriteSets
  <1>2. tab[t].open /\ tab[t].task \in Task /\ UNCHANGED <<point, changer, unmarked>>
    BY OnScreen DEF Write, Stands
  <1>3. PICK s \in Screen :
          /\ tab' = [tab EXCEPT ![t] = s] /\ s.open = tab[t].open /\ s.task.at = "done"
    <2>1. tab[t].task.wants \in {"draft", "final", "save", "delete"}
      BY <1>2 DEF Task
    <2> QED BY <1>2, <2>1, DoneMoves DEF Write
  <1>4. \A u \in Tabs : tab'[u] = IF u = t THEN s ELSE tab[u]
    BY <1>3 DEF ExportsInv, ExportsTypeOK
  <1>5. tab' \in [Tabs -> Screen]
    BY <1>3 DEF ExportsInv, ExportsTypeOK, Screen
  <1>6. OneScreen' = OneScreen
    BY <1>3, OpenForGood DEF ExportsInv
  <1>7. ExportsTypeOK'
    BY <1>1, <1>2, <1>5 DEF ExportsInv, ExportsTypeOK, Screen
  <1>8. ASSUME NEW u \in Tabs PROVE ScreenGood(tab[u])'
    <2>1. CASE u = t
      <3>1. tab'[u].open /\ tab'[u].task.at = "done"
        BY <1>2, <1>3, <1>4, <2>1
      <3> QED BY <3>1 DEF ScreenGood, AskedOpen, NumberedNext, NumberedLast, ReadIsFresh
    <2>2. CASE u # t
      <3>1. PICK r : r = tab[u] /\ tab'[u] = r /\ ScreenGood(r)
        BY <1>4, <2>2 DEF ExportsInv
      <3>2. AskedOpen(tab[u])' /\ ReadIsFresh(tab[u])' /\ NumberedNext(tab[u])'
        BY <1>1, <1>2, <3>1 DEF ScreenGood, AskedOpen, ReadIsFresh, Complete, NumberedNext
      <3>3. NumberedLast(tab[u])'
        BY <1>1, <1>6, <3>1 DEF ScreenGood, NumberedLast
      <3> QED BY <3>2, <3>3 DEF ScreenGood
    <2> QED BY <2>1, <2>2
  <1>9. VersionsFollowRows'
    <2>1. SUFFICES ASSUME NEW k \in Known PROVE artifact'[k].version <= Cardinality(Known)
      BY <1>1 DEF VersionsFollowRows
    <2>2. artifact'[k].version \in Nat /\ artifact[k].version \in Nat /\ Cardinality(Known) \in Nat
      BY <1>1, KnownIsFinite DEF ExportsInv, ExportsTypeOK, Row
    <2>3. artifact'[k].version <= artifact[k].version /\ artifact[k].version <= Cardinality(Known)
      BY <1>1 DEF ExportsInv, VersionsFollowRows
    <2> QED BY <2>2, <2>3
  <1>10. OneScreenNumbersApart'
    BY <1>1, <1>6 DEF ExportsInv, OneScreenNumbersApart
  <1>11. FreshIsComplete'
    BY <1>1, <1>2 DEF ExportsInv, FreshIsComplete
  <1> QED BY <1>7, <1>8, <1>9, <1>10, <1>11 DEF ExportsInv

-----------------------------------------------------------------------------
(* The requests that write the process.                                    *)

\* Nothing but what the texts are held against changes.
LEMMA PointMoves ==
  ASSUME ExportsInv, UNCHANGED <<artifact, tab>>,
         point' \in [Points -> Wordings], changer' \subseteq Changers,
         unmarked' \subseteq Points, unmarked \subseteq unmarked',
         changer' # {} \/ (/\ changer = {}
                          /\ \A p \in Points \ unmarked' : point'[p] \in {point[p], "absent"})
  PROVE  ExportsInv'
  <1>1. Known' = Known /\ Live' = Live /\ OneScreen' = OneScreen
    BY DEF Known, Live, OneScreen
  <1>2. ExportsTypeOK'
    BY <1>1 DEF ExportsInv, ExportsTypeOK
  <1>3. ASSUME changer' = {}, NEW text, Complete(text) PROVE Complete(text)'
    <2>1. SUFFICES ASSUME NEW p \in Points, p \notin unmarked', point'[p] # "absent"
                   PROVE  text[p] = point'[p]
      BY DEF Complete
    <2>2. point'[p] = point[p] /\ p \notin unmarked
      BY <1>3, <2>1
    <2> QED BY <1>3, <2>1, <2>2 DEF Complete
  <1>4. ASSUME NEW t \in Tabs PROVE ScreenGood(tab[t])'
    <2>1. PICK r : r = tab[t] /\ tab'[t] = r /\ ScreenGood(r)
      BY DEF ExportsInv
    <2>2. AskedOpen(tab[t])' /\ NumberedNext(tab[t])' /\ NumberedLast(tab[t])'
      BY <1>1, <2>1 DEF ScreenGood, AskedOpen, NumberedNext, NumberedLast
    <2>3. ReadIsFresh(tab[t])'
      BY <1>3, <2>1 DEF ScreenGood, ReadIsFresh
    <2> QED BY <2>2, <2>3 DEF ScreenGood
  <1>5. VersionsFollowRows' /\ OneScreenNumbersApart'
    BY <1>1 DEF ExportsInv, VersionsFollowRows, OneScreenNumbersApart
  <1>6. FreshIsComplete'
    <2>1. SUFFICES ASSUME NEW i \in Live, artifact[i].stale = "no", changer' = {},
                          NEW p \in Points, p \notin unmarked', point'[p] # "absent"
                   PROVE  artifact[i].point[p] = point'[p]
      BY <1>1 DEF FreshIsComplete
    <2>2. point'[p] = point[p] /\ p \notin unmarked /\ changer = {}
      BY <2>1
    <2> QED BY <2>1, <2>2 DEF ExportsInv, FreshIsComplete
  <1> QED BY <1>2, <1>4, <1>5, <1>6 DEF ExportsInv

LEMMA AddKeeps ==
  ASSUME ExportsInv, NEW c \in Changers, NEW p \in Points, Add(c, p)
  PROVE  ExportsInv'
  <1>1. point \in [Points -> Wordings] /\ changer \subseteq Changers
    BY DEF ExportsInv, ExportsTypeOK
  <1>2. point' \in [Points -> Wordings]
    BY <1>1 DEF Add, Wordings
  <1>3. changer' = changer \cup {c}
    BY DEF Add, Marks
  <1>4. unmarked \subseteq Points
    BY DEF ExportsInv, ExportsTypeOK
  <1> QED BY <1>1, <1>2, <1>3, <1>4, PointMoves DEF Add

LEMMA RewordKeeps ==
  ASSUME ExportsInv, NEW c \in Changers, NEW p \in Points, NEW wording \in {"first", "second"},
         Reword(c, p, wording)
  PROVE  ExportsInv'
  <1>1. point \in [Points -> Wordings] /\ changer \subseteq Changers
    BY DEF ExportsInv, ExportsTypeOK
  <1>2. point' \in [Points -> Wordings]
    BY <1>1 DEF Reword, Wordings
  <1>3. changer' = changer \cup {c}
    BY DEF Reword, Marks
  <1>4. unmarked \subseteq Points
    BY DEF ExportsInv, ExportsTypeOK
  <1> QED BY <1>1, <1>2, <1>3, <1>4, PointMoves DEF Reword

LEMMA RemoveKeeps ==
  ASSUME ExportsInv, NEW c \in Changers, NEW p \in Points, Remove(c, p)
  PROVE  ExportsInv'
  <1>1. point \in [Points -> Wordings] /\ changer \subseteq Changers
    BY DEF ExportsInv, ExportsTypeOK
  <1>2. point' \in [Points -> Wordings] /\ \A q \in Points : point'[q] \in {point[q], "absent"}
    BY <1>1 DEF Remove, Wordings
  <1>3. changer' = changer /\ UNCHANGED <<artifact, unmarked, tab>>
    BY DEF Remove
  <1>4. unmarked \subseteq Points
    BY DEF ExportsInv, ExportsTypeOK
  <1> QED BY <1>1, <1>2, <1>3, <1>4, PointMoves

\* The one point that is new is set down as unmarked.
LEMMA ProposeKeeps ==
  ASSUME ExportsInv, NEW p \in Points, Propose(p)
  PROVE  ExportsInv'
  <1>1. point \in [Points -> Wordings] /\ changer \subseteq Changers /\ unmarked \subseteq Points
    BY DEF ExportsInv, ExportsTypeOK
  <1>2. /\ point' = [point EXCEPT ![p] = "first"] /\ unmarked' = unmarked \cup {p}
        /\ changer' = changer /\ UNCHANGED <<artifact, tab>>
    BY DEF Propose
  <1>3. point' \in [Points -> Wordings] /\ \A q \in Points \ unmarked' : point'[q] = point[q]
    BY <1>1, <1>2 DEF Wordings
  <1>4. unmarked' \subseteq Points /\ unmarked \subseteq unmarked' /\ changer' \subseteq Changers
    BY <1>1, <1>2
  <1>5. changer' # {} \/ (changer = {} /\ \A q \in Points \ unmarked' : point'[q] \in {point[q], "absent"})
    BY <1>2, <1>3
  <1> QED BY <1>2, <1>3, <1>4, <1>5, PointMoves

\* The mark reaches every row there is, and the requests it does not reach have
\* read the process as it is.
LEMMA MarkStaleKeeps ==
  ASSUME ExportsInv, NEW c \in Changers, MarkStale(c)
  PROVE  ExportsInv'
  <1>1. /\ artifact \in [Ids -> Row] /\ tab \in [Tabs -> Screen] /\ changer \subseteq Changers
        /\ point \in [Points -> Wordings] /\ Known = 1..Cardinality(Known)
    BY DEF ExportsInv, ExportsTypeOK, Screen
  <1>2. /\ artifact' = [i \in Ids |-> IF i \in Live THEN [artifact[i] EXCEPT !.stale = "marked"] ELSE artifact[i]]
        /\ tab' = [t \in Tabs |-> IF Outdated(tab[t].task) THEN [tab[t] EXCEPT !.task.stale = "missed"] ELSE tab[t]]
        /\ changer' = changer \ {c} /\ point' = point /\ unmarked' = {}
    BY DEF MarkStale
  <1>3. ASSUME NEW i \in Ids
        PROVE  /\ artifact'[i] \in Row /\ artifact'[i].type = artifact[i].type
               /\ artifact'[i].life = artifact[i].life /\ artifact'[i].version = artifact[i].version
               /\ (i \in Live => artifact'[i].stale = "marked")
               /\ artifact'[i].wording = artifact[i].wording
    BY <1>1, <1>2 DEF Row
  <1>4. artifact' \in [Ids -> Row]
    BY <1>2, <1>3
  <1>5. Known' = Known /\ Live' = Live
    BY <1>3 DEF Known, Live
  <1>6. ASSUME NEW t \in Tabs
        PROVE  /\ tab'[t] \in Screen /\ tab'[t].open = tab[t].open
               /\ tab'[t].task.at = tab[t].task.at /\ tab'[t].task.type = tab[t].task.type
               /\ tab'[t].task.version = tab[t].task.version /\ tab'[t].task.point = tab[t].task.point
               /\ (Outdated(tab[t].task) => tab'[t].task.stale = "missed")
    <2>1. CASE Outdated(tab[t].task)
      <3> DEFINE task == [tab[t].task EXCEPT !.stale = "missed"]
                 s == [tab[t] EXCEPT !.task = task]
      <3>1. tab[t] \in Screen /\ tab[t].task \in Task
        BY OnScreen
      <3>2. tab'[t] = s
        BY <1>2, <2>1, <3>1 DEF Screen, Task
      <3>3. /\ task \in Task /\ task.at = tab[t].task.at /\ task.type = tab[t].task.type
            /\ task.version = tab[t].task.version /\ task.point = tab[t].task.point
            /\ task.stale = "missed"
        BY <3>1 DEF Task
      <3> HIDE DEF task
      <3>4. s \in Screen /\ s.open = tab[t].open /\ s.task = task
        BY <3>1, <3>3 DEF Screen
      <3> QED BY <3>2, <3>3, <3>4
    <2>2. CASE ~Outdated(tab[t].task)
      BY <1>1, <1>2, <2>2
    <2> QED BY <2>1, <2>2
  <1>7. tab' \in [Tabs -> Screen]
    BY <1>2, <1>6
  <1>8. OneScreen' = OneScreen
    <2>1. {t \in Tabs : tab'[t].open} = {t \in Tabs : tab[t].open}
      BY <1>6
    <2> QED BY <2>1 DEF OneScreen
  <1>9. ExportsTypeOK'
    BY <1>1, <1>2, <1>4, <1>5, <1>7 DEF ExportsTypeOK, Screen
  <1>10. ASSUME NEW t \in Tabs PROVE ScreenGood(tab[t])'
    <2>1. ScreenGood(tab[t])
      BY DEF ExportsInv
    <2>2. AskedOpen(tab[t])' /\ NumberedNext(tab[t])'
      BY <1>5, <1>6, <2>1 DEF ScreenGood, AskedOpen, NumberedNext
    <2>3. NumberedLast(tab[t])'
      <3>1. \A i \in Live : artifact'[i].type = artifact[i].type /\ artifact'[i].version = artifact[i].version
        BY <1>3 DEF Live
      <3> QED BY <1>5, <1>6, <1>8, <2>1, <3>1 DEF ScreenGood, NumberedLast
    <2>4. ReadIsFresh(tab[t])'
      BY <1>2, <1>6 DEF ReadIsFresh, Complete, Outdated
    <2> QED BY <2>2, <2>3, <2>4 DEF ScreenGood
  <1>11. VersionsFollowRows'
    BY <1>3, <1>5, KnownIsFinite DEF ExportsInv, VersionsFollowRows
  <1>12. OneScreenNumbersApart'
    <2>1. \A i \in Live : artifact'[i].type = artifact[i].type /\ artifact'[i].version = artifact[i].version
      BY <1>3 DEF Live
    <2> QED BY <1>5, <1>8, <2>1 DEF ExportsInv, OneScreenNumbersApart
  <1>13. FreshIsComplete'
    <2>1. \A i \in Live : artifact'[i].stale = "marked"
      BY <1>3 DEF Live
    <2> QED BY <1>5, <2>1 DEF FreshIsComplete
  <1> QED BY <1>9, <1>10, <1>11, <1>12, <1>13 DEF ExportsInv

-----------------------------------------------------------------------------
LEMMA ExportsStarts ==
  ASSUME ExportsInit
  PROVE  ExportsInv
  <1>1. PICK opened \in SUBSET Tabs :
          tab = [t \in Tabs |-> [open |-> t \in opened, box |-> 0, task |-> NoTask]]
    BY DEF ExportsInit
  <1>2. /\ artifact = [i \in Ids |-> Unmade] /\ point = [p \in Points |-> "absent"]
        /\ changer = {} /\ unmarked = {}
    BY DEF ExportsInit
  <1>3. Known = {} /\ Live = {}
    BY <1>2 DEF Known, Live, Unmade
  <1>4. Cardinality(Known) = 0 /\ Known = 1..Cardinality(Known)
    BY <1>3, FS_EmptySet
  <1>5. tab \in [Tabs -> Screen]
    BY <1>1, NoTaskFits, ExportsAssumption DEF Screen
  <1>6. point \in [Points -> Wordings] /\ artifact \in [Ids -> Row]
    BY <1>2, NoTaskFits DEF Wordings
  <1>7. ExportsTypeOK
    BY <1>2, <1>4, <1>5, <1>6 DEF ExportsTypeOK, Screen
  <1>8. \A t \in Tabs : ScreenGood(tab[t])
    <2>1. \A t \in Tabs : tab[t].task.at = "idle"
      BY <1>1 DEF NoTask
    <2> QED BY <2>1, IdleIsGood
  <1> QED
    BY <1>3, <1>7, <1>8 DEF ExportsInv, VersionsFollowRows, OneScreenNumbersApart, FreshIsComplete

LEMMA RequestKeeps ==
  ASSUME ExportsInv, NEW t \in Tabs, RequestStep(t)
  PROVE  ExportsInv'
  <1>1. CASE Gather(t) \/ BuildPack(t)
    BY <1>1, ReadKeeps DEF Gather, BuildPack
  <1> QED
    BY <1>1, NumberKeeps, InsertKeeps, FindKeeps, WriteKeeps, AnswerKeeps DEF RequestStep

LEMMA ExportsSteps ==
  ASSUME ExportsInv, [ExportsNext]_exportVars
  PROVE  ExportsInv'
  <1>1. ASSUME NEW t \in Tabs, Click(t) \/ RequestStep(t) \/ Unanswered(t) PROVE ExportsInv'
    BY <1>1, ClickKeeps, RequestKeeps, AnswerKeeps
  <1>2. CASE RecordNext
    BY <1>2, ProposeKeeps, AddKeeps, RewordKeeps, RemoveKeeps, MarkStaleKeeps DEF RecordNext
  <1>3. CASE UNCHANGED exportVars
    <2>1. UNCHANGED <<artifact, point, changer, unmarked, tab>>
      BY <1>3 DEF exportVars
    <2>2. \A p \in Points : point'[p] \in {point[p], "absent"}
      BY <2>1
    <2>3. point' \in [Points -> Wordings] /\ changer' \subseteq Changers /\ unmarked' \subseteq Points
      BY <2>1 DEF ExportsInv, ExportsTypeOK
    <2> QED BY <2>1, <2>2, <2>3, PointMoves
  <1> QED BY <1>1, <1>2, <1>3 DEF ExportsNext, ScreensNext

\* Only a save that finds its row edits the wording of one there is.
LEMMA EditStep ==
  ASSUME ExportsInv, [ExportsNext]_exportVars, NEW i \in Ids,
         artifact[i].wording # artifact'[i].wording, i \in Live, artifact'[i].life # "deleted"
  PROVE  artifact'[i] = [artifact[i] EXCEPT !.wording = "edited"]
  <1>1. artifact' # artifact
    OBVIOUS
  <1>2. ASSUME NEW t \in Tabs, Insert(t) PROVE FALSE
    <2>1. Live \subseteq Known
      BY DEF Live, Known
    <2>2. Cardinality(Known) + 1 \notin Known
          /\ \A k \in Ids \ {Cardinality(Known) + 1} : artifact'[k] = artifact[k]
      BY <1>2, InsertMakes
    <2> QED BY <2>1, <2>2
  <1>3. ASSUME NEW t \in Tabs, Write(t)
        PROVE  artifact'[i] = [artifact[i] EXCEPT !.wording = "edited"]
    BY <1>3, WriteSets
  <1>4. ASSUME NEW t \in Tabs, RequestStep(t)
        PROVE  artifact'[i] = [artifact[i] EXCEPT !.wording = "edited"]
    BY <1>1, <1>2, <1>3, <1>4 DEF RequestStep, Gather, BuildPack, Read, Number, Find, Answered
  <1>5. ASSUME NEW t \in Tabs, Click(t) \/ Unanswered(t) PROVE FALSE
    BY <1>1, <1>5 DEF Click, Unanswered, Generate, Save, MarkAs, Delete, SetBox, Send
  <1>6. ASSUME NEW c \in Changers, MarkStale(c) PROVE FALSE
    <2>1. artifact'[i] = [artifact[i] EXCEPT !.stale = "marked"] /\ artifact[i] \in Row
      BY <1>6 DEF MarkStale, ExportsInv, ExportsTypeOK
    <2> QED BY <2>1 DEF Row
  <1>7. CASE RecordNext
    BY <1>1, <1>6, <1>7 DEF RecordNext, Propose, Add, Reword, Remove
  <1> QED BY <1>1, <1>4, <1>5, <1>7 DEF ExportsNext, ScreensNext, exportVars

\* The table and the screens keep their shape, and ids are given out in order,
\* however many screens ask and whatever writes the process meanwhile.
THEOREM ExportsTyped == ExportsSpec => []ExportsTypeOK
  <1>1. ExportsInv => ExportsTypeOK
    BY DEF ExportsInv
  <1> QED BY <1>1, ExportsStarts, ExportsSteps, PTL DEF ExportsSpec

\* DocumentsAreTrue, with screens, changing records and summaries together:
\* one screen never shows two documents of a kind under one version, a document
\* not marked out of date sets out all there is, and an edit of the wording
\* undoes neither a mark nor a final.
THEOREM DocumentsStayTrue == ExportsSpec => DocumentsAreTrue
  <1>1. ExportsInv => OneScreenNumbersApart /\ FreshIsComplete
    BY DEF ExportsInv
  <1>2. ExportsInv /\ [ExportsNext]_exportVars
          => [\A i \in Ids :
                artifact[i].wording # artifact'[i].wording /\ i \in Live /\ artifact'[i].life # "deleted" =>
                  artifact'[i] = [artifact[i] EXCEPT !.wording = "edited"]]_exportVars
    BY EditStep
  <1> QED
    BY <1>1, <1>2, ExportsStarts, ExportsSteps, PTL
    DEF ExportsSpec, DocumentsAreTrue, EditsKeepTheRest

-----------------------------------------------------------------------------
(* The four together.                                                      *)

\* A behaviour of the site is one of each component: what does not move stutters.
LEMMA EachAlone == MCSpec => AccountsSpec /\ LimiterSpec /\ IntakeFormSpec /\ ExportsSpec
  <1>1. MCInit => AccountsInit /\ LimiterInit /\ IntakeFormInit /\ ExportsInit
    BY DEF MCInit
  <1>2. ASSUME [MCNext]_<<part, accountVars, limiterVars, formVars, exportVars>>
        PROVE  [AccountsNext]_accountVars /\ [LimiterNext]_limiterVars
               /\ [IntakeFormNext]_formVars /\ [ExportsNext]_exportVars
    <2>1. MCExportsNext => ExportsNext
      BY DEF MCExportsNext, ExportsNext
    <2> QED BY <1>2, <2>1 DEF MCNext
  <1> QED
    BY <1>1, <1>2, PTL DEF MCSpec, AccountsSpec, LimiterSpec, IntakeFormSpec, ExportsSpec

\* SiteTypeOK: each part keeps its shape, whatever the others do.
THEOREM SiteTyped == MCSpec => []SiteTypeOK
  <1>1. FormInv => IntakeFormTypeOK
    BY DEF FormInv
  <1> QED
    BY <1>1, EachAlone, AccountsTyped, LimiterTyped, FormAlways, ExportsTyped, PTL DEF SiteTypeOK

=============================================================================
