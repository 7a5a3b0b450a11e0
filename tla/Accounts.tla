------------------------------ MODULE Accounts ------------------------------
(***************************************************************************)
(* Accounts, sessions and recovery links: coffeecup/src/auth and the       *)
(* account's end in cases/retention.ts.                                    *)
(*                                                                         *)
(* A handler is a sequence of statements and nothing is locked: requests   *)
(* interleave between statements, and one may die between two of them.     *)
(* What the database promises by itself (a unique index, a foreign key     *)
(* with its cascade) is part of the statement it constrains.               *)
(***************************************************************************)
EXTENDS FiniteSets

CONSTANTS
  Users,      \* ids of rows of the users table
  Email,      \* the address each row is created with
  Passwords,  \* passwords within the policy
  Sessions,   \* ids of rows of the sessions table
  Links,      \* ids of rows of the recovery_tokens table
  Requests,   \* concurrent requests
  NoUser, NoLink

ASSUME AccountsAssumption ==
  /\ NoUser \notin Users /\ NoLink \notin Links
  /\ Sessions \cap Requests = {}
  /\ Users # {} /\ Passwords # {}
  /\ Email \in [Users -> STRING]

VARIABLES
  user,      \* which rows of the users table exist
  deleted,   \* ids whose row was deleted: an id is never made twice
  password,  \* what each row's hash verifies
  consents,  \* users with their consent rows
  session,   \* the sessions table: owner, and the password that opened it
  lapsed,    \* sessions past their 30 days
  link,      \* the recovery_tokens table: whom a link is for, and its life
  request,   \* where each request is, and what it has read
  raced,     \* sessions and requests that another reset has overtaken
  halted     \* users one of whose resets died before it revoked

accountVars == <<user, deleted, password, consents, session, lapsed, link, request, raced, halted>>

Steps == {"idle", "insert", "consent", "open", "issue", "set", "use", "revoke",
          "reopen", "close", "erase"}

NoSession == [user |-> NoUser, password |-> CHOOSE p \in Passwords : TRUE]
NoLinkRowUnset == [user |-> NoLink, life |-> "absent"]   \* a mistake: the wrong null
NoLinkRow == [user |-> NoUser, life |-> "absent"]
NoRequest == [at |-> "idle", user |-> NoUser, link |-> NoLink,
              password |-> CHOOSE p \in Passwords : TRUE]

AccountsInit ==
  /\ user = {} /\ deleted = {} /\ consents = {} /\ lapsed = {} /\ raced = {} /\ halted = {}
  /\ password \in [Users -> {CHOOSE p \in Passwords : TRUE}]
  /\ session = [s \in Sessions |-> NoSession]
  /\ link = [l \in Links |-> NoLinkRow]
  /\ request = [r \in Requests |-> NoRequest]

-----------------------------------------------------------------------------
Idle(r)     == request[r].at = "idle"
At(r, step) == request[r].at = step

Go(r, step, u, l, p) ==
  request' = [request EXCEPT ![r] = [at |-> step, user |-> u, link |-> l, password |-> p]]

Then(r, step) == Go(r, step, request[r].user, request[r].link, request[r].password)

\* The request ends, with an answer or with an exception.
Leave(r) ==
  /\ request' = [request EXCEPT ![r] = NoRequest]
  /\ raced' = raced \ {r}

\* The unique index on the address lets a row in.
AddressFreeUnindexed(u) == TRUE   \* a mistake: without the index
AddressFree(u) == \A v \in user : Email[v] # Email[u]

\* Sessions that validateSession accepts.
Valid(s) == session[s].user \in user /\ s \notin lapsed

-----------------------------------------------------------------------------
(* Sign-up and sign-in.                                                    *)

\* newId: an id that no row and no other request has.
Fresh(u) == u \notin user \cup deleted /\ \A r \in Requests : request[r].user # u

\* signUp, to its select: the address has no row.
AskSignUp(r, u, p) ==
  /\ Idle(r)
  /\ Fresh(u)
  /\ \A v \in user : Email[v] # Email[u]
  /\ Go(r, "insert", u, NoLink, p)
  /\ UNCHANGED <<user, deleted, password, consents, session, lapsed, link, raced, halted>>

\* Its insert, where the index on the address may refuse the row.
InsertUser(r) ==
  LET u == request[r].user IN
  /\ At(r, "insert")
  /\ IF AddressFree(u)
       THEN /\ user' = user \cup {u}
            /\ password' = [password EXCEPT ![u] = request[r].password]
            /\ Then(r, "consent")
            /\ UNCHANGED raced
       ELSE /\ Leave(r)
            /\ UNCHANGED <<user, deleted, password>>
  /\ UNCHANGED <<deleted, consents, session, lapsed, link, halted>>

\* The terms and privacy rows; a foreign key refuses them to a deleted user.
InsertConsents(r) ==
  /\ At(r, "consent")
  /\ IF request[r].user \in user
       THEN /\ consents' = consents \cup {request[r].user}
            /\ Then(r, "open")
            /\ UNCHANGED raced
       ELSE /\ Leave(r)
            /\ UNCHANGED consents
  /\ UNCHANGED <<user, deleted, password, session, lapsed, link, halted>>

\* signIn, to the end of verifyPassword.
AskSignIn(r, u) ==
  /\ Idle(r)
  /\ u \in user
  /\ Go(r, "open", u, NoLink, password[u])
  /\ UNCHANGED <<user, deleted, password, consents, session, lapsed, link, raced, halted>>

\* createSession; a foreign key refuses a session to a deleted user.
OpenSession(r, s) ==
  LET u == request[r].user IN
  /\ request[r].at \in {"open", "reopen"}
  /\ session[s].user = NoUser
  /\ IF u \in user
       THEN /\ session' = [session EXCEPT ![s] = [user |-> u, password |-> request[r].password]]
            /\ raced' = (raced \ {r}) \cup (IF r \in raced THEN {s} ELSE {})
       ELSE /\ raced' = raced \ {r}
            /\ UNCHANGED session
  /\ request' = [request EXCEPT ![r] = NoRequest]
  /\ UNCHANGED <<user, deleted, password, consents, lapsed, link, halted>>

\* signOut deletes the row of the token it is given.
SignOut(s) ==
  /\ session[s].user # NoUser
  /\ session' = [session EXCEPT ![s] = NoSession]
  /\ lapsed' = lapsed \ {s}
  /\ raced' = raced \ {s}
  /\ UNCHANGED <<user, deleted, password, consents, link, request, halted>>

SessionLapses(s) ==
  /\ session[s].user # NoUser /\ s \notin lapsed
  /\ lapsed' = lapsed \cup {s}
  /\ UNCHANGED <<user, deleted, password, consents, session, link, request, raced, halted>>

-----------------------------------------------------------------------------
(* Recovery.                                                               *)

\* requestPasswordRecovery, to its select.  Earlier links stay as they are.
AskRecovery(r, u) ==
  /\ Idle(r)
  /\ u \in user
  /\ Go(r, "issue", u, NoLink, password[u])
  /\ UNCHANGED <<user, deleted, password, consents, session, lapsed, link, raced, halted>>

IssueLink(r, l) ==
  /\ At(r, "issue")
  /\ link[l].life = "absent"
  /\ link' = IF request[r].user \in user
               THEN [link EXCEPT ![l] = [user |-> request[r].user, life |-> "sent"]]
               ELSE link
  /\ Leave(r)
  /\ UNCHANGED <<user, deleted, password, consents, session, lapsed, halted>>

LinkLapses(l) ==
  /\ link[l].life = "sent"
  /\ link' = [link EXCEPT ![l] = [user |-> link[l].user, life |-> "lapsed"]]
  /\ UNCHANGED <<user, deleted, password, consents, session, lapsed, request, raced, halted>>

\* resetPassword, to its select: the link is neither used nor past its hour.
AskReset(r, l, p) ==
  /\ Idle(r)
  /\ link[l].life = "sent"
  /\ Go(r, "set", link[l].user, l, p)
  /\ UNCHANGED <<user, deleted, password, consents, session, lapsed, link, raced, halted>>

\* Requests that will open a session on what they checked before this write.
Overtaken(r) ==
  {q \in Requests \ {r} : /\ request[q].user = request[r].user
                          /\ request[q].at \in {"consent", "open", "use", "revoke", "reopen"}}

SetPassword(r) ==
  LET u == request[r].user IN
  /\ At(r, "set")
  /\ IF u \in user
       THEN /\ password' = [password EXCEPT ![u] = request[r].password]
            /\ raced' = (raced \ {r}) \cup Overtaken(r)
       ELSE UNCHANGED <<password, raced>>
  /\ Then(r, "use")
  /\ UNCHANGED <<user, deleted, consents, session, lapsed, link, halted>>

UseLink(r) ==
  LET l == request[r].link IN
  /\ At(r, "use")
  /\ link' = IF link[l].life = "absent" THEN link
               ELSE [link EXCEPT ![l] = [user |-> link[l].user, life |-> "used"]]
  /\ Then(r, "revoke")
  /\ UNCHANGED <<user, deleted, password, consents, session, lapsed, raced, halted>>

\* revokeAllSessions.
SessionsOf(u) == {s \in Sessions : session[s].user = u}

RevokeNone(u) == UNCHANGED <<session, lapsed, raced>>   \* a mistake: none is deleted

Revoke(u) ==
  /\ session' = [s \in Sessions |-> IF s \in SessionsOf(u) THEN NoSession ELSE session[s]]
  /\ lapsed' = lapsed \ SessionsOf(u)
  /\ raced' = raced \ SessionsOf(u)

RevokeAll(r) ==
  /\ At(r, "revoke")
  /\ Revoke(request[r].user)
  /\ Then(r, "reopen")
  /\ UNCHANGED <<user, deleted, password, consents, link, halted>>

-----------------------------------------------------------------------------
(* The end of an account: deleteAccount after its cases' files.            *)

AskDelete(r, s) ==
  /\ Idle(r)
  /\ Valid(s)
  /\ Go(r, "close", session[s].user, NoLink, session[s].password)
  /\ UNCHANGED <<user, deleted, password, consents, session, lapsed, link, raced, halted>>

CloseSessions(r) ==
  /\ At(r, "close")
  /\ Revoke(request[r].user)
  /\ Then(r, "erase")
  /\ UNCHANGED <<user, deleted, password, consents, link, halted>>

\* A mistake: the sessions have no foreign key.
CascadeWithoutSessions(u) ==
  /\ consents' = consents \ {u}
  /\ UNCHANGED <<session, lapsed>>
  /\ link' = [l \in Links |-> IF link[l].user = u THEN NoLinkRow ELSE link[l]]

\* What the user's row takes with it: every foreign key to it cascades.
Cascade(u) ==
  /\ consents' = consents \ {u}
  /\ session' = [s \in Sessions |-> IF s \in SessionsOf(u) THEN NoSession ELSE session[s]]
  /\ lapsed' = lapsed \ SessionsOf(u)
  /\ link' = [l \in Links |-> IF link[l].user = u THEN NoLinkRow ELSE link[l]]

EraseUser(r) ==
  LET u == request[r].user IN
  /\ At(r, "erase")
  /\ user' = user \ {u}
  /\ deleted' = deleted \cup {u}
  /\ Cascade(u)
  /\ request' = [request EXCEPT ![r] = NoRequest]
  /\ raced' = raced \ (SessionsOf(u) \cup {r})
  /\ halted' = halted \ {u}
  /\ UNCHANGED password

\* The process dies, or a statement throws, between two statements.
Die(r) ==
  /\ ~Idle(r)
  /\ halted' = IF request[r].at \in {"use", "revoke"} THEN halted \cup {request[r].user}
               ELSE halted
  /\ Leave(r)
  /\ UNCHANGED <<user, deleted, password, consents, session, lapsed, link>>

-----------------------------------------------------------------------------
SignUpSteps(r) == \/ \E u \in Users, p \in Passwords : AskSignUp(r, u, p)
                  \/ InsertUser(r)
                  \/ InsertConsents(r)

RecoverySteps(r) == \/ \E u \in Users : AskRecovery(r, u)
                    \/ \E l \in Links : IssueLink(r, l)
                    \/ \E l \in Links, p \in Passwords : AskReset(r, l, p)
                    \/ SetPassword(r)
                    \/ UseLink(r)
                    \/ RevokeAll(r)

DeletionSteps(r) == \/ \E s \in Sessions : AskDelete(r, s)
                    \/ CloseSessions(r)
                    \/ EraseUser(r)

AccountsNext ==
  \/ \E r \in Requests : \/ SignUpSteps(r)
                         \/ \E u \in Users : AskSignIn(r, u)
                         \/ \E s \in Sessions : OpenSession(r, s)
                         \/ RecoverySteps(r)
                         \/ DeletionSteps(r)
                         \/ Die(r)
  \/ \E s \in Sessions : SignOut(s) \/ SessionLapses(s)
  \/ \E l \in Links : LinkLapses(l)

AccountsSpec == AccountsInit /\ [][AccountsNext]_accountVars

-----------------------------------------------------------------------------
(* Properties.                                                             *)

\* Every table and every request holds what its columns and variables may.
AccountsTypeOK ==
  /\ user \subseteq Users /\ deleted \subseteq Users /\ consents \subseteq Users /\ halted \subseteq Users
  /\ password \in [Users -> Passwords]
  /\ session \in [Sessions -> [user : Users \cup {NoUser}, password : Passwords]]
  /\ lapsed \subseteq Sessions /\ raced \subseteq Sessions \cup Requests
  /\ link \in [Links -> [user : Users \cup {NoUser}, life : {"absent", "sent", "lapsed", "used"}]]
  /\ request \in [Requests -> [at : Steps, user : Users \cup {NoUser},
                               link : Links \cup {NoLink}, password : Passwords]]

\* Two sign-ups of one address that both find it free end with one account:
\* the address finds one row, in sign-in and in recovery.
OneAccountPerAddress == \A u, v \in user : Email[u] = Email[v] => u = v

\* A reset is between its new hash and its revocation.
Resetting(u) == \E r \in Requests : request[r].user = u /\ request[r].at \in {"use", "revoke"}

\* "Password reset invalidates every existing session for the user" (the head
\* of auth/service.ts), as far as the code goes: a session opened with a
\* password that is no longer the user's belongs to a request that had
\* checked it when the reset wrote, or a reset is on its way to revoke it, or
\* died there.
OldPasswordIsOut ==
  \A s \in Sessions :
    LET u == session[s].user IN
    u # NoUser /\ session[s].password # password[u]
      => s \in raced \/ u \in halted \/ Resetting(u)

\* A deleted account leaves nothing behind and nothing comes back: no session
\* opened by a sign-in that overlaps the deletion, no recovery link, no
\* consent is ever of a user that is not there.
NothingOutlivesTheAccount ==
  /\ \A s \in Sessions : session[s].user \in user \cup {NoUser}
  /\ \A l \in Links : link[l].user \in user \cup {NoUser}
  /\ consents \subseteq user

\* Accounts begin and end whole: one for an address, and nothing of one that is
\* not there.
AccountsAreWhole == OneAccountPerAddress /\ NothingOutlivesTheAccount

=============================================================================
