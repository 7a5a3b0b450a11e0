----------------------------- MODULE IntakeForm -----------------------------
(***************************************************************************)
(* The form of "Get help with a problem at work", from the first answer to *)
(* the case, by way of a new account where there is none yet               *)
(* (coffeecup/src/components/intake, components/auth and their pages).     *)
(*                                                                         *)
(* A visitor's answers are put away in the browser's session storage while *)
(* she signs up, and the form of /app/cases/new takes them out again.      *)
(***************************************************************************)
EXTENDS Naturals

CONSTANT Routes   \* entry routes one may pick or be offered

NotSure       == "not_sure"
ProblemAtWork == "problem_at_work"
NoRoute       == "none"

ASSUME IntakeFormAssumption == {NotSure, ProblemAtWork} \subseteq Routes /\ NoRoute \notin Routes

VARIABLES
  page,     \* the page that is open
  next,     \* where the sign-up or sign-in form goes on to
  login,  \* signed in or out
  asMember, \* what the intake form was told of the session when it was loaded
  form,     \* its fields
  offered,  \* the routes its result offers; none before the first result
  chosen,   \* the route selected there
  waits,  \* what it waits for
  draft,    \* session storage
  put,      \* ghost: the answers last put there; then those taken out, until edited
  made      \* ghost: the cases this form has been told were made

formVars == <<page, next, login, asMember, form, offered, chosen, waits, draft, put, made>>

Blank   == [route |-> NotSure, still |-> "", end |-> "", acas |-> FALSE]
Nothing == [route |-> NoRoute, still |-> "unknown", end |-> "none", acas |-> FALSE]

HasForm == page \in {"start", "new"}
For(what) == [to |-> what, route |-> NoRoute]
Waiting      == waits # For("idle")

-----------------------------------------------------------------------------
(* What is sent, and how a form is filled in again from it.                *)

\* An empty field is sent as null.
Payload ==
  [route |-> IF chosen # NoRoute THEN chosen ELSE form.route,
   still |-> IF form.still = "" THEN "unknown" ELSE form.still,
   end   |-> IF form.end = "" THEN "none" ELSE form.end,
   acas  |-> form.acas]

\* A mistake: what was sent as null is put in the field as it is.
RestoredRaw(d) == [route |-> d.route, still |-> d.still, end |-> d.end, acas |-> d.acas]

\* A mistake: an answer of "no" is taken for none.
RestoredFalsy(d) ==
  [route |-> d.route, still |-> IF d.still = "yes" THEN "yes" ELSE "",
   end |-> IF d.end = "none" THEN "" ELSE d.end, acas |-> d.acas]

Restored(d) ==
  [route |-> d.route, still |-> IF d.still = "unknown" THEN "" ELSE d.still,
   end |-> IF d.end = "none" THEN "" ELSE d.end, acas |-> d.acas]

-----------------------------------------------------------------------------
(* Opening a page: the form is a new one, and /app/cases/new fills it in.  *)

IntakeFormInit ==
  /\ page = "start" /\ next = "app"
  /\ login \in {"in", "out"} /\ asMember = (login = "in")
  /\ form = Blank /\ offered = {} /\ chosen = NoRoute /\ waits = For("idle")
  /\ draft = Nothing /\ put = Nothing /\ made = 0

Load(p, then) ==
  LET back == p = "new" /\ draft # Nothing IN
  /\ page' = p /\ next' = then
  /\ asMember' = (p = "new" \/ (p = "start" /\ login' = "in"))
  /\ form' = IF back THEN Restored(draft) ELSE Blank
  /\ draft' = IF back THEN Nothing ELSE draft
  /\ put' = IF back \/ draft # Nothing THEN put ELSE Nothing
  /\ offered' = {} /\ chosen' = NoRoute /\ waits' = For("idle") /\ made' = 0

\* A link, a reload or an address typed in.  The pages under /app send whoever
\* is not signed in to sign in, and from there to /app.
Visit(p) ==
  /\ UNCHANGED login
  /\ IF p \in {"new", "app"} /\ login = "out" THEN Load("sign-in", "app") ELSE Load(p, "app")

\* Signed out in another tab, or lapsed: the page that is open does not change.
SessionEnds ==
  /\ login = "in" /\ login' = "out"
  /\ UNCHANGED <<page, next, asMember, form, offered, chosen, waits, draft, put, made>>

-----------------------------------------------------------------------------
(* The sign-up and sign-in forms.                                          *)

Authenticate ==
  /\ page \in {"sign-up", "sign-in"} /\ login' = "in"
  /\ Load(IF next = "new" THEN "new" ELSE "app", "app")

-----------------------------------------------------------------------------
(* The intake form.  Its fields can be edited at any time, the date of the *)
(* end only while it is shown; what is no longer shown stays as it was.    *)

Edit(new) ==
  /\ HasForm /\ new # form
  /\ form' = new
  /\ put' = IF draft = Nothing THEN Nothing ELSE put
  /\ UNCHANGED <<page, next, login, asMember, offered, chosen, waits, draft, made>>

EditField ==
  \/ \E r \in Routes : Edit([form EXCEPT !.route = r])
  \/ \E s \in {"", "yes", "no"} : Edit([form EXCEPT !.still = s])
  \/ form.still = "no" /\ \E d \in {"", "a date"} : Edit([form EXCEPT !.end = d])
  \/ Edit([form EXCEPT !.acas = ~@])

Wait(what) ==
  /\ waits' = what
  /\ UNCHANGED <<page, next, login, asMember, form, offered, chosen, draft, put, made>>

\* "See what this looks like": the route that goes with the answers is the one
\* selected in the last result, if any.
RunTriage == HasForm /\ ~Waiting /\ Wait([to |-> "triage", route |-> Payload.route])

\* triage: the routes a model suggests, none where it fails or is not asked,
\* and always the one asked about.
Offered(route, suggested) ==
  LET all == suggested \cup ({route} \ {NotSure}) IN
  IF all = {} THEN {ProblemAtWork} ELSE all

\* The first one is selected: the route asked about, where it had to be added.
TriageAnswered(suggested, first) ==
  LET route == waits.route IN
  /\ waits.to = "triage"
  /\ first \in Offered(route, suggested)
  /\ route \in Offered(route, suggested) \ suggested => first = route
  /\ offered' = Offered(route, suggested) /\ chosen' = first /\ waits' = For("idle")
  /\ UNCHANGED <<page, next, login, asMember, form, draft, put, made>>

Choose(r) ==
  /\ HasForm /\ r \in offered /\ r # chosen
  /\ chosen' = r
  /\ UNCHANGED <<page, next, login, asMember, form, offered, waits, draft, put, made>>

\* "Create a free account to save this".
PutAway ==
  /\ HasForm /\ offered # {} /\ ~Waiting /\ ~asMember
  /\ draft' = Payload /\ put' = Payload
  /\ waits' = For("sign-up")
  /\ UNCHANGED <<page, next, login, asMember, form, offered, chosen, made>>

\* "Create my case".
CreateCase == HasForm /\ offered # {} /\ ~Waiting /\ asMember /\ Wait(For("create"))

AfterAnswerFreed == "idle"   \* a mistake: the buttons come back with every answer
AfterAnswer == "case"

CaseCreated ==
  /\ waits = For("create") /\ login = "in"
  /\ waits' = For(AfterAnswer) /\ made' = made + 1
  /\ UNCHANGED <<page, next, login, asMember, form, offered, chosen, draft, put>>

\* An error, or no answer, of a triage or a creation.
GivenUp == waits.to \in {"triage", "create"} /\ Wait(For("idle"))

\* router.push has taken effect.
Arrive ==
  /\ UNCHANGED login
  /\ \/ waits = For("sign-up") /\ Load("sign-up", "new")
     \/ waits = For("case") /\ Load("case", "app")

-----------------------------------------------------------------------------
IntakeFormNext ==
  \/ \E p \in {"start", "new", "app", "sign-up", "sign-in"} : Visit(p)
  \/ SessionEnds \/ Authenticate \/ EditField \/ RunTriage
  \/ \E suggested \in SUBSET Routes : \E first \in Routes : TriageAnswered(suggested, first)
  \/ \E r \in Routes : Choose(r)
  \/ PutAway \/ CreateCase \/ CaseCreated \/ GivenUp \/ Arrive

IntakeFormSpec == IntakeFormInit /\ [][IntakeFormNext]_formVars

-----------------------------------------------------------------------------
(* Properties.                                                             *)

Fields  == [route : Routes, still : {"", "yes", "no"}, end : {"", "a date"}, acas : BOOLEAN]
Answers == [route : Routes, still : {"unknown", "yes", "no"}, end : {"none", "a date"}, acas : BOOLEAN]

\* The form and what is put away hold what they may; the page is waiting for
\* something only where it has a form.
IntakeFormTypeOK ==
  /\ page \in {"start", "new", "app", "sign-up", "sign-in", "case"} /\ next \in {"app", "new"}
  /\ login \in {"in", "out"} /\ asMember \in BOOLEAN
  /\ form \in Fields /\ draft \in Answers \cup {Nothing} /\ put \in Answers \cup {Nothing}
  /\ offered \subseteq Routes /\ chosen \in offered \cup {NoRoute} /\ (offered # {} => chosen # NoRoute)
  /\ waits \in [to : {"idle", "triage", "create", "sign-up", "case"}, route : Routes \cup {NoRoute}] /\ made \in Nat
  /\ Waiting => HasForm

\* What a visitor had answered when she asked for an account is what the form
\* holds once she has one, whichever way she took to get there, and is sent if
\* she edits nothing; the route she had selected is still the form's.
DraftSurvivesSignUp ==
  /\ draft # Nothing => put = draft
  /\ HasForm /\ draft = Nothing /\ put # Nothing => [Payload EXCEPT !.route = form.route] = put

\* A form that has been told of its case makes no other: its buttons stay
\* disabled until the case's page is open.
NoSecondCase == made <= 1

\* What the visitor answered arrives, and arrives in one case.
AnswersReachOneCase == DraftSurvivesSignUp /\ NoSecondCase

=============================================================================
