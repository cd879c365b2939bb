---- MODULE WebSignIn ----
(***************************************************************************)
(* Signing in to the web application (apps/web with the /auth routes of    *)
(* apps/api): the forms that register and log in, the session that all     *)
(* tabs of a browser share in localStorage, and the navigation bar that    *)
(* shows whose it is.  The buttons that act in its name write nothing here.*)
(*                                                                         *)
(* Each form waits for its answer while its tab goes on: the user may      *)
(* leave the page, sign in elsewhere or log out meanwhile.  A fetch here   *)
(* has no timeout, so that it may wait for ever; it may also fail at any   *)
(* time, before or after the API has done what it was asked.  app.ts       *)
(* mounts neither these routes nor the claims' at present.                 *)
(***************************************************************************)
EXTENDS Naturals, FiniteSets

CONSTANTS
  Address,      \* e-mail addresses ...
  Spelling,     \* ... each in upper and lower case
  lower,        \* the spelling in lower case
  Password,     \* of eight characters or more: the API refuses shorter ones
  TypedLogins,  \* what is typed into the forms: an e-mail with a password
  demo,         \* DEMO_EMAIL and ...
  demoPassword, \* ... DEMO_PASSWORD
  Tab, Fetch,
  Nil

ASSUME SignInAssumption ==
  /\ lower \in Spelling /\ demo \in Address
  /\ TypedLogins \subseteq [address : Address, spelling : Spelling] \X Password
  /\ demoPassword \in Password

VARIABLES
  users,        \* the table User: id, email, password
  session,      \* what localStorage holds: Nil or a user's id with its token
  tabs,         \* per tab: page, loading (the button is disabled), user (that
                \* Nav shows), event (a storage event is on its way)
  fetches       \* requests that run

signInVars == <<users, session, tabs, fetches>>

Email == [address : Address, spelling : Spelling]
Page == {"login", "register", "dashboard"}
NoCall == [stage |-> "none"]

-----------------------------------------------------------------------------
(* The API. *)

normalizeEmail(e) == [e EXCEPT !.spelling = lower]

findUnique(e) == {u \in users : u.email = e}

(* A token carries its user; AUTH_DURATION_SECONDS later it is not valid   *)
(* any more.                                                               *)
createAuthToken(id) == [userId |-> id, valid |-> TRUE]

verifyAuthToken(token) == token.valid

(* GET /auth/me *)
me(token) == {u \in users : verifyAuthToken(token) /\ u.id = token.userId}

SessionOf(u) == [user |-> u.id, token |-> createAuthToken(u.id)]

(* An answer, which nobody hears any more if the fetch has failed.  Its    *)
(* status matters only to canBootstrapDemoUser.                            *)
Answer(c, status, s) ==
  [fetches EXCEPT ![c] =
    IF ~@.heard THEN NoCall
    ELSE [stage |-> "answered", route |-> @.route, tab |-> @.tab, mounted |-> @.mounted,
          heard |-> TRUE, demo |-> @.demo /\ status = 401, session |-> s]]

(* POST /auth/login *)
LoginHandled(c) ==
  LET call == fetches[c]
      found == {u \in findUnique(normalizeEmail(call.email)) : u.password = call.password}
  IN  /\ call.stage = "sent" /\ call.route = "login"
      /\ fetches' = IF found = {} THEN Answer(c, 401, Nil)
                  ELSE Answer(c, 200, SessionOf(CHOOSE u \in found : TRUE))
      /\ UNCHANGED <<users, session, tabs>>

(* POST /auth/register reads first whether the address is taken ...        *)
RegisterChecked(c) ==
  LET call == fetches[c]
  IN  /\ call.stage = "sent" /\ call.route = "register"
      /\ fetches' = IF findUnique(normalizeEmail(call.email)) # {} THEN Answer(c, 409, Nil)
                  ELSE [fetches EXCEPT ![c].stage = "checked"]
      /\ UNCHANGED <<users, session, tabs>>

(* ... and creates the user then, where User.email is @unique.             *)
Taken(e) == findUnique(e) # {}

RegisterCreated(c) ==
  LET e == normalizeEmail(fetches[c].email)
      user == [id |-> Cardinality(users) + 1, email |-> e, password |-> fetches[c].password]
  IN  /\ fetches[c].stage = "checked"
      /\ IF Taken(e)
         THEN users' = users /\ fetches' = Answer(c, 500, Nil)
         ELSE users' = users \cup {user} /\ fetches' = Answer(c, 200, SessionOf(user))
      /\ UNCHANGED <<session, tabs>>

-----------------------------------------------------------------------------
(* The browser. *)

\* Mutant: a tab learns only of what itself does.
Subscribed_Own == {"sponsum-auth-changed"}

(* The events on which Nav reads the session again.                        *)
Subscribed == {"sponsum-auth-changed", "storage"}

UserOf(s) == IF s = Nil THEN Nil ELSE s.user

(* What setStoredSession and clearStoredSession make known: the tab itself *)
(* is told at once and the browser tells the others.                       *)
Told(t, s) ==
  [u \in Tab |->
    IF u # t THEN [tabs[u] EXCEPT !.event = @ \/ "storage" \in Subscribed]
    ELSE IF "sponsum-auth-changed" \in Subscribed THEN [tabs[u] EXCEPT !.user = UserOf(s)]
    ELSE tabs[u]]

(* Leaving a page discards its form, whose call goes on without it.        *)
Left(t, cs) == [c \in Fetch |-> IF cs[c] # NoCall /\ cs[c].tab = t
                               THEN [cs[c] EXCEPT !.mounted = FALSE] ELSE cs[c]]

Visit(t, p) ==
  /\ tabs[t].page # p
  /\ tabs' = [tabs EXCEPT ![t].page = p, ![t].loading = FALSE]
  /\ fetches' = Left(t, fetches)
  /\ UNCHANGED <<users, session>>

isDemo(e, password) == e.address = demo /\ password = demoPassword

(* A request by the form on the page of t.                                 *)
Sent(t, c, route, e, password) ==
  /\ fetches[c] = NoCall
  /\ fetches' = [fetches EXCEPT ![c] =
       [stage |-> "sent", route |-> route, tab |-> t, mounted |-> TRUE, heard |-> TRUE,
        email |-> e, password |-> password,
        demo |-> route = "login" /\ isDemo(e, password)]]
  /\ tabs' = [tabs EXCEPT ![t].loading = TRUE]
  /\ UNCHANGED <<users, session>>

LoginSubmitted(t, c, e, password) ==
  /\ tabs[t].page = "login" /\ ~tabs[t].loading
  /\ Sent(t, c, "login", e, password)

RegisterSubmitted(t, c, e, password) ==
  /\ tabs[t].page = "register" /\ ~tabs[t].loading
  /\ Sent(t, c, "register", e, password)

(* A form that is still there may be used again once its call has ended.   *)
Released(c) == [tabs EXCEPT ![fetches[c].tab].loading = @ /\ ~fetches[c].mounted]

(* The demo user, who cannot log in yet, is registered.                    *)
canBootstrapDemoUser(call) == call.demo

DemoRegistered(c) ==
  /\ fetches[c].stage = "answered" /\ canBootstrapDemoUser(fetches[c])
  /\ fetches' = [fetches EXCEPT ![c] =
       [stage |-> "sent", route |-> "register", tab |-> @.tab, mounted |-> @.mounted, heard |-> TRUE,
        email |-> [address |-> demo, spelling |-> lower], password |-> demoPassword,
        demo |-> FALSE]]
  /\ UNCHANGED <<users, session, tabs>>

(* A session that is answered is stored, and its tab sent to the           *)
(* dashboard, wherever the user has gone meanwhile.                        *)
SignedIn(c) ==
  LET t == fetches[c].tab
      s == fetches[c].session
  IN  /\ fetches[c].stage = "answered" /\ s # Nil
      /\ session' = s
      /\ tabs' = [Told(t, s) EXCEPT ![t].page = "dashboard", ![t].loading = FALSE]
      /\ fetches' = Left(t, [fetches EXCEPT ![c] = NoCall])
      /\ UNCHANGED <<users>>

(* Every other answer is shown on the page.                                *)
AnswerShown(c) ==
  /\ fetches[c].stage = "answered"
  /\ fetches[c].session = Nil /\ ~canBootstrapDemoUser(fetches[c])
  /\ tabs' = Released(c)
  /\ fetches' = [fetches EXCEPT ![c] = NoCall]
  /\ UNCHANGED <<users, session>>

(* What is left of a call that its page has given up: only a registration  *)
(* still matters.                                                          *)
GivenUp(call) ==
  IF call.stage = "answered" \/ call.route # "register" THEN NoCall
  ELSE [call EXCEPT !.heard = FALSE, !.mounted = FALSE]

(* The network fails the fetch; the API may still do what it was asked.    *)
FetchFails(c) ==
  /\ fetches[c] # NoCall /\ fetches[c].heard
  /\ tabs' = Released(c)
  /\ fetches' = [fetches EXCEPT ![c] = GivenUp(@)]
  /\ UNCHANGED <<users, session>>

NeverArrives(c) ==
  /\ fetches[c] # NoCall /\ ~fetches[c].heard
  /\ fetches' = [fetches EXCEPT ![c] = NoCall]
  /\ UNCHANGED <<users, session, tabs>>

Logout(t) ==
  /\ tabs[t].user # Nil
  /\ session' = Nil
  /\ tabs' = Told(t, Nil)
  /\ UNCHANGED <<users, fetches>>

(* Nav of another tab hears that the storage has changed.                  *)
StorageHeard(t) ==
  /\ tabs[t].event
  /\ tabs' = [tabs EXCEPT ![t].event = FALSE, ![t].user = UserOf(session)]
  /\ UNCHANGED <<users, session, fetches>>

(* The page is loaded anew: its fetches are aborted and Nav reads what is  *)
(* stored.                                                                 *)
Reload(t) ==
  /\ tabs' = [tabs EXCEPT ![t] =
       [@ EXCEPT !.loading = FALSE, !.event = FALSE, !.user = UserOf(session)]]
  /\ fetches' = [c \in Fetch |-> IF fetches[c] # NoCall /\ fetches[c].tab = t
                  THEN GivenUp(fetches[c]) ELSE fetches[c]]
  /\ UNCHANGED <<users, session>>

(* The browser does not look at this.                                      *)
TokenExpires ==
  /\ session # Nil /\ verifyAuthToken(session.token)
  /\ session' = [session EXCEPT !.token.valid = FALSE]
  /\ UNCHANGED <<users, tabs, fetches>>

-----------------------------------------------------------------------------

(* The database is empty or seeded (prisma/seed.ts), the browser new.      *)
SignInInit ==
  /\ users \in {{}, {[id |-> 1, email |-> [address |-> demo, spelling |-> lower],
                     password |-> demoPassword]}}
  /\ session = Nil
  /\ tabs = [t \in Tab |-> [page |-> "dashboard", loading |-> FALSE, user |-> Nil, event |-> FALSE]]
  /\ fetches = [c \in Fetch |-> NoCall]

SignInNext ==
  \/ \E c \in Fetch :
       \/ LoginHandled(c) \/ RegisterChecked(c) \/ RegisterCreated(c)
       \/ DemoRegistered(c) \/ SignedIn(c) \/ AnswerShown(c) \/ FetchFails(c) \/ NeverArrives(c)
  \/ \E t \in Tab, c \in Fetch :
       \/ \E x \in TypedLogins : LoginSubmitted(t, c, x[1], x[2]) \/ RegisterSubmitted(t, c, x[1], x[2])
  \/ \E t \in Tab : (\E p \in Page : Visit(t, p)) \/ Logout(t) \/ StorageHeard(t) \/ Reload(t)
  \/ TokenExpires

SignInSpec == SignInInit /\ [][SignInNext]_signInVars

-----------------------------------------------------------------------------

(* A tab that has no event coming shows the user of the stored session,    *)
(* and /auth/me knows this user for as long as the token lasts: sign-ins   *)
(* and logouts of all tabs, late answers and reloads leave no bar behind.  *)
NavShowsTheUser ==
  \A t \in Tab :
    ~tabs[t].event =>
      /\ tabs[t].user = UserOf(session)
      /\ session # Nil /\ verifyAuthToken(session.token) =>
           {u.id : u \in me(session.token)} = {tabs[t].user}
====
