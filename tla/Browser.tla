-------------------------------- MODULE Browser --------------------------------
(***************************************************************************)
(* The session in the browser: App.jsx, the forms of Login.jsx and         *)
(* Register.jsx, the sign-out of Dashboard.jsx and the interceptors of     *)
(* client.js.  The token and the user are in localStorage, which all tabs  *)
(* share and each tab reads when it mounts; what a tab shows it keeps to   *)
(* itself.  Leaving a form does not cancel its request: an answer that     *)
(* comes late still signs in.  Only loading the document again ends what   *)
(* the old one has asked.                                                  *)
(***************************************************************************)
EXTENDS Naturals, FiniteSets

CONSTANTS
  Tab, Person, Nobody,
  MaxTokens,   \* bound on the tokens issued
  MaxAsks      \* bound on the requests a tab has under way

ASSUME BrowserAssumption == Nobody \notin Person /\ MaxTokens \in Nat /\ MaxAsks \in Nat

Token == 1 .. MaxTokens

VARIABLES
  owner,     \* of each token the server has issued
  alive,     \* the tokens that have neither expired nor been revoked
  inactive,  \* the users who have been deactivated
  store,     \* localStorage: the items token (or 0) and user
  page,      \* App: "login", "register" or "dashboard"
  user,      \* App: who the dashboard is of
  busy,      \* tabs whose form is loading
  error,     \* tabs whose form says "Invalid email or password"
  leaving,   \* tabs that have been sent to /login and have not loaded it yet
  asks,      \* requests each tab has under way
  shared,    \* tabs next to which another tab has changed the store since they
             \* last read or wrote it
  refused    \* tokens that a tab has been answered 401 for

server == <<owner, alive, inactive>>
vars == <<server, store, page, user, busy, error, leaving, asks, shared, refused>>

Empty == [token |-> 0, user |-> Nobody]

\* The store as it is when the document of a tab is loaded decides what App shows.
Mounted(s) == s.user # Nobody /\ s.token # 0

\* A request of the dashboard: the interceptor adds the stored token.
Request(s) == [form |-> "none", person |-> Nobody, token |-> s.token]

Init ==
  /\ owner = [n \in Token |-> Nobody] /\ alive = {} /\ inactive = {}
  /\ store = Empty
  /\ page = [t \in Tab |-> "login"] /\ user = [t \in Tab |-> Nobody]
  /\ busy = {} /\ error = {} /\ leaving = {} /\ shared = {} /\ refused = {}
  /\ asks = [t \in Tab |-> {}]

\* The document of a tab is loaded: useEffect of App, then that of Dashboard, whose
\* loadAccount asks at once.
Load(t) ==
  /\ page' = [page EXCEPT ![t] = IF Mounted(store) THEN "dashboard" ELSE "login"]
  /\ user' = [user EXCEPT ![t] = IF Mounted(store) THEN store.user ELSE Nobody]
  /\ asks' = [asks EXCEPT ![t] = IF Mounted(store) THEN {Request(store)} ELSE {}]
  /\ busy' = busy \ {t} /\ error' = error \ {t}
  /\ leaving' = leaving \ {t} /\ shared' = shared \ {t}

\* The user opens the site or reloads it.
Reload(t) ==
  /\ Load(t)
  /\ UNCHANGED <<server, store, refused>>

\* window.location.href = '/login' takes effect.
Navigate(t) ==
  /\ t \in leaving
  /\ Load(t)
  /\ UNCHANGED <<server, store, refused>>

\* The link from one form to the other.
SwitchForm(t) ==
  /\ page[t] # "dashboard"
  /\ page' = [page EXCEPT ![t] = IF @ = "login" THEN "register" ELSE "login"]
  /\ busy' = busy \ {t} /\ error' = error \ {t}
  /\ UNCHANGED <<server, store, user, leaving, asks, shared, refused>>

Ask(t, ask) ==
  /\ Cardinality(asks[t]) < MaxAsks
  /\ asks' = [asks EXCEPT ![t] = @ \cup {ask}]

\* A form is sent: login and register look at no token.
Submit(t, p) ==
  /\ page[t] # "dashboard" /\ t \notin busy
  /\ Ask(t, [form |-> page[t], person |-> p, token |-> 0])
  /\ busy' = busy \cup {t} /\ error' = error \ {t}
  /\ UNCHANGED <<server, store, page, user, leaving, shared, refused>>

\* A button of the dashboard, or one of its timers.
Use(t) ==
  /\ page[t] = "dashboard"
  /\ Ask(t, Request(store))
  /\ UNCHANGED <<server, store, page, user, busy, error, leaving, shared, refused>>

\* What another tab does to the store is not heard of.
Stored(t, new) ==
  /\ store' = new
  /\ shared' = IF new = store THEN shared \ {t} ELSE Tab \ {t}

\* The form that asked is still the one on the screen.
Onscreen(t, ask) == page[t] = ask.form

\* Mutant of HandleLogin: a form that has been left stores the session only.
HandleLoginStores(t, p, n) ==
  /\ Stored(t, [token |-> n, user |-> p])
  /\ IF page[t] = "dashboard"
     THEN UNCHANGED <<page, user>>
     ELSE /\ page' = [page EXCEPT ![t] = "dashboard"]
          /\ user' = [user EXCEPT ![t] = p]

HandleLogin(t, p, n) ==
  /\ Stored(t, [token |-> n, user |-> p])
  /\ page' = [page EXCEPT ![t] = "dashboard"]
  /\ user' = [user EXCEPT ![t] = p]

\* The answer 200 or 201 of login or register; it may have left the server before its
\* user was deactivated.  A dashboard that mounts now loads the account; one that is
\* there already does not.
SignedIn(t, ask, n) ==
  /\ ask \in asks[t] /\ ask.form # "none"
  /\ owner[n] = Nobody /\ \A m \in Token : m < n => owner[m] # Nobody
  /\ owner' = [owner EXCEPT ![n] = ask.person] /\ alive' = alive \cup {n}
  /\ UNCHANGED inactive
  /\ HandleLogin(t, ask.person, n)
  /\ asks' = [asks EXCEPT ![t] =
                (@ \ {ask}) \cup IF page[t] = "dashboard" THEN {}
                                 ELSE {Request(store')}]
  /\ busy' = busy \ {t} /\ error' = error \ {t}
  /\ UNCHANGED <<leaving, refused>>

\* Mutant of Interceptor401: the page is sent to /login with the session left stored.
Interceptor401Keeps(t) ==
  /\ leaving' = leaving \cup {t}
  /\ UNCHANGED <<store, shared>>

\* The store is emptied and the page sent to /login, whatever was asked and with
\* whichever token.
Interceptor401(t) ==
  /\ Stored(t, Empty)
  /\ leaving' = leaving \cup {t}

\* 401 of login: then setError.
WrongPassword(t, ask) ==
  /\ ask \in asks[t] /\ ask.form = "login"
  /\ Interceptor401(t)
  /\ asks' = [asks EXCEPT ![t] = @ \ {ask}]
  /\ IF Onscreen(t, ask)
     THEN error' = error \cup {t} /\ busy' = busy \ {t}
     ELSE UNCHANGED <<error, busy>>
  /\ UNCHANGED <<server, page, user, refused>>

\* 401 of anything else: there is no token, or it has expired or been revoked.
Refused(t, ask) ==
  /\ ask \in asks[t] /\ ask.form = "none" /\ ask.token \notin alive
  /\ Interceptor401(t)
  /\ asks' = [asks EXCEPT ![t] = @ \ {ask}]
  /\ refused' = refused \cup ({ask.token} \cap Token)
  /\ UNCHANGED <<server, page, user, busy, error>>

\* 403, for a good token of a deactivated user: the interceptor leaves it where it is.
Forbidden(t, ask) ==
  /\ ask \in asks[t] /\ ask.form = "none"
  /\ ask.token \in alive /\ owner[ask.token] \in inactive
  /\ asks' = [asks EXCEPT ![t] = @ \ {ask}]
  /\ UNCHANGED <<server, store, page, user, busy, error, leaving, shared, refused>>

\* An answer that leaves the session alone, good or bad: that to login of a deactivated
\* user is a 403 too.  Or none comes.
OtherAnswer(t, ask) ==
  /\ ask \in asks[t]
  /\ asks' = [asks EXCEPT ![t] = @ \ {ask}]
  /\ busy' = IF Onscreen(t, ask) THEN busy \ {t} ELSE busy
  /\ UNCHANGED <<server, store, page, user, error, leaving, shared, refused>>

\* handleLogout: authAPI is not imported here, and the catch swallows that; the server
\* hears nothing.
SignOut(t) ==
  /\ page[t] = "dashboard"
  /\ Stored(t, Empty)
  /\ page' = [page EXCEPT ![t] = "login"]
  /\ user' = [user EXCEPT ![t] = Nobody]
  /\ UNCHANGED <<server, busy, error, leaving, asks, refused>>

\* The token's 7 days end.
Expire(n) ==
  /\ n \in alive
  /\ alive' = alive \ {n}
  /\ UNCHANGED <<owner, inactive, store, page, user, busy, error, leaving, asks, shared, refused>>

\* isActive is cleared in the database; it matters for a user who holds a token.
Deactivate(p) ==
  /\ p \notin inactive /\ \E n \in alive : owner[n] = p
  /\ inactive' = inactive \cup {p}
  /\ UNCHANGED <<owner, alive, store, page, user, busy, error, leaving, asks, shared, refused>>

Next ==
  \/ \E t \in Tab :
       \/ Reload(t) \/ Navigate(t) \/ SwitchForm(t) \/ Use(t) \/ SignOut(t)
       \/ \E p \in Person : Submit(t, p)
       \/ \E ask \in asks[t] :
            \/ \E n \in Token : SignedIn(t, ask, n)
            \/ WrongPassword(t, ask) \/ Refused(t, ask) \/ Forbidden(t, ask) \/ OtherAnswer(t, ask)
  \/ \E n \in Token : Expire(n)
  \/ \E p \in Person : Deactivate(p)

Spec == Init /\ [][Next]_vars

(***************************************************************************)
(* Properties                                                              *)
(***************************************************************************)

\* Whatever forms were left waiting and answered late, a dashboard acts for the user
\* it names, or for nobody: only next to another tab that signed in or out since this
\* one last read or wrote the store can it act for somebody else.
ActsAsShown ==
  \A t \in Tab \ shared :
    page[t] = "dashboard" =>
      /\ store.token # 0 => owner[store.token] = user[t]
      /\ store.token = 0 => t \in leaving

\* A session a tab has been answered 401 for is not in the store, whichever tab asked
\* and however late it heard: no tab comes back to its dashboard with it.  A deactivated
\* user's session is answered 403 and stays.
RefusedNotStored == store.token \notin refused

(***************************************************************************)
(* Why a tab acts as it shows                                              *)
(***************************************************************************)

Stores == [token : {0} \cup Token, user : Person \cup {Nobody}]
Asks == [form : {"none", "login", "register"}, person : Person \cup {Nobody}, token : {0} \cup Token]

TypeOK ==
  /\ owner \in [Token -> Person \cup {Nobody}] /\ alive \subseteq Token /\ inactive \subseteq Person
  /\ store \in Stores
  /\ page \in [Tab -> {"login", "register", "dashboard"}]
  /\ user \in [Tab -> Person \cup {Nobody}]
  /\ asks \in [Tab -> SUBSET Asks]
  /\ busy \subseteq Tab /\ error \subseteq Tab /\ leaving \subseteq Tab /\ shared \subseteq Tab
  /\ refused \subseteq Token

Issued == {n \in Token : owner[n] # Nobody}

\* The two items of the store are of one session, or there are none.
StoreAgrees ==
  /\ store.token = 0 => store.user = Nobody
  /\ store.token # 0 => store.token \in Issued /\ owner[store.token] = store.user

\* No token is in anybody's hands before the server has issued it; who submits a form
\* is somebody.
TokensIssued ==
  /\ \A t \in Tab : \A ask \in asks[t] :
       /\ ask.token \in {0} \cup Issued
       /\ ask.form # "none" => ask.person \in Person
  /\ refused \subseteq Issued

BrowserInv == TypeOK /\ StoreAgrees /\ TokensIssued /\ ActsAsShown /\ RefusedNotStored

\* client/src/pages/Login.jsx:237-238, "Invalid email or password. Please try again.":
\* after a wrong password the form says so, and is not loaded again under the user's eyes.
WrongPasswordIsTold == error \cap leaving = {}
==============================================================================
