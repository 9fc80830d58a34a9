------------------------------ MODULE Accounts ------------------------------
(***************************************************************************)
(* The dashboard's accounts and sessions (lib/auth-users.ts, lib/auth.ts,  *)
(* middleware.ts, api/auth) and the pages that lead a browser to sign-in,  *)
(* setup or the dashboard.  A handler checks who asks, awaits the body of  *)
(* the request, and then acts: other handlers run in between.  A session   *)
(* is a signed cookie that holds a username, not an account.               *)
(*                                                                         *)
(* Abstracted: passwords (whoever signs in knows the one of the account);  *)
(* the signature, which nothing else can make; the cookie and the token    *)
(* inside it expire together, after twelve hours.                          *)
(***************************************************************************)
EXTENDS Naturals, FiniteSets

CONSTANTS
  Ids,           \* the ids randomUUID() may draw for accounts
  Usernames,     \* the usernames that are chosen
  Roles,         \* the roles that are assigned
  Browsers,      \* the browsers that use the dashboard
  None,          \* no account, no session, no request under way
  MaxOperations  \* bound on what users do and on sessions that expire

Level == [viewer |-> 10, operator |-> 20, admin |-> 30, owner |-> 40]
Account == [username : Usernames, role : Roles, disabled : BOOLEAN]
\* The dashboard's pages: those that call the API again and again, those that call it
\* when they are opened and later on demand (the account panels are on one), and
\* /clients, which never does.
Dashboard == {"home", "panels", "clients"}
Page == [at : Dashboard \cup {"login", "setup"}, checking : BOOLEAN]
Requests == {"setup", "create", "change", "delete"}

ASSUME AccountConstants ==
  /\ Roles \subseteq DOMAIN Level /\ "owner" \in Roles
  /\ None \notin Account \cup Usernames \cup Requests
  /\ IsFiniteSet(Ids)
  /\ MaxOperations \in Nat

VARIABLES
  accounts,      \* the table auth_users
  sessions,      \* the username in each browser's cookie
  requests,      \* per browser, the request that was let in and awaits its body
  pages,         \* per browser, its page, and whether the page still asks where it belongs
  operations     \* history: number of operations

vars == <<accounts, sessions, requests, pages, operations>>

Exists(id) == accounts[id] # None
Active(id) == Exists(id) /\ ~accounts[id].disabled
Owners     == {id \in Ids : Active(id) /\ accounts[id].role = "owner"}
Named(username) == {id \in Ids : Exists(id) /\ accounts[id].username = username}

TypeOK ==
  /\ accounts \in [Ids -> Account \cup {None}]
  /\ \A username \in Usernames : Cardinality(Named(username)) <= 1
  /\ sessions \in [Browsers -> Usernames \cup {None}]
  /\ requests \in [Browsers -> Requests \cup {None}]
  /\ pages \in [Browsers -> Page]
  /\ operations \in Nat

Init ==
  /\ accounts = [id \in Ids |-> None]
  /\ sessions = [b \in Browsers |-> None]
  /\ requests = [b \in Browsers |-> None]
  /\ pages = [b \in Browsers |-> [at |-> "login", checking |-> TRUE]]
  /\ operations = 0

----------------------------------------------------------------------------
(***************************************************************************)
(* Who asks.                                                               *)
(***************************************************************************)

\* hasAnyAuthUsers.
HasAnyAuthUsers == \E id \in Ids : Active(id)

\* getSessionUserFromRequest: the account that has the cookie's username now.
SessionUser(b) == {id \in Ids : Active(id) /\ accounts[id].username = sessions[b]}

\* requireApiRole: 503 in setup mode, 401 without a user, 403 below the role, or let in.
Answer(b, minimum) ==
  IF ~HasAnyAuthUsers THEN 503
  ELSE IF SessionUser(b) = {} THEN 401
  ELSE IF \E id \in SessionUser(b) : Level[accounts[id].role] >= Level[minimum]
  THEN 200 ELSE 403

----------------------------------------------------------------------------
(***************************************************************************)
(* The pages.                                                              *)
(***************************************************************************)

GoTo(b, place) ==
  pages' = [pages EXCEPT ![b] = [at |-> place, checking |-> place # "clients"]]
Stay(b)        == pages' = [pages EXCEPT ![b].checking = FALSE]

Operate ==
  /\ operations < MaxOperations
  /\ operations' = operations + 1

\* middleware: the sign-in and setup pages are always served, the others to a browser
\* that has a cookie, whatever it holds.
Navigate(b, place) ==
  /\ Operate
  /\ requests[b] = None
  /\ GoTo(b, IF place \in Dashboard /\ sessions[b] = None THEN "login" ELSE place)
  /\ UNCHANGED <<accounts, sessions, requests>>

\* The sign-in page asks api/auth/session where it belongs, once.
CheckLogin(b) ==
  /\ pages[b] = [at |-> "login", checking |-> TRUE]
  /\ IF SessionUser(b) # {} THEN GoTo(b, "home")
     ELSE IF ~HasAnyAuthUsers THEN GoTo(b, "setup") ELSE Stay(b)
  /\ UNCHANGED <<accounts, sessions, requests, operations>>

\* The setup page leaving for sign-in whenever nobody is signed in.
CheckSetupSignedIn(b) ==
  /\ pages[b] = [at |-> "setup", checking |-> TRUE]
  /\ IF SessionUser(b) # {} THEN GoTo(b, "home") ELSE GoTo(b, "login")
  /\ UNCHANGED <<accounts, sessions, requests, operations>>

\* The setup page asks the same.
CheckSetup(b) ==
  /\ pages[b] = [at |-> "setup", checking |-> TRUE]
  /\ IF SessionUser(b) # {} THEN GoTo(b, "home")
     ELSE IF HasAnyAuthUsers THEN GoTo(b, "login") ELSE Stay(b)
  /\ UNCHANGED <<accounts, sessions, requests, operations>>

\* A page whose next call comes by itself: one that polls, or was just opened.
Calls(b) == \/ pages[b].at = "home"
            \/ pages[b].at = "panels" /\ pages[b].checking

\* fetchJson leaving the page only when no account is left.
LoadIgnoring401(b) ==
  /\ Calls(b) /\ requests[b] = None
  /\ \/ Answer(b, "viewer") = 503 /\ GoTo(b, "setup")
     \/ Answer(b, "viewer") # 503 /\ pages[b].checking /\ Stay(b)
  /\ UNCHANGED <<accounts, sessions, requests, operations>>

\* fetchJson: a page that is refused leaves.
Load(b) ==
  /\ Calls(b) /\ requests[b] = None
  /\ LET answer == Answer(b, "viewer") IN
     \/ answer = 503 /\ GoTo(b, "setup")
     \/ answer = 401 /\ GoTo(b, "login")
     \/ answer = 200 /\ pages[b].checking /\ Stay(b)
  /\ UNCHANGED <<accounts, sessions, requests, operations>>

\* A later call of a page that does not poll, if there is one: the tab gets the focus,
\* an event comes in, a button is pressed.
Reload(b) ==
  /\ pages[b] = [at |-> "panels", checking |-> FALSE] /\ requests[b] = None
  /\ \/ Answer(b, "viewer") = 503 /\ GoTo(b, "setup")
     \/ Answer(b, "viewer") = 401 /\ GoTo(b, "login")
  /\ UNCHANGED <<accounts, sessions, requests, operations>>

\* The sign-in form is sent; its button is off until the answer is there.
LoginSent(b) == pages[b].at = "login" /\ requests[b] = None

\* POST api/auth/login.  A disabled account, or none of that name, changes nothing.
Login(b) ==
  /\ Operate
  /\ LoginSent(b)
  /\ \E id \in Ids :
       /\ Active(id)
       /\ sessions' = [sessions EXCEPT ![b] = accounts[id].username]
  /\ GoTo(b, "home")
  /\ UNCHANGED <<accounts, requests>>

\* The sidebar's logout: the call that clears the cookie may fail, which is ignored.
Logout(b) ==
  /\ Operate
  /\ pages[b].at \in Dashboard /\ requests[b] = None
  /\ \/ sessions' = [sessions EXCEPT ![b] = None]
     \/ UNCHANGED sessions
  /\ GoTo(b, "login")
  /\ UNCHANGED <<accounts, requests>>

\* Twelve hours after signing in: the browser drops the cookie.
Expire(b) ==
  /\ Operate
  /\ sessions[b] # None
  /\ sessions' = [sessions EXCEPT ![b] = None]
  /\ UNCHANGED <<accounts, requests, pages>>

----------------------------------------------------------------------------
(***************************************************************************)
(* The handlers.  One that was let in awaits its body.                     *)
(***************************************************************************)

LetIn(b, kind) ==
  /\ Operate
  /\ requests[b] = None
  /\ requests' = [requests EXCEPT ![b] = kind]
  /\ UNCHANGED <<accounts, sessions, pages>>

\* The setup form is sent, whatever the page was told when it was opened.
SetupSent(b) == pages[b].at = "setup" /\ requests[b] = None

\* POST api/auth/setup is let in when no account is active, ...
BeginSetup(b) == SetupSent(b) /\ ~HasAnyAuthUsers /\ LetIn(b, "setup")

\* ... the requests of the account panels when an owner asks: ...
AsOwner(b, kind) ==
  /\ pages[b].at = "panels"
  /\ Answer(b, "owner") = 200
  /\ LetIn(b, kind)

\* the panel of a new account, ...
BeginCreate(b) == AsOwner(b, "create")

\* and saving or deleting in the panel of an account; while a panel awaits its answer,
\* its buttons are off.
BeginEdit(b) == AsOwner(b, "change") \/ AsOwner(b, "delete")

Answered(b, kind) ==
  /\ requests[b] = kind
  /\ requests' = [requests EXCEPT ![b] = None]
  /\ UNCHANGED operations

\* createAuthUser: the table refuses a username it has, a disabled account's too.
Created(username, role) ==
  /\ Named(username) = {}
  /\ \E id \in Ids :
       /\ ~Exists(id)
       /\ accounts' = [accounts EXCEPT ![id] =
            [username |-> username, role |-> role, disabled |-> FALSE]]

\* The rest of the setup handler: an owner, signed in.
FinishSetup(b) ==
  /\ Answered(b, "setup")
  /\ \E username \in Usernames :
       /\ Created(username, "owner")
       /\ sessions' = [sessions EXCEPT ![b] = username]
  /\ GoTo(b, "home")

FinishCreate(b) ==
  /\ Answered(b, "create")
  /\ \E username \in Usernames, role \in Roles : Created(username, role)
  /\ UNCHANGED <<sessions, pages>>

\* PATCH api/auth/accounts/[id]: role and disabled, of whatever account.
FinishChange(b) ==
  /\ Answered(b, "change")
  /\ \E id \in Ids, role \in Roles, disabled \in BOOLEAN :
       /\ Exists(id)
       /\ accounts' = [accounts EXCEPT ![id].role = role, ![id].disabled = disabled]
  /\ UNCHANGED <<sessions, pages>>

\* Counting the disabled owners too.
FinishDeleteAnyOwner(b) ==
  /\ Answered(b, "delete")
  /\ \E id \in Ids :
       /\ Exists(id)
       /\ accounts[id].role = "owner" =>
            Cardinality({o \in Ids : Exists(o) /\ accounts[o].role = "owner"}) > 1
       /\ accounts' = [accounts EXCEPT ![id] = None]
  /\ UNCHANGED <<sessions, pages>>

\* DELETE api/auth/accounts/[id]: an owner, even a disabled one, is deleted only while
\* two owners are active.
FinishDelete(b) ==
  /\ Answered(b, "delete")
  /\ \E id \in Ids :
       /\ Exists(id)
       /\ accounts[id].role = "owner" => Cardinality(Owners) > 1
       /\ accounts' = [accounts EXCEPT ![id] = None]
  /\ UNCHANGED <<sessions, pages>>

\* A body that is refused (400, 404) or never arrives.
Refuse(b) ==
  /\ \E kind \in Requests : Answered(b, kind)
  /\ UNCHANGED <<accounts, sessions, pages>>

----------------------------------------------------------------------------
Handle(b) == BeginSetup(b) \/ BeginCreate(b) \/ BeginEdit(b) \/ FinishSetup(b)
             \/ FinishCreate(b) \/ FinishChange(b) \/ FinishDelete(b) \/ Refuse(b)
Settle(b) == CheckLogin(b) \/ CheckSetup(b) \/ Load(b)
Use(b)    == \/ \E place \in Dashboard \cup {"login", "setup"} : Navigate(b, place)
             \/ Reload(b) \/ Login(b) \/ Logout(b) \/ Expire(b)

Next == \E b \in Browsers : Handle(b) \/ Settle(b) \/ Use(b)

\* Calls of an open page are answered, a page that polls keeps calling (in a tab that
\* is seen), and a request's body arrives or fails.
Fairness ==
  \A b \in Browsers : WF_vars(Settle(b)) /\ WF_vars(Refuse(b))

Spec == Init /\ [][Next]_vars
FairSpec == Spec /\ Fairness

----------------------------------------------------------------------------
(***************************************************************************)
(* Properties                                                              *)
(***************************************************************************)

\* The only step that takes the last active owner away is a change of that owner's
\* own row: no deletion does, however handlers that were let in earlier interleave.
OwnerLostOnlyByChange ==
  [][Owners # {} /\ Owners' = {} => \A id \in Owners : accounts'[id] # None]_vars

\* The redirects between the sign-in page, the setup page, the dashboard and the
\* middleware end: whatever accounts and cookies become, a page stops asking.
RedirectsEnd == \A b \in Browsers : []<>(~pages[b].checking)

\* A browser whose session no longer belongs to an active account leaves a page that
\* polls, or that it just opened.  (It may stay on /clients, which asks nothing, and on
\* a page that was loaded before and is not asked anything any more.)
SignedOutLeaves ==
  \A b \in Browsers :
    Calls(b) /\ SessionUser(b) = {} ~>
      pages[b].at \notin {"home", "panels"} \/ SessionUser(b) # {}

=============================================================================
