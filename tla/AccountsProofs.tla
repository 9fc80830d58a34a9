--------------------------- MODULE AccountsProofs ---------------------------
(***************************************************************************)
(* Theorems about Accounts, for any number of browsers, ids, usernames and *)
(* roles.                                                                  *)
(***************************************************************************)
EXTENDS Accounts, FiniteSetTheorems, TLAPS

\* No two accounts have one username, counted or compared.
LEMMA OneIsOne ==
  ASSUME NEW S \in SUBSET Ids
  PROVE  Cardinality(S) <= 1 <=> \A i, j \in S : i = j
<1>1. IsFiniteSet(S)
  BY AccountConstants, FS_Subset
<1>2. ASSUME Cardinality(S) <= 1, NEW i \in S, NEW j \in S, i # j PROVE FALSE
  <2>1. {i, j} \subseteq S /\ IsFiniteSet({i, j})
    BY <1>1, <1>2, FS_Subset
  <2>2. Cardinality({i}) = 1 /\ IsFiniteSet({i})
    BY FS_Singleton
  <2>3. Cardinality({i} \cup {j}) = 2
    BY <1>2, <2>2, FS_AddElement
  <2>4. {i} \cup {j} = {i, j}
    OBVIOUS
  <2>5. Cardinality({i, j}) <= Cardinality(S)
    BY <1>1, <2>1, FS_Subset
  <2>6. QED
    BY <1>1, <1>2, <2>3, <2>4, <2>5, FS_CardinalityType
<1>3. ASSUME \A i, j \in S : i = j PROVE Cardinality(S) <= 1
  <2>1. CASE S = {}
    BY <2>1, FS_EmptySet
  <2>2. CASE S # {}
    <3>1. PICK i \in S : TRUE
      BY <2>2
    <3>2. S = {i}
      BY <1>3, <3>1
    <3>3. QED
      BY <3>2, FS_Singleton
  <2>3. QED
    BY <2>1, <2>2
<1>4. QED
  BY <1>2, <1>3

\* What is left of the type invariant: accounts are accounts, and names are theirs alone.
AccountsOK ==
  /\ accounts \in [Ids -> Account \cup {None}]
  /\ \A i, j \in Ids : Exists(i) /\ Exists(j) /\ accounts[i].username = accounts[j].username => i = j

OthersOK ==
  /\ sessions \in [Browsers -> Usernames \cup {None}]
  /\ requests \in [Browsers -> Requests \cup {None}]
  /\ pages \in [Browsers -> Page]
  /\ operations \in Nat

LEMMA TypeParts == TypeOK <=> AccountsOK /\ OthersOK
<1>1. ASSUME accounts \in [Ids -> Account \cup {None}], NEW username \in Usernames
      PROVE  Named(username) \in SUBSET Ids
                /\ (Cardinality(Named(username)) <= 1
                      <=> \A i, j \in Named(username) : i = j)
  <2>1. Named(username) \in SUBSET Ids
    BY DEF Named
  <2>2. QED
    BY <2>1, OneIsOne
<1>2. ASSUME accounts \in [Ids -> Account \cup {None}]
      PROVE  (\A username \in Usernames : \A i, j \in Named(username) : i = j)
               <=> AccountsOK
  <2>1. \A i \in Ids : Exists(i) => accounts[i].username \in Usernames
    BY <1>2 DEF Exists, Account
  <2>2. QED
    BY <1>2, <2>1 DEF AccountsOK, Named
<1>3. QED
  BY <1>1, <1>2 DEF TypeOK, AccountsOK, OthersOK

----------------------------------------------------------------------------
(***************************************************************************)
(* The accounts and everything else stay well-formed.                      *)
(***************************************************************************)

LEMMA InitType == Init => AccountsOK /\ OthersOK
  BY AccountConstants DEF Init, AccountsOK, OthersOK, Exists, Page

\* The pages lead browsers around and sign them in; accounts they leave alone.
LEMMA BrowsingType ==
  ASSUME OthersOK, accounts \in [Ids -> Account \cup {None}], NEW b \in Browsers,
         Settle(b) \/ Use(b)
  PROVE  OthersOK' /\ UNCHANGED accounts
<1>1. ASSUME NEW place \in Dashboard \cup {"login", "setup"}, GoTo(b, place)
      PROVE  pages' \in [Browsers -> Page]
  BY <1>1 DEF GoTo, OthersOK, Page
<1>2. ASSUME Stay(b) PROVE pages' \in [Browsers -> Page]
  BY <1>2 DEF Stay, OthersOK, Page
<1>3. Operate => operations' \in Nat
  BY DEF Operate, OthersOK
<1>4. CASE Settle(b)
  BY <1>1, <1>2, <1>4 DEF Settle, CheckLogin, CheckSetup, Load, OthersOK, Dashboard
<1>5. CASE \E place \in Dashboard \cup {"login", "setup"} : Navigate(b, place)
  BY <1>1, <1>3, <1>5 DEF Navigate, OthersOK
<1>6. CASE Login(b)
  <2>1. PICK id \in Ids : Active(id) /\ sessions' = [sessions EXCEPT ![b] = accounts[id].username]
    BY <1>6 DEF Login
  <2>2. accounts[id].username \in Usernames
    BY <2>1 DEF Active, Exists, Account
  <2>3. QED
    BY <1>1, <1>3, <1>6, <2>1, <2>2 DEF Login, OthersOK, Dashboard
<1>7. CASE Logout(b)
  BY <1>1, <1>3, <1>7 DEF Logout, OthersOK
<1>8. CASE Expire(b)
  BY <1>3, <1>8 DEF Expire, OthersOK
<1>9. CASE Reload(b)
  BY <1>1, <1>9 DEF Reload, OthersOK
<1>10. QED
  BY <1>4, <1>5, <1>6, <1>7, <1>8, <1>9 DEF Use

\* What a handler leaves of the accounts: as they were, one more, one changed in role or
\* switched on or off, or one less.
Kept          == UNCHANGED accounts
OneMore       == \E username \in Usernames, role \in Roles : Created(username, role)
OneChanged    == \E id \in Ids, role \in Roles, disabled \in BOOLEAN :
                   /\ Exists(id)
                   /\ accounts' = [accounts EXCEPT ![id].role = role, ![id].disabled = disabled]
OneLess       == \E id \in Ids :
                   /\ Exists(id)
                   /\ accounts[id].role = "owner" => Cardinality(Owners) > 1
                   /\ accounts' = [accounts EXCEPT ![id] = None]

LEMMA HandlersType ==
  ASSUME OthersOK, NEW b \in Browsers, Handle(b)
  PROVE  OthersOK' /\ (Kept \/ OneMore \/ OneChanged \/ OneLess)
<1>1. ASSUME NEW kind \in Requests, LetIn(b, kind) PROVE OthersOK' /\ Kept
  BY <1>1 DEF LetIn, Operate, OthersOK, Kept
<1>2. ASSUME NEW kind, Answered(b, kind)
      PROVE  requests' \in [Browsers -> Requests \cup {None}] /\ operations' \in Nat
  BY <1>2 DEF Answered, OthersOK
<1>3. CASE BeginSetup(b) \/ BeginCreate(b) \/ BeginEdit(b)
  BY <1>1, <1>3 DEF BeginSetup, BeginCreate, BeginEdit, AsOwner, Requests
<1>4. CASE FinishSetup(b)
  <2>1. PICK username \in Usernames :
          Created(username, "owner") /\ sessions' = [sessions EXCEPT ![b] = username]
    BY <1>4 DEF FinishSetup
  <2>2. OneMore
    BY <2>1, AccountConstants DEF OneMore
  <2>3. pages' \in [Browsers -> Page]
    BY <1>4 DEF FinishSetup, GoTo, OthersOK, Page, Dashboard
  <2>4. QED
    BY <1>2, <1>4, <2>1, <2>2, <2>3 DEF FinishSetup, OthersOK
<1>5. CASE FinishCreate(b)
  BY <1>2, <1>5 DEF FinishCreate, OneMore, OthersOK
<1>6. CASE FinishChange(b)
  BY <1>2, <1>6 DEF FinishChange, OneChanged, OthersOK
<1>7. CASE FinishDelete(b)
  BY <1>2, <1>7 DEF FinishDelete, OneLess, OthersOK
<1>8. CASE Refuse(b)
  BY <1>2, <1>8 DEF Refuse, Kept, OthersOK
<1>9. QED
  BY <1>3, <1>4, <1>5, <1>6, <1>7, <1>8 DEF Handle

\* Each of the four leaves every username to one account.
LEMMA ChangesType ==
  ASSUME AccountsOK, Kept \/ OneMore \/ OneChanged \/ OneLess PROVE AccountsOK'
<1>1. CASE Kept
  BY <1>1 DEF Kept, AccountsOK, Exists
<1>2. CASE OneMore
  <2>1. PICK username \in Usernames, role \in Roles, id \in Ids :
          /\ Named(username) = {} /\ ~Exists(id)
          /\ accounts' = [accounts EXCEPT ![id] =
               [username |-> username, role |-> role, disabled |-> FALSE]]
    BY <1>2 DEF OneMore, Created
  <2>2. accounts' \in [Ids -> Account \cup {None}]
    BY <2>1 DEF AccountsOK, Account
  <2>3. accounts'[id].username = username
    BY <2>1 DEF AccountsOK
  <2>4. \A j \in Ids \ {id} : accounts'[j] = accounts[j]
    BY <2>1 DEF AccountsOK
  <2>5. \A j \in Ids : Exists(j) => accounts[j].username # username
    BY <2>1 DEF Named
  <2>6. QED
    BY <2>2, <2>3, <2>4, <2>5 DEF AccountsOK, Exists
<1>3. CASE OneChanged
  <2>1. PICK id \in Ids, role \in Roles, disabled \in BOOLEAN :
          /\ Exists(id)
          /\ accounts' = [accounts EXCEPT ![id].role = role, ![id].disabled = disabled]
    BY <1>3 DEF OneChanged
  <2>2. accounts[id] \in Account
    BY <2>1 DEF AccountsOK, Exists
  <2>3. accounts' = [accounts EXCEPT ![id] =
                       [accounts[id] EXCEPT !.role = role, !.disabled = disabled]]
    BY <2>1, <2>2 DEF AccountsOK, Account
  <2>4. [accounts[id] EXCEPT !.role = role, !.disabled = disabled] \in Account
    BY <2>2 DEF Account
  <2>5. accounts'[id].username = accounts[id].username /\ accounts' \in [Ids -> Account \cup {None}]
    BY <2>2, <2>3, <2>4 DEF AccountsOK, Account
  <2>6. \A j \in Ids \ {id} : accounts'[j] = accounts[j]
    BY <2>3 DEF AccountsOK
  <2>7. QED
    BY <2>1, <2>5, <2>6 DEF AccountsOK, Exists
<1>4. CASE OneLess
  <2>1. PICK id \in Ids : accounts' = [accounts EXCEPT ![id] = None]
    BY <1>4 DEF OneLess
  <2>2. QED
    BY <2>1 DEF AccountsOK, Exists
<1>5. QED
  BY <1>1, <1>2, <1>3, <1>4

LEMMA StepType ==
  ASSUME AccountsOK, OthersOK, [Next]_vars
  PROVE  AccountsOK' /\ OthersOK' /\ (Kept \/ OneMore \/ OneChanged \/ OneLess)
<1>1. CASE UNCHANGED vars
  BY <1>1, ChangesType DEF vars, Kept, OthersOK
<1>2. ASSUME NEW b \in Browsers, Handle(b) \/ Settle(b) \/ Use(b)
      PROVE  OthersOK' /\ (Kept \/ OneMore \/ OneChanged \/ OneLess)
  BY <1>2, BrowsingType, HandlersType DEF AccountsOK, Kept
<1>3. QED
  BY <1>1, <1>2, ChangesType DEF Next

\* Accounts, cookies and requests stay well-formed, and a username is never given to two
\* accounts, although two handlers that were let in may create accounts (createAuthUser).
THEOREM TypeCorrect == Spec => []TypeOK
<1>1. Init => AccountsOK /\ OthersOK
  BY InitType
<1>2. AccountsOK /\ OthersOK /\ [Next]_vars => (AccountsOK /\ OthersOK)'
  BY StepType
<1>3. AccountsOK /\ OthersOK => TypeOK
  BY TypeParts
<1>4. QED
  BY <1>1, <1>2, <1>3, PTL DEF Spec

----------------------------------------------------------------------------
(***************************************************************************)
(* Owners.                                                                 *)
(***************************************************************************)

\* Deleting an account leaves an owner if there was one: an owner is deleted only while
\* another is active, whoever was let in to delete.
LEMMA DeletionLeavesOwner ==
  ASSUME AccountsOK, OneLess, Owners # {} PROVE Owners' # {}
<1>1. PICK id \in Ids :
        /\ accounts[id].role = "owner" => Cardinality(Owners) > 1
        /\ accounts' = [accounts EXCEPT ![id] = None]
  BY DEF OneLess
<1>2. Owners \ {id} \subseteq Owners'
  BY <1>1 DEF Owners, Active, Exists, AccountsOK
<1>3. ASSUME Owners \subseteq {id} PROVE FALSE
  <2>1. Owners = {id}
    BY <1>3
  <2>2. Cardinality(Owners) = 1
    BY <2>1, FS_Singleton
  <2>3. accounts[id].role = "owner"
    BY <2>1 DEF Owners
  <2>4. QED
    BY <1>1, <2>2, <2>3
<1>4. QED
  BY <1>2, <1>3

\* Of what a handler does to the accounts, only a change of an owner's own row takes the last
\* active owner away (PATCH api/auth/accounts/[id]).
THEOREM OwnerLostOnlyWhenChanged == Spec => OwnerLostOnlyByChange
<1> DEFINE Lost == Owners # {} /\ Owners' = {} => \A id \in Owners : accounts'[id] # None
<1>1. ASSUME AccountsOK, Kept \/ OneMore \/ OneChanged PROVE Lost
  <2>1. ASSUME NEW id \in Ids, accounts[id] \in Account, AccountsOK'
        PROVE  Kept \/ OneMore => accounts'[id] = accounts[id]
    BY <1>1, <2>1, AccountConstants DEF AccountsOK, Kept, OneMore, Created, Exists
  <2>2. Kept \/ OneMore => Owners \subseteq Owners'
    BY <1>1, <2>1, ChangesType DEF AccountsOK, Owners, Active, Exists
  <2>3. ASSUME OneChanged PROVE \A id \in Owners : accounts'[id] # None
    <3>1. PICK id \in Ids, role \in Roles, disabled \in BOOLEAN :
            /\ Exists(id)
            /\ accounts' = [accounts EXCEPT ![id].role = role, ![id].disabled = disabled]
      BY <2>3 DEF OneChanged
    <3>2. accounts[id] \in Account
      BY <1>1, <3>1 DEF AccountsOK, Exists
    <3>3. accounts'[id] = [accounts[id] EXCEPT !.role = role, !.disabled = disabled]
      BY <1>1, <3>1, <3>2 DEF AccountsOK, Account
    <3>4. accounts'[id] \in Account
      BY <3>2, <3>3 DEF Account
    <3>5. \A j \in Ids \ {id} : accounts'[j] = accounts[j]
      BY <1>1, <3>1 DEF AccountsOK
    <3>6. QED
      BY <3>4, <3>5, AccountConstants DEF Owners, Active, Exists
  <2>4. QED
    BY <1>1, <2>2, <2>3
<1>2. AccountsOK /\ OthersOK /\ [Next]_vars => Lost
  BY <1>1, StepType, DeletionLeavesOwner
<1>3. AccountsOK /\ OthersOK /\ [Next]_vars => [Lost]_vars
  BY <1>2
<1>4. Init => AccountsOK /\ OthersOK
  BY InitType
<1>5. AccountsOK /\ OthersOK /\ [Next]_vars => (AccountsOK /\ OthersOK)'
  BY StepType
<1>6. QED
  BY <1>3, <1>4, <1>5, PTL DEF Spec, OwnerLostOnlyByChange

----------------------------------------------------------------------------
(***************************************************************************)
(* Redirects.  What of RedirectsEnd and SignedOutLeaves is not about       *)
(* fairness: where the answers lead a browser.                             *)
(***************************************************************************)

\* Where a browser belongs, and where it is: the dashboard's pages are one place.
Belongs(b) ==
  IF SessionUser(b) # {} THEN "dashboard" ELSE IF HasAnyAuthUsers THEN "login" ELSE "setup"

PlaceOf(page) == IF page.at \in Dashboard THEN "dashboard" ELSE page.at

\* One answer takes a page where its browser belongs, and one that is there stays and stops
\* asking.
Led(b) ==
  Settle(b) \/ Reload(b) =>
    /\ PlaceOf(pages[b])' = Belongs(b)'
    /\ PlaceOf(pages[b]) = Belongs(b) => pages'[b] = [pages[b] EXCEPT !.checking = FALSE]

\* The dashboard's data is shown to every role: who is signed in is not refused.
LEMMA AnswerIs ==
  ASSUME AccountsOK, NEW b
  PROVE  /\ SessionUser(b) # {} => Answer(b, "viewer") = 200
         /\ SessionUser(b) = {} /\ HasAnyAuthUsers => Answer(b, "viewer") = 401
         /\ ~HasAnyAuthUsers => Answer(b, "viewer") = 503 /\ SessionUser(b) = {}
<1>1. SessionUser(b) # {} => HasAnyAuthUsers
  BY DEF SessionUser, HasAnyAuthUsers
<1>2. ASSUME NEW id \in SessionUser(b)
      PROVE  Level[accounts[id].role] >= Level["viewer"]
  <2>1. accounts[id].role \in {"viewer", "operator", "admin", "owner"}
    BY <1>2, AccountConstants DEF SessionUser, Active, Exists, AccountsOK, Account, Level
  <2>2. QED
    BY <2>1 DEF Level
<1>3. QED
  BY <1>1, <1>2 DEF Answer

LEMMA SettleLeads ==
  ASSUME AccountsOK, OthersOK, NEW b \in Browsers
  PROVE  Led(b)
<1> SUFFICES ASSUME Settle(b) \/ Reload(b)
             PROVE  /\ PlaceOf(pages[b])' = Belongs(b)'
                    /\ PlaceOf(pages[b]) = Belongs(b) =>
                         pages'[b] = [pages[b] EXCEPT !.checking = FALSE]
  BY DEF Led
<1>1. pages \in [Browsers -> Page]
  BY DEF OthersOK
<1>2. Belongs(b)' = Belongs(b)
  BY DEF Settle, CheckLogin, CheckSetup, Load, Reload, Belongs, SessionUser, HasAnyAuthUsers,
         Active, Exists
<1>3. ASSUME NEW place, GoTo(b, place)
      PROVE  pages'[b].at = place
  BY <1>1, <1>3 DEF GoTo
<1>4. ASSUME Stay(b)
      PROVE  /\ pages'[b] = [pages[b] EXCEPT !.checking = FALSE]
             /\ pages'[b].at = pages[b].at
  BY <1>1, <1>4 DEF Stay, Page
<1>5. CASE CheckLogin(b)
  BY <1>2, <1>3, <1>4, <1>5, AnswerIs DEF CheckLogin, Belongs, PlaceOf, Dashboard
<1>6. CASE CheckSetup(b)
  BY <1>2, <1>3, <1>4, <1>6, AnswerIs DEF CheckSetup, Belongs, PlaceOf, Dashboard
<1>7. CASE Load(b) \/ Reload(b)
  <2>1. PlaceOf(pages[b]) = "dashboard"
    BY <1>7 DEF Load, Reload, Calls, PlaceOf, Dashboard
  <2>2. \/ ~HasAnyAuthUsers /\ GoTo(b, "setup")
        \/ SessionUser(b) = {} /\ HasAnyAuthUsers /\ GoTo(b, "login")
        \/ SessionUser(b) # {} /\ Stay(b)
    BY <1>7, AnswerIs DEF Load, Reload
  <2>3. SessionUser(b) # {} => HasAnyAuthUsers
    BY DEF SessionUser, HasAnyAuthUsers
  <2>4. QED
    BY <1>2, <1>3, <1>4, <2>1, <2>2, <2>3 DEF Belongs, PlaceOf, Dashboard
<1>8. QED
  BY <1>5, <1>6, <1>7 DEF Settle

\* However many accounts and browsers there are and whatever cookies hold, the sign-in page, the
\* setup page and the dashboard never send a browser round: each answer of api/auth/session or
\* of a refused call leads straight to where the browser belongs, and the next one to rest.
THEOREM RedirectsLeadHome == Spec => [][\A b \in Browsers : Led(b)]_vars
<1>1. AccountsOK /\ OthersOK => \A b \in Browsers : Led(b)
  BY SettleLeads
<1>2. AccountsOK /\ OthersOK /\ [Next]_vars => [\A b \in Browsers : Led(b)]_vars
  BY <1>1
<1>3. Init => AccountsOK /\ OthersOK
  BY InitType
<1>4. AccountsOK /\ OthersOK /\ [Next]_vars => (AccountsOK /\ OthersOK)'
  BY StepType
<1>5. QED
  BY <1>2, <1>3, <1>4, PTL DEF Spec

=============================================================================
