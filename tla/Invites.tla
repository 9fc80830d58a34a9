------------------------------ MODULE Invites ------------------------------
(***************************************************************************)
(* Invites (lib/invite-tokens.ts, api/invite, api/sub, the invite page,    *)
(* the card of sent invites): a link an operator issues, which whoever     *)
(* opens it redeems once for an access key of a name they choose.          *)
(* Redeeming awaits the sync of the running Xray between making the key    *)
(* and marking the invite used.  The operator deletes from a table of what *)
(* was there when it was loaded.                                           *)
(*                                                                         *)
(* Abstracted: the branding and policies an invite carries (the profile    *)
(* stands for what ends up in the key); the secret hash of a token; keys   *)
(* made, disabled and enabled elsewhere, which KeyLifecycle has in full.   *)
(***************************************************************************)
EXTENDS Naturals, FiniteSets

CONSTANTS
  Tokens,          \* the random tokens that may be drawn
  Emails,          \* the names that are chosen
  Uuids,           \* the ids randomUUID() may draw for keys
  Profiles,        \* the access profiles
  WithFirst,       \* the profiles that contain the first inbound's protocol
  Visitors,        \* the browsers that open links
  None, Gone,      \* not there yet, and not there any more
  MaxOperations,   \* bound on what visitors, operators and the clock do
  MaxRestarts      \* bound on restarts of the dashboard

Invite == [profile : Profiles, usedBy : Emails \cup {None}, resend : BOOLEAN,
           late : BOOLEAN, old : BOOLEAN, delivery : {"none", "sending", "told"}]
Row == [email : Emails, profile : Profiles, disabled : BOOLEAN, expired : BOOLEAN]
Redeem == [token : Tokens, email : Emails, made : Uuids \cup {None}]
Shown == {"closed", "invalid", "pending", "expired", "revoked", "active"}
Page == [token : Tokens, shows : Shown, waiting : BOOLEAN]

ASSUME InviteConstants ==
  /\ WithFirst \subseteq Profiles
  /\ None \notin Invite \cup Emails \cup Uuids \cup Row \cup Redeem \cup Page
  /\ Gone \notin Invite \cup {None}
  /\ Tokens \cap Uuids = {}        \* 24 random bytes in base64url are no UUID
  /\ MaxOperations \in Nat /\ MaxRestarts \in Nat

VARIABLES
  tokens,       \* invite_tokens.json
  table,        \* the invites the card of sent invites shows, as last loaded
  rows,         \* the table user_meta
  listed,       \* the uuid under which the inbounds of config.json list an email
  redeems,      \* per visitor, the request to redeem the dashboard works on
  pages,        \* per visitor, the page that is open
  made,         \* history: the names of the keys made through each invite
  operations, restarts

vars == <<tokens, table, rows, listed, redeems, pages, made, operations, restarts>>

Issued(t)   == tokens[t] \notin {None, Gone}
HasKey(e)   == listed[e] # None
InFirst(e)  == HasKey(e) /\ rows[listed[e]] # None /\ rows[listed[e]].profile \in WithFirst
\* Ids are drawn at random: which of those not drawn yet makes no difference.
FreshUuids  == LET unused == {u \in Uuids : rows[u] = None}
               IN IF unused = {} THEN {} ELSE {CHOOSE u \in unused : TRUE}
FreshTokens == LET unused == {t \in Tokens : tokens[t] = None}
               IN IF unused = {} THEN {} ELSE {CHOOSE t \in unused : TRUE}

TypeOK ==
  /\ tokens \in [Tokens -> Invite \cup {None, Gone}]
  /\ table \subseteq Tokens
  /\ rows \in [Uuids -> Row \cup {None, Gone}]
  /\ listed \in [Emails -> Uuids \cup {None}]
  /\ \A e \in Emails : HasKey(e) => rows[listed[e]] \in Row /\ rows[listed[e]].email = e
  /\ redeems \in [Visitors -> Redeem \cup {None}]
  /\ pages \in [Visitors -> Page \cup {None}]
  /\ \A v \in Visitors : redeems[v] # None => pages[v] # None
  /\ made \in [Tokens -> SUBSET Emails]
  /\ operations \in Nat /\ restarts \in Nat

Init ==
  /\ tokens = [t \in Tokens |-> None]
  /\ table = {}
  /\ rows = [u \in Uuids |-> None]
  /\ listed = [e \in Emails |-> None]
  /\ redeems = [v \in Visitors |-> None]
  /\ pages = [v \in Visitors |-> None]
  /\ made = [t \in Tokens |-> {}]
  /\ operations = 0 /\ restarts = 0

Operate ==
  /\ operations < MaxOperations
  /\ operations' = operations + 1
  /\ UNCHANGED restarts

----------------------------------------------------------------------------
(***************************************************************************)
(* The operator's side.                                                    *)
(***************************************************************************)

\* createInviteToken: a link sent again to a user who has a key is used from the start.
Issue(t, profile, boundEmail, delivery) ==
  /\ tokens' = [tokens EXCEPT ![t] =
       [profile |-> profile, usedBy |-> boundEmail, resend |-> boundEmail # None,
        late |-> FALSE, old |-> FALSE, delivery |-> delivery]]

\* POST api/invite.  An email with a bad address, or without SMTP, fails at once.
CreateInvite ==
  /\ Operate
  /\ \E t \in FreshTokens, p \in Profiles, delivery \in {"none", "sending", "told"} :
       \E bound \in {None} \cup {e \in Emails : HasKey(e)} : Issue(t, p, bound, delivery)
  /\ UNCHANGED <<table, rows, listed, redeems, pages, made>>

\* recordInviteDelivery, once the mail server answered; the invite may be gone by then.
Delivered(t) ==
  /\ Issued(t) /\ tokens[t].delivery = "sending"
  /\ tokens' = [tokens EXCEPT ![t].delivery = "told"]
  /\ UNCHANGED <<table, rows, listed, redeems, pages, made, operations, restarts>>

\* deleteInviteToken: the key it made, if any, stays.
Deleted(t) == IF Issued(t) THEN [tokens EXCEPT ![t] = Gone] ELSE tokens

\* SentInvitesCard: an invite of the table is ticked and deleted, whatever became of it
\* since; each of several is a request of its own.
DeleteInvite(t) ==
  /\ Operate
  /\ t \in table
  /\ tokens' = Deleted(t)
  /\ UNCHANGED <<table, rows, listed, redeems, pages, made>>

\* listInviteTokens drops invites made more than 30 days ago, valid ones too.
Pruned == [t \in Tokens |-> IF Issued(t) /\ tokens[t].old THEN Gone ELSE tokens[t]]

\* GET api/invite: what is left is what the table shows.
ListInvites ==
  /\ tokens' = Pruned
  /\ table' = {t \in Tokens : tokens'[t] \notin {None, Gone}}
  /\ UNCHANGED <<rows, listed, redeems, pages, made, operations, restarts>>

\* listGroups reads the groups of the invites too, and drops the old ones with it.
ListGroups ==
  /\ tokens' = Pruned
  /\ UNCHANGED <<table, rows, listed, redeems, pages, made, operations, restarts>>

\* The clock: an invite's own time ends, or it becomes older than 30 days.
Age(t) ==
  /\ Operate
  /\ Issued(t)
  /\ \/ ~tokens[t].late /\ tokens' = [tokens EXCEPT ![t].late = TRUE]
     \/ ~tokens[t].old /\ tokens' = [tokens EXCEPT ![t].old = TRUE]
  /\ UNCHANGED <<table, rows, listed, redeems, pages, made>>

\* An operator adds a key.
AddKey(e) ==
  /\ Operate
  /\ ~InFirst(e)
  /\ \E u \in FreshUuids, p \in Profiles :
       /\ rows' = [rows EXCEPT ![u] = [email |-> e, profile |-> p,
                                       disabled |-> FALSE, expired |-> FALSE]]
       /\ listed' = [listed EXCEPT ![e] = u]
  /\ UNCHANGED <<tokens, table, redeems, pages, made>>

\* The key changes elsewhere: it expires, is disabled (and leaves the config), is enabled
\* again, is deleted.
ChangeKey(u) ==
  /\ Operate
  /\ rows[u] \in Row
  /\ LET e == rows[u].email
         with(field) == rows' = [rows EXCEPT ![u] = field]
         list(x) == listed' = [listed EXCEPT ![e] = x]
     IN \/ ~rows[u].expired /\ with([rows[u] EXCEPT !.expired = TRUE]) /\ UNCHANGED listed
        \/ listed[e] = u /\ with([rows[u] EXCEPT !.disabled = TRUE]) /\ list(None)
        \/ /\ rows[u].disabled /\ listed[e] = None
           /\ with([rows[u] EXCEPT !.disabled = FALSE, !.expired = FALSE]) /\ list(u)
        \/ listed[e] = u /\ with(Gone) /\ list(None)
  /\ UNCHANGED <<tokens, table, redeems, pages, made>>

----------------------------------------------------------------------------
(***************************************************************************)
(* What a link and a subscription show.                                    *)
(***************************************************************************)

\* getInvitePageData without the key's expiry.
PageStateNoExpiry(t) ==
  IF ~Issued(t) THEN "invalid"
  ELSE IF tokens[t].usedBy = None THEN IF tokens[t].late THEN "expired" ELSE "pending"
  ELSE LET e == tokens[t].usedBy IN
       IF ~HasKey(e) THEN "active" ELSE IF rows[listed[e]].disabled THEN "revoked" ELSE "active"

\* getInvitePageData: a used invite shows the key that has the redeemer's name now; a name
\* without a key in the config has no row either, and so no reason not to be active.
PageState(t) ==
  IF ~Issued(t) THEN "invalid"
  ELSE IF tokens[t].usedBy = None THEN IF tokens[t].late THEN "expired" ELSE "pending"
  ELSE LET e == tokens[t].usedBy IN
       IF ~HasKey(e) THEN "active"
       ELSE IF rows[listed[e]].disabled THEN "revoked"
       ELSE IF rows[listed[e]].expired THEN "expired" ELSE "active"

\* statusOf, the status the table shows.
StatusOf(t) ==
  IF tokens[t].usedBy # None THEN "accepted"
  ELSE IF tokens[t].late THEN "expired" ELSE "pending"

\* The subscription link of the page, and the code for the VPN client.
SubUrl(t) == IF Issued(t) /\ tokens[t].usedBy # None THEN listed[tokens[t].usedBy] ELSE None
QrCode(t) == IF PageState(t) = "active" /\ SubUrl(t) # None THEN SubUrl(t) ELSE t

\* GET api/sub: 404 for a key that is not listed, nothing for one that expired.
Served(u) == (\E e \in Emails : listed[e] = u) /\ ~rows[u].expired

----------------------------------------------------------------------------
(***************************************************************************)
(* Redeeming.                                                              *)
(***************************************************************************)

\* validateInviteToken.
Valid(t) == Issued(t) /\ tokens[t].usedBy = None /\ ~tokens[t].late

\* consumeInviteToken leaving out that the invite may have been used meanwhile.
ConsumedAgain(t, e) == IF Issued(t) THEN [tokens EXCEPT ![t].usedBy = e] ELSE tokens

\* consumeInviteToken saving the invite that was validated before the await.
ConsumedStale(t, e) ==
  [tokens EXCEPT ![t] = [profile |-> CHOOSE p \in Profiles : TRUE, usedBy |-> e,
                         resend |-> FALSE, late |-> FALSE, old |-> FALSE, delivery |-> "none"]]

\* consumeInviteToken; what it answers is not looked at.
Consumed(t, e) ==
  IF Issued(t) /\ tokens[t].usedBy = None THEN [tokens EXCEPT ![t].usedBy = e] ELSE tokens

\* load: the page asks what to show; a network error shows as an invalid invite.
Load(v, t) ==
  \E shows \in {PageState(t), "invalid"} :
    pages' = [pages EXCEPT ![v] = [token |-> t, shows |-> shows, waiting |-> FALSE]]

\* A link is opened; /join sends its visitor to the same page.
Visit(v) ==
  /\ Operate
  /\ redeems[v] = None
  /\ \E t \in Tokens : tokens[t] # None /\ Load(v, t)
  /\ UNCHANGED <<tokens, table, rows, listed, redeems, made>>

\* What the page has to press: an invalid, expired or revoked one has nothing.
Offers(page) ==
  IF page = None \/ page.waiting THEN {}
  ELSE CASE page.shows = "pending" -> {"form"}
         [] page.shows = "active"  -> {"refresh", "subscription"}
         [] OTHER -> {}

\* The page of a redeemed invite is loaded again.
Refresh(v) ==
  /\ "refresh" \in Offers(pages[v])
  /\ Load(v, pages[v].token)
  /\ UNCHANGED <<tokens, table, rows, listed, redeems, made, operations, restarts>>

\* handleSubmit: the form is sent, and shows that it waits.
Submit(v) ==
  /\ Operate
  /\ "form" \in Offers(pages[v])
  /\ redeems[v] = None
  /\ \E e \in Emails :
       redeems' = [redeems EXCEPT ![v] = [token |-> pages[v].token, email |-> e, made |-> None]]
  /\ pages' = [pages EXCEPT ![v].waiting = TRUE]
  /\ UNCHANGED <<tokens, table, rows, listed, made>>

\* The answer being an error, and the form left waiting.
RefusedSilently(v) ==
  /\ redeems' = [redeems EXCEPT ![v] = None]
  /\ UNCHANGED pages

\* The answer is an error: the form comes back.
Refused(v) ==
  /\ redeems' = [redeems EXCEPT ![v] = None]
  /\ pages' = [pages EXCEPT ![v].waiting = FALSE]

\* addUser, upsertMeta and syncUserAcrossInbounds.
Make(v, t, e) ==
  \E u \in FreshUuids :
    /\ rows' = [rows EXCEPT ![u] = [email |-> e, profile |-> tokens[t].profile,
                                    disabled |-> FALSE, expired |-> FALSE]]
    /\ listed' = [listed EXCEPT ![e] = u]
    /\ made' = [made EXCEPT ![t] = @ \cup {e}]
    /\ redeems' = [redeems EXCEPT ![v].made = u]
    /\ UNCHANGED pages

\* POST api/invite/redeem marking the invite used before it knows whether the name is free.
MakeKeyUsedFirst(v) ==
  /\ redeems[v] # None /\ redeems[v].made = None
  /\ LET t == redeems[v].token
         e == redeems[v].email
     IN /\ tokens' = IF Valid(t) THEN Consumed(t, e) ELSE tokens
        /\ IF ~Valid(t) \/ InFirst(e) THEN Refused(v) /\ UNCHANGED <<rows, listed, made>>
           ELSE Make(v, t, e)
  /\ UNCHANGED <<table, operations, restarts>>

\* POST api/invite/redeem up to its await: 410, 409, or the key, its row and its entries.
MakeKey(v) ==
  /\ redeems[v] # None /\ redeems[v].made = None
  /\ LET t == redeems[v].token
         e == redeems[v].email
     IN IF ~Valid(t) \/ InFirst(e) THEN Refused(v) /\ UNCHANGED <<rows, listed, made>>
        ELSE Make(v, t, e)
  /\ UNCHANGED <<tokens, table, operations, restarts>>

\* The running Xray answered or failed: the invite is marked used, and the page loads
\* itself again.
Answer(v) ==
  /\ redeems[v] # None /\ redeems[v].made # None
  /\ tokens' = Consumed(redeems[v].token, redeems[v].email)
  /\ redeems' = [redeems EXCEPT ![v] = None]
  /\ pages' = [pages EXCEPT ![v].shows = "closed", ![v].waiting = FALSE]
  /\ UNCHANGED <<table, rows, listed, made, operations, restarts>>

\* window.location.reload.
Reload(v) ==
  /\ pages[v] # None /\ pages[v].shows = "closed"
  /\ Load(v, pages[v].token)
  /\ UNCHANGED <<tokens, table, rows, listed, redeems, made, operations, restarts>>

\* The dashboard is restarted: the requests and deliveries it worked on are lost.
Restart ==
  /\ restarts < MaxRestarts
  /\ restarts' = restarts + 1
  /\ redeems' = [v \in Visitors |-> None]
  /\ pages' = [v \in Visitors |->
                 IF redeems[v] # None THEN [pages[v] EXCEPT !.waiting = FALSE] ELSE pages[v]]
  /\ tokens' = [t \in Tokens |->
                  IF Issued(t) /\ tokens[t].delivery = "sending"
                  THEN [tokens[t] EXCEPT !.delivery = "none"] ELSE tokens[t]]
  /\ UNCHANGED <<table, rows, listed, made, operations>>

Next ==
  \/ CreateInvite \/ ListInvites \/ ListGroups \/ Restart
  \/ \E t \in Tokens : Delivered(t) \/ DeleteInvite(t) \/ Age(t)
  \/ \E e \in Emails : AddKey(e)
  \/ \E u \in Uuids : ChangeKey(u)
  \/ \E v \in Visitors : Visit(v) \/ Refresh(v) \/ Submit(v)
                         \/ MakeKey(v) \/ Answer(v) \/ Reload(v)

Spec == Init /\ [][Next]_vars

\* The dashboard works on the requests it has; the mail server and the running Xray answer
\* or the call fails; a page that is to reload does.
FairSpec ==
  /\ Spec
  /\ \A v \in Visitors : WF_vars(MakeKey(v)) /\ WF_vars(Answer(v)) /\ WF_vars(Reload(v))

----------------------------------------------------------------------------
(***************************************************************************)
(* Properties.                                                             *)
(***************************************************************************)

\* A used invite that was not sent again names someone who made a key through it: a name
\* that is refused never burns the link (redeem/route.ts, consumeInviteToken).
UsedNamesItsRedeemer ==
  \A t \in Tokens : Issued(t) /\ ~tokens[t].resend /\ tokens[t].usedBy # None
                    => tokens[t].usedBy \in made[t]

\* Four readers judge an invite apart.  When a used invite's page has a subscription link,
\* it says active exactly when that link serves something, and only then is the link what
\* its code holds (getInvitePageData, api/sub, api/invite/qr); and the operator's table
\* calls pending those whose page has the form.
PageAndSubscriptionAgree ==
  \A t \in Tokens : Issued(t) =>
    /\ SubUrl(t) # None => /\ (PageState(t) = "active") <=> Served(SubUrl(t))
                           /\ (QrCode(t) = SubUrl(t)) <=> Served(SubUrl(t))
    /\ (StatusOf(t) = "pending") <=> (PageState(t) = "pending")
    /\ StatusOf(t) = "expired" => PageState(t) = "expired"

\* Whoever is recorded as the redeemer of an invite stays so, however many redemptions are
\* under way (consumeInviteToken).
FirstRedeemerKeeps ==
  [][\A t \in Tokens : Issued(t) /\ tokens[t].usedBy # None =>
       tokens'[t] = Gone \/ tokens'[t].usedBy = tokens[t].usedBy]_vars

\* An invite that was deleted or dropped stays away and makes no key any more, though a
\* redemption read it before and marks it used after (consumeInviteToken reads again).
GoneStaysGone ==
  [][\A t \in Tokens : tokens[t] = Gone => tokens'[t] = Gone /\ made'[t] = made[t]]_vars

\* A visitor who redeems gets the form back, or a page that says what became of the link:
\* no one waits for ever, though calls fail and the dashboard restarts (handleSubmit).
RedeemingEnds ==
  \A v \in Visitors :
    (redeems[v] # None) ~>
      (IF pages[v] = None THEN FALSE ELSE pages[v].shows # "closed" /\ ~pages[v].waiting)

=============================================================================
