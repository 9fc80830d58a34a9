---------------------------- MODULE InvitesProofs ----------------------------
(***************************************************************************)
(* Theorems about Invites, for any number of tokens, names, visitors and   *)
(* restarts.                                                               *)
(***************************************************************************)
EXTENDS Invites, TLAPS

TokensOK == tokens \in [Tokens -> Invite \cup {None, Gone}] /\ table \subseteq Tokens

KeysOK ==
  /\ rows \in [Uuids -> Row \cup {None, Gone}]
  /\ listed \in [Emails -> Uuids \cup {None}]
  /\ \A e \in Emails : HasKey(e) => rows[listed[e]] \in Row /\ rows[listed[e]].email = e

VisitorsOK ==
  /\ redeems \in [Visitors -> Redeem \cup {None}]
  /\ pages \in [Visitors -> Page \cup {None}]
  /\ \A v \in Visitors : redeems[v] # None => pages[v] # None

MadeOK == made \in [Tokens -> SUBSET Emails]

BoundsOK == operations \in Nat /\ restarts \in Nat

\* A key that a redemption has made is remembered as made.
MadeFirst ==
  \A v \in Visitors : redeems[v] # None /\ redeems[v].made # None =>
    redeems[v].email \in made[redeems[v].token]

LEMMA TypeParts == TypeOK <=> TokensOK /\ KeysOK /\ VisitorsOK /\ MadeOK /\ BoundsOK
  BY DEF TypeOK, TokensOK, KeysOK, VisitorsOK, MadeOK, BoundsOK

LEMMA FreshType ==
  /\ FreshUuids \subseteq {u \in Uuids : rows[u] = None}
  /\ FreshTokens \subseteq {t \in Tokens : tokens[t] = None}
  BY DEF FreshUuids, FreshTokens

----------------------------------------------------------------------------
(***************************************************************************)
(* What a step makes of an invite: it stays, is issued, goes, keeps its    *)
(* redeemer, or gets one, whose key was made through it.                   *)
(***************************************************************************)

Drawn(t)  == /\ tokens[t] = None /\ tokens'[t] \in Invite
             /\ tokens'[t].usedBy # None => tokens'[t].resend
Left(t)   == Issued(t) /\ tokens'[t] = Gone
Amended(t) == /\ Issued(t) /\ tokens'[t] \in Invite
              /\ tokens'[t].usedBy = tokens[t].usedBy
              /\ tokens'[t].resend = tokens[t].resend
Redeemed(t) == /\ Issued(t) /\ tokens[t].usedBy = None
               /\ tokens'[t] \in Invite
               /\ tokens'[t].usedBy \in made[t]
               /\ tokens'[t].resend = tokens[t].resend
TokenStep(t) ==
  tokens'[t] = tokens[t] \/ Drawn(t) \/ Left(t) \/ Amended(t) \/ Redeemed(t)

LEMMA IssuedType ==
  ASSUME TokensOK, NEW t \in Tokens PROVE Issued(t) => tokens[t] \in Invite
  BY DEF TokensOK, Issued

\* One field of one invite.
LEMMA AmendStep ==
  ASSUME TokensOK, NEW t \in Tokens, NEW i \in Invite, Issued(t),
         i.usedBy = tokens[t].usedBy, i.resend = tokens[t].resend,
         tokens' = [tokens EXCEPT ![t] = i]
  PROVE  tokens' \in [Tokens -> Invite \cup {None, Gone}] /\ \A x \in Tokens : TokenStep(x)
  BY DEF TokensOK, TokenStep, Amended

LEMMA PrunedStep ==
  ASSUME TokensOK, tokens' = Pruned
  PROVE  tokens' \in [Tokens -> Invite \cup {None, Gone}] /\ \A x \in Tokens : TokenStep(x)
  BY DEF TokensOK, TokenStep, Pruned, Left

LEMMA KeptStep ==
  ASSUME TokensOK, UNCHANGED tokens
  PROVE  tokens' \in [Tokens -> Invite \cup {None, Gone}] /\ \A x \in Tokens : TokenStep(x)
  BY DEF TokensOK, TokenStep

LEMMA TokenSteps ==
  ASSUME TokensOK, VisitorsOK, MadeFirst, [Next]_vars
  PROVE  TokensOK' /\ \A x \in Tokens : TokenStep(x)
<1> DEFINE Good == tokens' \in [Tokens -> Invite \cup {None, Gone}] /\ \A x \in Tokens : TokenStep(x)
<1>1. CASE CreateInvite
  <2>1. PICK t \in FreshTokens, p \in Profiles, delivery \in {"none", "sending", "told"} :
          \E bound \in {None} \cup {e \in Emails : HasKey(e)} : Issue(t, p, bound, delivery)
    BY <1>1 DEF CreateInvite
  <2>2. PICK bound \in {None} \cup Emails : Issue(t, p, bound, delivery)
    BY <2>1
  <2> DEFINE new == [profile |-> p, usedBy |-> bound, resend |-> bound # None,
                     late |-> FALSE, old |-> FALSE, delivery |-> delivery]
  <2>3. new \in Invite /\ (new.usedBy # None => new.resend)
    BY DEF Invite
  <2>4. t \in Tokens /\ tokens[t] = None
    BY FreshType
  <2>5. tokens' = [tokens EXCEPT ![t] = new]
    BY <2>2 DEF Issue
  <2> HIDE DEF new
  <2>6. Good
    BY <2>3, <2>4, <2>5 DEF TokensOK, TokenStep, Drawn
  <2>7. QED
    BY <1>1, <2>6 DEF CreateInvite, TokensOK
<1>2. ASSUME NEW t \in Tokens, Delivered(t) PROVE TokensOK' /\ Good
  <2>1. tokens[t] \in Invite /\ Issued(t)
    BY <1>2, IssuedType DEF Delivered
  <2>2. [tokens[t] EXCEPT !.delivery = "told"] \in Invite
    BY <2>1 DEF Invite
  <2>3. tokens' = [tokens EXCEPT ![t] = [tokens[t] EXCEPT !.delivery = "told"]]
    BY <1>2, <2>1 DEF Delivered, TokensOK, Invite
  <2>4. Good
    BY <2>1, <2>2, <2>3, AmendStep DEF Invite
  <2>5. QED
    BY <1>2, <2>4 DEF Delivered, TokensOK
<1>3. ASSUME NEW t \in Tokens, DeleteInvite(t) PROVE TokensOK' /\ Good
  <2>1. Good
    BY <1>3 DEF DeleteInvite, Deleted, TokensOK, TokenStep, Left
  <2>2. QED
    BY <1>3, <2>1 DEF DeleteInvite, TokensOK
<1>4. ASSUME NEW t \in Tokens, Age(t) PROVE TokensOK' /\ Good
  <2>1. tokens[t] \in Invite /\ Issued(t)
    BY <1>4, IssuedType DEF Age
  <2>2. [tokens[t] EXCEPT !.late = TRUE] \in Invite /\ [tokens[t] EXCEPT !.old = TRUE] \in Invite
    BY <2>1 DEF Invite
  <2>3. \/ tokens' = [tokens EXCEPT ![t] = [tokens[t] EXCEPT !.late = TRUE]]
        \/ tokens' = [tokens EXCEPT ![t] = [tokens[t] EXCEPT !.old = TRUE]]
    BY <1>4, <2>1 DEF Age, TokensOK, Invite
  <2>4. Good
    BY <2>1, <2>2, <2>3, AmendStep DEF Invite
  <2>5. QED
    BY <1>4, <2>4 DEF Age, TokensOK
<1>5. CASE ListInvites
  <2>1. Good
    BY <1>5, PrunedStep DEF ListInvites
  <2>2. QED
    BY <1>5, <2>1 DEF ListInvites, TokensOK
<1>6. CASE ListGroups
  <2>1. Good
    BY <1>6, PrunedStep DEF ListGroups
  <2>2. QED
    BY <1>6, <2>1 DEF ListGroups, TokensOK
<1>7. ASSUME NEW v \in Visitors, Answer(v) PROVE TokensOK' /\ Good
  <2> DEFINE t == redeems[v].token
             e == redeems[v].email
  <2>1. t \in Tokens /\ e \in Emails /\ e \in made[t]
    BY <1>7 DEF Answer, VisitorsOK, MadeFirst, Redeem
  <2>2. tokens' = Consumed(t, e)
    BY <1>7 DEF Answer
  <2> HIDE DEF t, e
  <2>3. ASSUME Issued(t), tokens[t].usedBy = None PROVE Good
    <3>1. tokens[t] \in Invite
      BY <2>1, <2>3, IssuedType
    <3>2. tokens' = [tokens EXCEPT ![t] = [tokens[t] EXCEPT !.usedBy = e]]
      BY <2>1, <2>2, <2>3, <3>1 DEF Consumed, TokensOK, Invite
    <3>3. [tokens[t] EXCEPT !.usedBy = e] \in Invite
      BY <2>1, <3>1 DEF Invite
    <3>4. tokens'[t].usedBy = e /\ tokens'[t].resend = tokens[t].resend
      BY <2>1, <3>1, <3>2 DEF TokensOK, Invite
    <3>5. QED
      BY <2>1, <2>3, <3>2, <3>3, <3>4 DEF TokensOK, TokenStep, Redeemed
  <2>4. ASSUME ~(Issued(t) /\ tokens[t].usedBy = None) PROVE Good
    BY <2>2, <2>4, KeptStep DEF Consumed
  <2>5. Good
    BY <2>3, <2>4
  <2>6. QED
    BY <1>7, <2>5 DEF Answer, TokensOK
<1>8. CASE Restart
  <2>1. ASSUME NEW t \in Tokens PROVE tokens'[t] \in Invite \cup {None, Gone} /\ TokenStep(t)
    <3>1. CASE Issued(t) /\ tokens[t].delivery = "sending"
      <4>1. tokens[t] \in Invite
        BY <3>1, IssuedType
      <4>2. tokens'[t] = [tokens[t] EXCEPT !.delivery = "none"]
        BY <1>8, <3>1 DEF Restart
      <4>3. tokens'[t] \in Invite /\ tokens'[t].usedBy = tokens[t].usedBy
              /\ tokens'[t].resend = tokens[t].resend
        BY <4>1, <4>2 DEF Invite
      <4>4. QED
        BY <3>1, <4>3 DEF TokenStep, Amended
    <3>2. CASE ~(Issued(t) /\ tokens[t].delivery = "sending")
      BY <1>8, <3>2 DEF Restart, TokensOK, TokenStep
    <3>3. QED
      BY <3>1, <3>2
  <2>2. Good
    BY <1>8, <2>1 DEF Restart
  <2>3. QED
    BY <1>8, <2>2 DEF Restart, TokensOK
<1>9. CASE UNCHANGED <<tokens, table>>
  BY <1>9, KeptStep DEF TokensOK
<1>10. ASSUME NEW e \in Emails, AddKey(e) PROVE UNCHANGED <<tokens, table>>
  BY <1>10 DEF AddKey
<1>11. ASSUME NEW u \in Uuids, ChangeKey(u) PROVE UNCHANGED <<tokens, table>>
  BY <1>11 DEF ChangeKey
<1>12. ASSUME NEW v \in Visitors,
              Visit(v) \/ Refresh(v) \/ Submit(v) \/ MakeKey(v) \/ Reload(v)
       PROVE  UNCHANGED <<tokens, table>>
  BY <1>12 DEF Visit, Refresh, Submit, MakeKey, Reload
<1>13. QED
  BY <1>1, <1>2, <1>3, <1>4, <1>5, <1>6, <1>7, <1>8, <1>9, <1>10, <1>11, <1>12 DEF Next, vars

----------------------------------------------------------------------------
(***************************************************************************)
(* Visitors, keys and what was made.                                       *)
(***************************************************************************)

\* Making a key gives a name that no other step gives to another one.
LEMMA MakeSteps ==
  ASSUME TokensOK, KeysOK, VisitorsOK, MadeOK, MadeFirst,
         NEW v \in Visitors, redeems[v] # None, redeems[v].made = None,
         NEW t \in Tokens, NEW e \in Emails, t = redeems[v].token, e = redeems[v].email,
         Valid(t), Make(v, t, e)
  PROVE  KeysOK' /\ VisitorsOK' /\ MadeOK' /\ MadeFirst'
<1>1. PICK u \in FreshUuids :
        /\ rows' = [rows EXCEPT ![u] = [email |-> e, profile |-> tokens[t].profile,
                                        disabled |-> FALSE, expired |-> FALSE]]
        /\ listed' = [listed EXCEPT ![e] = u]
        /\ redeems' = [redeems EXCEPT ![v].made = u]
  BY DEF Make
<1>2. made' = [made EXCEPT ![t] = @ \cup {e}] /\ UNCHANGED pages
  BY DEF Make
<1>3. u \in Uuids /\ rows[u] = None
  BY FreshType
<1>4. tokens[t].profile \in Profiles
  BY IssuedType DEF Valid, Invite
<1> DEFINE new == [email |-> e, profile |-> tokens[t].profile,
                   disabled |-> FALSE, expired |-> FALSE]
<1>5. new \in Row /\ new.email = e
  BY <1>4 DEF Row
<1>6. rows' = [rows EXCEPT ![u] = new]
  BY <1>1
<1> HIDE DEF new
<1>7. KeysOK'
  <2>1. rows' \in [Uuids -> Row \cup {None, Gone}] /\ listed' \in [Emails -> Uuids \cup {None}]
    BY <1>1, <1>3, <1>5, <1>6 DEF KeysOK
  <2>2. ASSUME NEW x \in Emails, HasKey(x)'
        PROVE  rows'[listed'[x]] \in Row /\ rows'[listed'[x]].email = x
    <3>1. CASE x = e
      BY <1>1, <1>3, <1>5, <1>6, <3>1 DEF KeysOK
    <3>2. CASE x # e
      <4>1. listed'[x] = listed[x] /\ HasKey(x)
        BY <1>1, <2>2, <3>2 DEF KeysOK, HasKey
      <4>2. rows[listed[x]] \in Row /\ rows[listed[x]].email = x /\ listed[x] \in Uuids
        BY <4>1 DEF KeysOK, HasKey
      <4>3. listed[x] # u
        BY <1>3, <4>2, InviteConstants
      <4>4. QED
        BY <1>6, <4>1, <4>2, <4>3 DEF KeysOK
    <3>3. QED
      BY <3>1, <3>2
  <2>3. QED
    BY <2>1, <2>2 DEF KeysOK
<1>8. redeems[v] \in Redeem
  BY DEF VisitorsOK
<1>9. redeems' = [redeems EXCEPT ![v] = [redeems[v] EXCEPT !.made = u]]
  BY <1>1, <1>8 DEF VisitorsOK, Redeem
<1>10. [redeems[v] EXCEPT !.made = u] \in Redeem
  BY <1>3, <1>8 DEF Redeem
<1>11. VisitorsOK'
  BY <1>2, <1>9, <1>10 DEF VisitorsOK
<1>12. MadeOK' /\ e \in made'[t] /\ \A x \in Tokens : made[x] \subseteq made'[x]
  BY <1>2 DEF MadeOK
<1>13. MadeFirst'
  <2>1. redeems'[v].token = t /\ redeems'[v].email = e
    BY <1>8, <1>9 DEF VisitorsOK, Redeem
  <2>2. \A w \in Visitors \ {v} : redeems'[w] = redeems[w]
    BY <1>9 DEF VisitorsOK
  <2>3. \A w \in Visitors : redeems[w] # None => redeems[w].token \in Tokens
    BY DEF VisitorsOK, Redeem
  <2>4. QED
    BY <1>12, <2>1, <2>2, <2>3 DEF MadeFirst
<1>14. QED
  BY <1>7, <1>11, <1>12, <1>13

LEMMA VisitorSteps ==
  ASSUME TokensOK, KeysOK, VisitorsOK, MadeOK, MadeFirst, NEW v \in Visitors,
         Visit(v) \/ Refresh(v) \/ Submit(v) \/ MakeKey(v) \/ Answer(v) \/ Reload(v)
  PROVE  KeysOK' /\ VisitorsOK' /\ MadeOK' /\ MadeFirst'
<1>1. ASSUME NEW t \in Tokens, Load(v, t)
      PROVE  pages' \in [Visitors -> Page \cup {None}] /\ \A w \in Visitors : pages[w] # None => pages'[w] # None
  <2>1. PICK shows \in {PageState(t), "invalid"} :
          pages' = [pages EXCEPT ![v] = [token |-> t, shows |-> shows, waiting |-> FALSE]]
    BY <1>1 DEF Load
  <2>2. shows \in Shown
    BY <2>1 DEF PageState, Shown
  <2>3. [token |-> t, shows |-> shows, waiting |-> FALSE] \in Page
    BY <2>2 DEF Page
  <2>4. QED
    BY <2>1, <2>3, InviteConstants DEF VisitorsOK
<1>2. ASSUME pages[v] # None PROVE pages[v] \in Page /\ pages[v].token \in Tokens
  BY <1>2 DEF VisitorsOK, Page
<1>3. ASSUME UNCHANGED <<rows, listed>> PROVE KeysOK'
  BY <1>3 DEF KeysOK, HasKey
<1>4. ASSUME UNCHANGED made, UNCHANGED redeems PROVE MadeOK' /\ MadeFirst'
  BY <1>4 DEF MadeOK, MadeFirst
<1>5. CASE Visit(v)
  BY <1>1, <1>3, <1>4, <1>5 DEF Visit, VisitorsOK
<1>6. CASE Refresh(v)
  <2>1. pages[v] # None
    BY <1>6 DEF Refresh, Offers
  <2>2. QED
    BY <1>1, <1>2, <1>3, <1>4, <1>6, <2>1 DEF Refresh, VisitorsOK
<1>7. CASE Reload(v)
  BY <1>1, <1>2, <1>3, <1>4, <1>7 DEF Reload, VisitorsOK
<1>8. CASE Submit(v)
  <2>1. pages[v] \in Page /\ pages[v] # None
    BY <1>2, <1>8 DEF Submit, Offers
  <2>2. PICK e \in Emails :
          redeems' = [redeems EXCEPT ![v] = [token |-> pages[v].token, email |-> e, made |-> None]]
    BY <1>8 DEF Submit
  <2> DEFINE new == [token |-> pages[v].token, email |-> e, made |-> None]
  <2>3. new \in Redeem /\ new.made = None
    BY <1>2, <2>1 DEF Redeem
  <2>4. pages' = [pages EXCEPT ![v] = [pages[v] EXCEPT !.waiting = TRUE]]
          /\ [pages[v] EXCEPT !.waiting = TRUE] \in Page
    BY <1>8, <2>1 DEF Submit, VisitorsOK, Page
  <2>5. redeems' = [redeems EXCEPT ![v] = new]
    BY <2>2
  <2> HIDE DEF new
  <2>6. VisitorsOK'
    BY <2>1, <2>3, <2>4, <2>5, InviteConstants DEF VisitorsOK
  <2>7. MadeOK' /\ MadeFirst'
    BY <1>8, <2>3, <2>5 DEF Submit, MadeOK, MadeFirst, VisitorsOK
  <2>8. QED
    BY <1>3, <1>8, <2>6, <2>7 DEF Submit
<1>9. ASSUME redeems[v] # None
      PROVE  pages[v] \in Page /\ pages[v] # None /\ redeems[v] \in Redeem
  BY <1>9 DEF VisitorsOK
<1>10. ASSUME redeems[v] # None, NEW p \in Page, redeems' = [redeems EXCEPT ![v] = None],
              pages' = [pages EXCEPT ![v] = p], UNCHANGED made
       PROVE  VisitorsOK' /\ MadeOK' /\ MadeFirst'
  <2>1. VisitorsOK'
    BY <1>9, <1>10, InviteConstants DEF VisitorsOK
  <2>2. QED
    BY <1>10, <2>1 DEF VisitorsOK, MadeOK, MadeFirst
<1>11. CASE MakeKey(v)
  <2>1. redeems[v] # None /\ redeems[v].made = None
    BY <1>11 DEF MakeKey
  <2> DEFINE t == redeems[v].token
             e == redeems[v].email
  <2>2. t \in Tokens /\ e \in Emails
    BY <1>9, <2>1 DEF Redeem
  <2>3. \/ Refused(v) /\ UNCHANGED <<rows, listed, made>>
        \/ Valid(t) /\ Make(v, t, e)
    BY <1>11 DEF MakeKey
  <2>4. CASE Refused(v) /\ UNCHANGED <<rows, listed, made>>
    <3>1. pages' = [pages EXCEPT ![v] = [pages[v] EXCEPT !.waiting = FALSE]]
            /\ [pages[v] EXCEPT !.waiting = FALSE] \in Page
      BY <1>9, <2>1, <2>4 DEF Refused, VisitorsOK, Page
    <3>2. QED
      BY <1>3, <1>10, <2>1, <2>4, <3>1 DEF Refused
  <2>5. CASE Valid(t) /\ Make(v, t, e)
    BY <2>1, <2>2, <2>5, MakeSteps
  <2>6. QED
    BY <2>3, <2>4, <2>5
<1>12. CASE Answer(v)
  <2>1. pages' = [pages EXCEPT ![v] = [pages[v] EXCEPT !.shows = "closed", !.waiting = FALSE]]
    BY <1>9, <1>12 DEF Answer, VisitorsOK, Page
  <2>2. [pages[v] EXCEPT !.shows = "closed", !.waiting = FALSE] \in Page
    BY <1>9, <1>12 DEF Answer, Page, Shown
  <2>3. QED
    BY <1>3, <1>10, <1>12, <2>1, <2>2 DEF Answer
<1>13. QED
  BY <1>5, <1>6, <1>7, <1>8, <1>11, <1>12

\* The keys' rows and entries change elsewhere: no name is listed under another's row.
LEMMA KeySteps ==
  ASSUME KeysOK, (\E e \in Emails : AddKey(e)) \/ (\E u \in Uuids : ChangeKey(u))
  PROVE  KeysOK'
<1>1. ASSUME NEW e \in Emails, AddKey(e) PROVE KeysOK'
  <2>1. PICK u \in FreshUuids, p \in Profiles :
          /\ rows' = [rows EXCEPT ![u] = [email |-> e, profile |-> p,
                                          disabled |-> FALSE, expired |-> FALSE]]
          /\ listed' = [listed EXCEPT ![e] = u]
    BY <1>1 DEF AddKey
  <2> DEFINE new == [email |-> e, profile |-> p, disabled |-> FALSE, expired |-> FALSE]
  <2>2. new \in Row /\ new.email = e
    BY DEF Row
  <2>3. u \in Uuids /\ rows[u] = None
    BY FreshType
  <2>4. rows' = [rows EXCEPT ![u] = new]
    BY <2>1
  <2> HIDE DEF new
  <2>5. rows' \in [Uuids -> Row \cup {None, Gone}] /\ listed' \in [Emails -> Uuids \cup {None}]
    BY <2>1, <2>2, <2>3, <2>4 DEF KeysOK
  <2>6. ASSUME NEW x \in Emails, HasKey(x)'
        PROVE  rows'[listed'[x]] \in Row /\ rows'[listed'[x]].email = x
    <3>1. CASE x = e
      BY <2>1, <2>2, <2>3, <2>4, <3>1 DEF KeysOK
    <3>2. CASE x # e
      <4>1. listed'[x] = listed[x] /\ HasKey(x)
        BY <2>1, <2>6, <3>2 DEF KeysOK, HasKey
      <4>2. rows[listed[x]] \in Row /\ rows[listed[x]].email = x /\ listed[x] \in Uuids
        BY <4>1 DEF KeysOK, HasKey
      <4>3. listed[x] # u
        BY <2>3, <4>2, InviteConstants
      <4>4. QED
        BY <2>4, <4>1, <4>2, <4>3 DEF KeysOK
    <3>3. QED
      BY <3>1, <3>2
  <2>7. QED
    BY <2>5, <2>6 DEF KeysOK
<1>2. ASSUME NEW u \in Uuids, ChangeKey(u) PROVE KeysOK'
  <2> DEFINE e == rows[u].email
  <2>1. rows[u] \in Row /\ e \in Emails
    BY <1>2 DEF ChangeKey, Row
  <2>2. /\ [rows[u] EXCEPT !.expired = TRUE] \in Row
        /\ [rows[u] EXCEPT !.expired = TRUE].email = e
        /\ [rows[u] EXCEPT !.disabled = TRUE] \in Row
        /\ [rows[u] EXCEPT !.disabled = FALSE, !.expired = FALSE] \in Row
        /\ [rows[u] EXCEPT !.disabled = FALSE, !.expired = FALSE].email = e
    BY <2>1 DEF Row
  <2>3. \A x \in Emails : x # e => listed[x] # u
    BY InviteConstants DEF KeysOK, HasKey
  <2>4. PICK field \in Row \cup {Gone} :
          /\ rows' = [rows EXCEPT ![u] = field]
          /\ \/ listed' = [listed EXCEPT ![e] = None]
             \/ field \in Row /\ field.email = e /\ UNCHANGED listed
             \/ field \in Row /\ field.email = e /\ listed' = [listed EXCEPT ![e] = u]
    BY <1>2, <2>2 DEF ChangeKey
  <2> HIDE DEF e
  <2>5. rows' \in [Uuids -> Row \cup {None, Gone}] /\ listed' \in [Emails -> Uuids \cup {None}]
    BY <2>4 DEF KeysOK
  <2>6. ASSUME NEW x \in Emails, HasKey(x)'
        PROVE  rows'[listed'[x]] \in Row /\ rows'[listed'[x]].email = x
    <3>1. CASE x = e /\ listed'[x] = u
      <4>1. field \in Row /\ field.email = e
        BY <2>1, <2>4, <2>6, <3>1, InviteConstants DEF KeysOK, HasKey
      <4>2. QED
        BY <2>4, <3>1, <4>1 DEF KeysOK
    <3>2. CASE ~(x = e /\ listed'[x] = u)
      <4>1. listed'[x] = listed[x] /\ listed[x] # u
        BY <2>1, <2>3, <2>4, <2>6, <3>2 DEF KeysOK, HasKey
      <4>2. HasKey(x) /\ listed[x] \in Uuids
        BY <2>6, <4>1 DEF KeysOK, HasKey
      <4>3. QED
        BY <2>4, <4>1, <4>2 DEF KeysOK
    <3>3. QED
      BY <3>1, <3>2
  <2>7. QED
    BY <2>5, <2>6 DEF KeysOK
<1>3. QED
  BY <1>1, <1>2

LEMMA RestartStep ==
  ASSUME KeysOK, VisitorsOK, MadeOK, MadeFirst, Restart
  PROVE  KeysOK' /\ VisitorsOK' /\ MadeOK' /\ MadeFirst'
<1>1. KeysOK' /\ MadeOK' /\ MadeFirst'
  BY DEF Restart, KeysOK, HasKey, MadeOK, MadeFirst
<1>2. ASSUME NEW v \in Visitors PROVE pages'[v] \in Page \cup {None}
  <2>1. CASE redeems[v] # None
    <3>1. pages[v] \in Page
      BY <2>1 DEF VisitorsOK
    <3>2. pages'[v] = [pages[v] EXCEPT !.waiting = FALSE]
      BY <2>1 DEF Restart
    <3>3. QED
      BY <3>1, <3>2 DEF Page
  <2>2. CASE redeems[v] = None
    BY <2>2 DEF Restart, VisitorsOK
  <2>3. QED
    BY <2>1, <2>2
<1>3. pages' \in [Visitors -> Page \cup {None}]
  BY <1>2 DEF Restart
<1>4. VisitorsOK'
  BY <1>3 DEF Restart, VisitorsOK
<1>5. QED
  BY <1>1, <1>4

----------------------------------------------------------------------------
(***************************************************************************)
(* The theorems.                                                           *)
(***************************************************************************)

\* What holds of every state; it is inductive as it stands.
Inv == TypeOK /\ MadeFirst /\ UsedNamesItsRedeemer

LEMMA InitInv == Init => Inv
<1> SUFFICES ASSUME Init PROVE Inv
  OBVIOUS
<1>1. TokensOK /\ KeysOK /\ VisitorsOK /\ MadeOK /\ BoundsOK
  BY DEF Init, TokensOK, KeysOK, VisitorsOK, MadeOK, BoundsOK, HasKey
<1>2. MadeFirst /\ UsedNamesItsRedeemer
  BY DEF Init, MadeFirst, UsedNamesItsRedeemer, Issued
<1>3. QED
  BY <1>1, <1>2, TypeParts DEF Inv

\* The history only grows, and only for invites that are valid.
LEMMA MadeGrows ==
  ASSUME TypeOK, [Next]_vars, NEW t \in Tokens
  PROVE  made[t] \subseteq made'[t] /\ (tokens[t] = Gone => made'[t] = made[t])
<1>1. TokensOK /\ VisitorsOK /\ MadeOK
  BY TypeParts
<1>2. ASSUME NEW v \in Visitors, MakeKey(v)
      PROVE  made[t] \subseteq made'[t] /\ (tokens[t] = Gone => made'[t] = made[t])
  <2> DEFINE i == redeems[v].token
             e == redeems[v].email
  <2>1. UNCHANGED made \/ (Valid(i) /\ Make(v, i, e))
    BY <1>2 DEF MakeKey
  <2>2. CASE Valid(i) /\ Make(v, i, e)
    <3>1. made' = [made EXCEPT ![i] = @ \cup {e}] /\ tokens[i] # Gone
      BY <2>2 DEF Make, Valid, Issued
    <3>2. QED
      BY <1>1, <3>1 DEF MadeOK
  <2>3. QED
    BY <2>1, <2>2
<1>3. ASSUME ~\E v \in Visitors : MakeKey(v) PROVE UNCHANGED made
  BY <1>3 DEF Next, vars, CreateInvite, ListInvites, ListGroups, Restart, Delivered,
     DeleteInvite, Age, AddKey, ChangeKey, Visit, Refresh, Submit, Answer, Reload
<1>4. QED
  BY <1>2, <1>3

LEMMA NextInv == Inv /\ [Next]_vars => Inv'
<1> SUFFICES ASSUME Inv, [Next]_vars PROVE Inv'
  OBVIOUS
<1>1. TokensOK /\ KeysOK /\ VisitorsOK /\ MadeOK /\ BoundsOK /\ MadeFirst /\ UsedNamesItsRedeemer
  BY TypeParts DEF Inv
<1>2. TokensOK' /\ \A t \in Tokens : TokenStep(t)
  BY <1>1, TokenSteps
<1>3. KeysOK' /\ VisitorsOK' /\ MadeOK' /\ MadeFirst'
  <2>1. CASE \E v \in Visitors : Visit(v) \/ Refresh(v) \/ Submit(v)
                                 \/ MakeKey(v) \/ Answer(v) \/ Reload(v)
    BY <1>1, <2>1, VisitorSteps
  <2>2. CASE Restart
    BY <1>1, <2>2, RestartStep
  <2>3. CASE UNCHANGED <<redeems, pages, made>>
    <3>1. VisitorsOK' /\ MadeOK' /\ MadeFirst'
      BY <1>1, <2>3 DEF VisitorsOK, MadeOK, MadeFirst
    <3>2. ASSUME UNCHANGED <<rows, listed>> PROVE KeysOK'
      BY <1>1, <3>2 DEF KeysOK, HasKey
    <3>3. \/ UNCHANGED <<rows, listed>>
          \/ \E e \in Emails : AddKey(e)
          \/ \E u \in Uuids : ChangeKey(u)
          \/ \E v \in Visitors : Visit(v) \/ Refresh(v) \/ Submit(v)
                                 \/ MakeKey(v) \/ Answer(v) \/ Reload(v)
      BY DEF Next, vars, CreateInvite, ListInvites, ListGroups, Restart, Delivered,
         DeleteInvite, Age
    <3>4. QED
      BY <1>1, <2>1, <3>1, <3>2, <3>3, KeySteps
  <2>4. \/ UNCHANGED <<redeems, pages, made>>
        \/ Restart
        \/ \E v \in Visitors : Visit(v) \/ Refresh(v) \/ Submit(v)
                               \/ MakeKey(v) \/ Answer(v) \/ Reload(v)
    BY DEF Next, vars, CreateInvite, ListInvites, ListGroups, Delivered,
       DeleteInvite, Age, AddKey, ChangeKey
  <2>5. QED
    BY <2>1, <2>2, <2>3, <2>4
<1>4. BoundsOK'
  <2>1. UNCHANGED operations \/ operations' = operations + 1
    BY DEF Next, vars, Operate, CreateInvite, ListInvites, ListGroups, Restart, Delivered,
       DeleteInvite, Age, AddKey, ChangeKey, Visit, Refresh, Submit, MakeKey, Answer, Reload
  <2>2. UNCHANGED restarts \/ restarts' = restarts + 1
    BY DEF Next, vars, Operate, CreateInvite, ListInvites, ListGroups, Restart, Delivered,
       DeleteInvite, Age, AddKey, ChangeKey, Visit, Refresh, Submit, MakeKey, Answer, Reload
  <2>3. QED
    BY <1>1, <2>1, <2>2 DEF BoundsOK
<1>5. UsedNamesItsRedeemer'
  <2> SUFFICES ASSUME NEW t \in Tokens, Issued(t)', ~tokens'[t].resend, tokens'[t].usedBy # None
               PROVE  tokens'[t].usedBy \in made'[t]
    BY DEF UsedNamesItsRedeemer
  <2>1. made[t] \subseteq made'[t]
    BY MadeGrows DEF Inv
  <2>2. TokenStep(t)
    BY <1>2
  <2>3. CASE tokens'[t] = tokens[t] \/ Amended(t)
    BY <1>1, <2>1, <2>3 DEF UsedNamesItsRedeemer, Amended, Issued
  <2>4. CASE Drawn(t)
    BY <2>4 DEF Drawn
  <2>5. CASE Left(t)
    BY <2>5 DEF Left, Issued
  <2>6. CASE Redeemed(t)
    BY <2>1, <2>6 DEF Redeemed
  <2>7. QED
    BY <2>2, <2>3, <2>4, <2>5, <2>6 DEF TokenStep
<1>6. QED
  BY <1>2, <1>3, <1>4, <1>5
     DEF Inv, TypeOK, TokensOK, KeysOK, VisitorsOK, MadeOK, BoundsOK

LEMMA AlwaysInv == Spec => []Inv
<1>1. QED
  BY InitInv, NextInv, PTL DEF Spec

\* Every state the dashboard's invites reach has the types it is meant to have, and a name
\* is never listed under a row that is another name's (addUser, upsertMeta, enforce).
THEOREM TypeCorrect == Spec => []TypeOK
<1>1. Inv => TypeOK
  BY DEF Inv
<1>2. QED
  BY <1>1, AlwaysInv, PTL

\* However many redemptions overlap and whatever they await, a used link names someone who
\* made a key through it: a name that is refused never burns the link (redeem/route.ts).
THEOREM UsedByRedeemer == Spec => []UsedNamesItsRedeemer
<1>1. Inv => UsedNamesItsRedeemer
  BY DEF Inv
<1>2. QED
  BY <1>1, AlwaysInv, PTL

\* Whoever is recorded first as the redeemer of a link stays recorded, though several
\* redemptions of it validated it while it was unused (consumeInviteToken).
THEOREM RedeemerKept == Spec => FirstRedeemerKeeps
<1>1. ASSUME Inv, [Next]_vars, NEW t \in Tokens, Issued(t), tokens[t].usedBy # None
      PROVE  tokens'[t] = Gone \/ tokens'[t].usedBy = tokens[t].usedBy
  <2>1. TokenStep(t)
    BY <1>1, TypeParts, TokenSteps DEF Inv
  <2>2. QED
    BY <1>1, <2>1 DEF TokenStep, Drawn, Left, Amended, Redeemed, Issued
<1>2. Inv /\ [Next]_vars =>
        [\A t \in Tokens : Issued(t) /\ tokens[t].usedBy # None =>
           tokens'[t] = Gone \/ tokens'[t].usedBy = tokens[t].usedBy]_vars
  BY <1>1
<1>3. QED
  BY <1>2, AlwaysInv, PTL DEF Spec, FirstRedeemerKeeps

\* A link that was deleted or dropped never comes back and makes no key any more, though a
\* redemption validated it before and marks it used after (consumeInviteToken).
THEOREM GoneForGood == Spec => GoneStaysGone
<1>1. ASSUME Inv, [Next]_vars, NEW t \in Tokens, tokens[t] = Gone
      PROVE  tokens'[t] = Gone /\ made'[t] = made[t]
  <2>1. TokenStep(t)
    BY <1>1, TypeParts, TokenSteps DEF Inv
  <2>2. tokens'[t] = Gone
    BY <1>1, <2>1, InviteConstants DEF TokenStep, Drawn, Left, Amended, Redeemed, Issued
  <2>3. QED
    BY <1>1, <2>2, MadeGrows DEF Inv
<1>2. Inv /\ [Next]_vars =>
        [\A t \in Tokens : tokens[t] = Gone => tokens'[t] = Gone /\ made'[t] = made[t]]_vars
  BY <1>1
<1>3. QED
  BY <1>2, AlwaysInv, PTL DEF Spec, GoneStaysGone

----------------------------------------------------------------------------
(***************************************************************************)
(* What a link, its code and its subscription show.                        *)
(***************************************************************************)

\* A name that is listed is not disabled: whoever disables a key takes it out of the
\* config in the same step.
ListedEnabled == \A e \in Emails : HasKey(e) => ~rows[listed[e]].disabled

\* A new key is listed under a row of its own, which is enabled.
LEMMA NewKeyEnabled ==
  ASSUME KeysOK, ListedEnabled, NEW e \in Emails, NEW u \in FreshUuids, NEW p,
         rows' = [rows EXCEPT ![u] = [email |-> e, profile |-> p,
                                      disabled |-> FALSE, expired |-> FALSE]],
         listed' = [listed EXCEPT ![e] = u]
  PROVE  ListedEnabled'
<1> SUFFICES ASSUME NEW x \in Emails, HasKey(x)' PROVE ~rows'[listed'[x]].disabled
  BY DEF ListedEnabled
<1>1. u \in Uuids /\ rows[u] = None
  BY FreshType
<1>2. CASE x = e
  BY <1>1, <1>2 DEF KeysOK
<1>3. CASE x # e
  <2>1. listed'[x] = listed[x] /\ HasKey(x)
    BY <1>3 DEF KeysOK, HasKey
  <2>2. rows[listed[x]] \in Row /\ listed[x] # u
    BY <1>1, <2>1, InviteConstants DEF KeysOK
  <2>3. rows'[listed'[x]] = rows[listed[x]]
    BY <2>1, <2>2 DEF KeysOK, HasKey
  <2>4. QED
    BY <2>1, <2>3 DEF ListedEnabled
<1>4. QED
  BY <1>2, <1>3

LEMMA ChangedKeyEnabled ==
  ASSUME KeysOK, ListedEnabled, NEW u \in Uuids, ChangeKey(u)
  PROVE  ListedEnabled'
<1> DEFINE e == rows[u].email
<1>1. rows[u] \in Row /\ e \in Emails
  BY DEF ChangeKey, Row
<1>2. \A x \in Emails : listed[x] = u => x = e
  BY InviteConstants DEF KeysOK, HasKey
<1>3. \/ /\ rows' = [rows EXCEPT ![u] = [rows[u] EXCEPT !.expired = TRUE]]
         /\ UNCHANGED listed
      \/ \E field : rows' = [rows EXCEPT ![u] = field] /\ listed' = [listed EXCEPT ![e] = None]
                    /\ listed[e] = u
      \/ /\ rows' = [rows EXCEPT ![u] = [rows[u] EXCEPT !.disabled = FALSE, !.expired = FALSE]]
         /\ listed' = [listed EXCEPT ![e] = u]
  BY <1>1 DEF ChangeKey
<1> HIDE DEF e
<1> SUFFICES ASSUME NEW x \in Emails, HasKey(x)' PROVE ~rows'[listed'[x]].disabled
  BY DEF ListedEnabled
<1>4. ASSUME listed'[x] = listed[x], listed[x] # u, rows'[listed[x]] = rows[listed[x]]
      PROVE  ~rows'[listed'[x]].disabled
  BY <1>4 DEF ListedEnabled, HasKey
<1>5. \A y \in Uuids \ {u} : rows'[y] = rows[y]
  BY <1>3 DEF KeysOK
<1>6. CASE rows' = [rows EXCEPT ![u] = [rows[u] EXCEPT !.expired = TRUE]] /\ UNCHANGED listed
  <2>1. rows'[u].disabled = rows[u].disabled
    BY <1>1, <1>6 DEF KeysOK, Row
  <2>2. HasKey(x) /\ listed[x] \in Uuids
    BY <1>6 DEF KeysOK, HasKey
  <2>3. QED
    BY <1>5, <1>6, <2>1, <2>2 DEF ListedEnabled
<1>7. CASE listed[e] = u /\ listed' = [listed EXCEPT ![e] = None]
  <2>1. x # e /\ listed'[x] = listed[x] /\ listed[x] \in Uuids
    BY <1>1, <1>7 DEF KeysOK, HasKey
  <2>2. QED
    BY <1>2, <1>4, <1>5, <2>1
<1>8. CASE /\ rows' = [rows EXCEPT ![u] = [rows[u] EXCEPT !.disabled = FALSE, !.expired = FALSE]]
           /\ listed' = [listed EXCEPT ![e] = u]
  <2>1. ~rows'[u].disabled
    BY <1>1, <1>8 DEF KeysOK, Row
  <2>2. CASE listed'[x] = u
    BY <2>1, <2>2
  <2>3. CASE listed'[x] # u
    <3>1. listed'[x] = listed[x] /\ listed[x] \in Uuids
      BY <1>8, <2>3 DEF KeysOK, HasKey
    <3>2. QED
      BY <1>4, <1>5, <2>3, <3>1
  <2>4. QED
    BY <2>2, <2>3
<1>9. QED
  BY <1>3, <1>6, <1>7, <1>8

LEMMA EnabledStep ==
  ASSUME Inv, ListedEnabled, [Next]_vars
  PROVE  ListedEnabled'
<1>1. KeysOK /\ VisitorsOK
  BY TypeParts DEF Inv
<1>2. CASE UNCHANGED <<rows, listed>>
  BY <1>2 DEF ListedEnabled, HasKey
<1>3. ASSUME NEW e \in Emails, AddKey(e) PROVE ListedEnabled'
  BY <1>1, <1>3, NewKeyEnabled DEF AddKey
<1>4. ASSUME NEW u \in Uuids, ChangeKey(u) PROVE ListedEnabled'
  BY <1>1, <1>4, ChangedKeyEnabled
<1>5. ASSUME NEW v \in Visitors, MakeKey(v) PROVE ListedEnabled'
  <2> DEFINE t == redeems[v].token
             e == redeems[v].email
  <2>1. e \in Emails
    BY <1>1, <1>5 DEF MakeKey, VisitorsOK, Redeem
  <2>2. UNCHANGED <<rows, listed>> \/ Make(v, t, e)
    BY <1>5 DEF MakeKey
  <2> HIDE DEF t, e
  <2>3. CASE Make(v, t, e)
    BY <1>1, <2>1, <2>3, NewKeyEnabled DEF Make
  <2>4. QED
    BY <1>2, <2>2, <2>3
<1>6. \/ UNCHANGED <<rows, listed>>
      \/ \E e \in Emails : AddKey(e)
      \/ \E u \in Uuids : ChangeKey(u)
      \/ \E v \in Visitors : MakeKey(v)
  BY DEF Next, vars, CreateInvite, ListInvites, ListGroups, Restart, Delivered,
     DeleteInvite, Age, Visit, Refresh, Submit, Answer, Reload
<1>7. QED
  BY <1>2, <1>3, <1>4, <1>5, <1>6

\* The page of a used link says active, and its code is the subscription, exactly while the
\* subscription serves something, whoever changed, deleted, rotated or disabled the key
\* meanwhile; and the operator's table agrees with the page on what is pending
\* (getInvitePageData, api/sub, api/invite/qr, statusOf).
THEOREM PageAndSubscriptionAlwaysAgree == Spec => []PageAndSubscriptionAgree
<1>1. Init => ListedEnabled
  BY DEF Init, ListedEnabled, HasKey
<1>2. Inv /\ ListedEnabled => PageAndSubscriptionAgree
  <2> SUFFICES ASSUME Inv, ListedEnabled, NEW t \in Tokens, Issued(t)
               PROVE  /\ SubUrl(t) # None =>
                           /\ (PageState(t) = "active") <=> Served(SubUrl(t))
                           /\ (QrCode(t) = SubUrl(t)) <=> Served(SubUrl(t))
                      /\ (StatusOf(t) = "pending") <=> (PageState(t) = "pending")
                      /\ StatusOf(t) = "expired" => PageState(t) = "expired"
    BY DEF PageAndSubscriptionAgree
  <2>1. KeysOK /\ TokensOK
    BY TypeParts DEF Inv
  <2>2. tokens[t].usedBy \in Emails \cup {None}
    BY <2>1, IssuedType DEF Invite
  <2>3. CASE tokens[t].usedBy = None
    BY <2>3 DEF SubUrl, StatusOf, PageState
  <2>4. CASE tokens[t].usedBy # None
    <3> DEFINE e == tokens[t].usedBy
    <3>1. StatusOf(t) = "accepted" /\ PageState(t) # "pending"
      BY <2>4 DEF StatusOf, PageState
    <3>2. ASSUME SubUrl(t) # None
          PROVE  /\ (PageState(t) = "active") <=> Served(SubUrl(t))
                 /\ (QrCode(t) = SubUrl(t)) <=> Served(SubUrl(t))
      <4>1. SubUrl(t) = listed[e] /\ HasKey(e) /\ e \in Emails
        BY <2>2, <2>4, <3>2 DEF SubUrl, HasKey
      <4>2. rows[listed[e]] \in Row /\ ~rows[listed[e]].disabled /\ listed[e] \in Uuids
        BY <2>1, <4>1 DEF KeysOK, ListedEnabled, HasKey
      <4>3. PageState(t) = IF rows[listed[e]].expired THEN "expired" ELSE "active"
        BY <2>4, <4>1, <4>2 DEF PageState
      <4>4. Served(SubUrl(t)) <=> ~rows[listed[e]].expired
        BY <4>1 DEF Served
      <4>5. t # SubUrl(t)
        BY <4>1, <4>2, InviteConstants
      <4>6. QED
        BY <3>2, <4>3, <4>4, <4>5 DEF QrCode
    <3>3. QED
      BY <3>1, <3>2
  <2>5. QED
    BY <2>3, <2>4
<1>3. QED
  BY <1>1, <1>2, EnabledStep, AlwaysInv, PTL DEF Spec

----------------------------------------------------------------------------
(***************************************************************************)
(* No one waits for nothing.  What of RedeemingEnds is not about fairness: *)
(* a page that waits has a request the dashboard works on, each request    *)
(* makes one key at most, and one that ends takes the page out of waiting. *)
(***************************************************************************)

\* The page of a request is the one its form was sent from.
UnderWay(v) ==
  IF redeems[v] = None THEN pages[v] # None => ~pages[v].waiting
  ELSE /\ pages[v].waiting /\ pages[v].shows = "pending"
       /\ pages[v].token = redeems[v].token

WaitsForItsRequest == \A v \in Visitors : UnderWay(v)

MovesOn(v) ==
  redeems[v] # None =>
    \/ redeems'[v] = redeems[v]
    \/ /\ redeems[v].made = None
       /\ \E u \in Uuids : redeems'[v] = [redeems[v] EXCEPT !.made = u]
    \/ redeems'[v] = None /\ ~pages'[v].waiting

\* What one visitor does leaves the others' requests and pages alone.
Alone(v) ==
  \A w \in Visitors \ {v} : redeems'[w] = redeems[w] /\ pages'[w] = pages[w]

LEMMA LoadShows ==
  ASSUME VisitorsOK, NEW v \in Visitors, NEW t \in Tokens, Load(v, t)
  PROVE  /\ pages'[v] # None /\ ~pages'[v].waiting
         /\ \A w \in Visitors \ {v} : pages'[w] = pages[w]
<1>1. PICK shows \in {PageState(t), "invalid"} :
        pages' = [pages EXCEPT ![v] = [token |-> t, shows |-> shows, waiting |-> FALSE]]
  BY DEF Load
<1>2. [token |-> t, shows |-> shows, waiting |-> FALSE] \in Page
  BY <1>1 DEF PageState, Shown, Page
<1>3. pages'[v] = [token |-> t, shows |-> shows, waiting |-> FALSE]
  BY <1>1 DEF VisitorsOK
<1>4. \A w \in Visitors \ {v} : pages'[w] = pages[w]
  BY <1>1 DEF VisitorsOK
<1>5. pages'[v] # None
  BY <1>2, <1>3, InviteConstants
<1>6. ~pages'[v].waiting
  BY <1>3
<1>7. QED
  BY <1>4, <1>5, <1>6

\* A page that loads is not one that waits.
LEMMA LoadWaits ==
  ASSUME VisitorsOK, NEW v \in Visitors, UnderWay(v), redeems[v] = None, UNCHANGED redeems,
         NEW t \in Tokens, Load(v, t)
  PROVE  UnderWay(v)' /\ MovesOn(v) /\ Alone(v)
BY LoadShows DEF UnderWay, MovesOn, Alone

\* A request that is refused or answered leaves a page that does not wait.
LEMMA EndedWaits ==
  ASSUME VisitorsOK, NEW v \in Visitors, redeems' = [redeems EXCEPT ![v] = None],
         NEW page \in Page, ~page.waiting, pages' = [pages EXCEPT ![v] = page]
  PROVE  UnderWay(v)' /\ MovesOn(v) /\ Alone(v)
BY DEF VisitorsOK, UnderWay, MovesOn, Alone

LEMMA VisitorMovesOn ==
  ASSUME VisitorsOK, NEW v \in Visitors, UnderWay(v),
         Visit(v) \/ Refresh(v) \/ Submit(v) \/ MakeKey(v) \/ Answer(v) \/ Reload(v)
  PROVE  UnderWay(v)' /\ MovesOn(v) /\ Alone(v)
<1>1. pages[v] # None => pages[v] \in Page /\ pages[v].token \in Tokens
  BY DEF VisitorsOK, Page
<1>2. redeems[v] # None => redeems[v] \in Redeem /\ pages[v] \in Page
  BY DEF VisitorsOK
<1>3. CASE Visit(v)
  BY <1>3, LoadWaits DEF Visit
<1>4. CASE Refresh(v)
  <2>1. pages[v] # None /\ ~pages[v].waiting
    BY <1>4 DEF Refresh, Offers
  <2>2. redeems[v] = None
    BY <2>1 DEF UnderWay
  <2>3. QED
    BY <1>1, <1>4, <2>1, <2>2, LoadWaits DEF Refresh
<1>5. CASE Reload(v)
  <2>1. redeems[v] = None /\ pages[v] # None
    BY <1>5 DEF Reload, UnderWay
  <2>2. QED
    BY <1>1, <1>5, <2>1, LoadWaits DEF Reload
<1>6. CASE Submit(v)
  <2>1. pages[v] # None /\ pages[v].shows = "pending" /\ redeems[v] = None
    BY <1>6 DEF Submit, Offers
  <2>2. PICK e \in Emails :
          redeems' = [redeems EXCEPT ![v] = [token |-> pages[v].token, email |-> e, made |-> None]]
    BY <1>6 DEF Submit
  <2> DEFINE new == [token |-> pages[v].token, email |-> e, made |-> None]
  <2>3. new \in Redeem /\ new.token = pages[v].token
    BY <1>1, <2>1 DEF Redeem
  <2>4. redeems'[v] = new /\ \A w \in Visitors \ {v} : redeems'[w] = redeems[w]
    BY <2>2 DEF VisitorsOK
  <2>5. /\ pages'[v] = [pages[v] EXCEPT !.waiting = TRUE]
        /\ \A w \in Visitors \ {v} : pages'[w] = pages[w]
    BY <1>6 DEF Submit, VisitorsOK
  <2>6. pages'[v].waiting /\ pages'[v].shows = "pending" /\ pages'[v].token = pages[v].token
    BY <1>1, <2>1, <2>5 DEF Page
  <2> HIDE DEF new
  <2>7. redeems'[v] # None
    BY <2>3, <2>4, InviteConstants
  <2>8. QED
    BY <2>1, <2>3, <2>4, <2>5, <2>6, <2>7 DEF UnderWay, MovesOn, Alone
<1>7. ASSUME redeems[v] # None, Refused(v) PROVE UnderWay(v)' /\ MovesOn(v) /\ Alone(v)
  <2> DEFINE page == [pages[v] EXCEPT !.waiting = FALSE]
  <2>1. page \in Page /\ ~page.waiting
    BY <1>2, <1>7 DEF Page
  <2>2. pages' = [pages EXCEPT ![v] = page] /\ redeems' = [redeems EXCEPT ![v] = None]
    BY <1>7 DEF Refused, VisitorsOK
  <2> HIDE DEF page
  <2>3. QED
    BY <2>1, <2>2, EndedWaits
<1>8. CASE MakeKey(v)
  <2> DEFINE t == redeems[v].token
             e == redeems[v].email
  <2>1. redeems[v] # None /\ redeems[v].made = None /\ (Refused(v) \/ Make(v, t, e))
    BY <1>8 DEF MakeKey
  <2>2. CASE Refused(v)
    BY <1>7, <2>1, <2>2
  <2>3. CASE Make(v, t, e)
    <3>1. PICK u \in FreshUuids : redeems' = [redeems EXCEPT ![v].made = u] /\ UNCHANGED pages
      BY <2>3 DEF Make
    <3>2. u \in Uuids
      BY FreshType
    <3>3. /\ redeems'[v] = [redeems[v] EXCEPT !.made = u]
          /\ \A w \in Visitors \ {v} : redeems'[w] = redeems[w]
      BY <3>1 DEF VisitorsOK
    <3>4. redeems'[v] \in Redeem /\ redeems'[v].token = redeems[v].token
      BY <1>2, <2>1, <3>2, <3>3 DEF Redeem
    <3>5. redeems'[v] # None
      BY <3>4, InviteConstants
    <3>6. QED
      BY <2>1, <3>1, <3>2, <3>3, <3>4, <3>5 DEF UnderWay, MovesOn, Alone
  <2>4. QED
    BY <2>1, <2>2, <2>3
<1>9. CASE Answer(v)
  <2> DEFINE page == [pages[v] EXCEPT !.shows = "closed", !.waiting = FALSE]
  <2>1. page \in Page /\ ~page.waiting
    BY <1>2, <1>9 DEF Answer, Page, Shown
  <2>2. pages' = [pages EXCEPT ![v] = page] /\ redeems' = [redeems EXCEPT ![v] = None]
    BY <1>2, <1>9 DEF Answer, VisitorsOK, Page
  <2> HIDE DEF page
  <2>3. QED
    BY <2>1, <2>2, EndedWaits
<1>10. QED
  BY <1>3, <1>4, <1>5, <1>6, <1>8, <1>9

LEMMA RestartMovesOn ==
  ASSUME VisitorsOK, NEW v \in Visitors, UnderWay(v), Restart
  PROVE  UnderWay(v)' /\ MovesOn(v)
<1>1. /\ redeems'[v] = None
      /\ pages'[v] = IF redeems[v] # None THEN [pages[v] EXCEPT !.waiting = FALSE] ELSE pages[v]
  BY DEF Restart
<1>2. redeems[v] # None => pages[v] \in Page
  BY DEF VisitorsOK
<1>3. redeems[v] # None => ~pages'[v].waiting
  BY <1>1, <1>2 DEF Page
<1>4. QED
  BY <1>1, <1>3 DEF UnderWay, MovesOn

LEMMA WaitingStep ==
  ASSUME VisitorsOK, WaitsForItsRequest, [Next]_vars
  PROVE  WaitsForItsRequest' /\ \A v \in Visitors : MovesOn(v)
<1>1. ASSUME UNCHANGED <<redeems, pages>>
      PROVE  WaitsForItsRequest' /\ \A v \in Visitors : MovesOn(v)
  BY <1>1 DEF WaitsForItsRequest, UnderWay, MovesOn
<1>2. CASE \/ CreateInvite \/ ListInvites \/ ListGroups
           \/ \E t \in Tokens : Delivered(t) \/ DeleteInvite(t) \/ Age(t)
           \/ \E e \in Emails : AddKey(e)
           \/ \E u \in Uuids : ChangeKey(u)
           \/ UNCHANGED vars
  <2>1. UNCHANGED <<redeems, pages>>
    BY <1>2 DEF CreateInvite, ListInvites, ListGroups, Delivered, DeleteInvite, Age, AddKey,
                ChangeKey, vars
  <2>2. QED
    BY <1>1, <2>1
<1>3. CASE Restart
  BY <1>3, RestartMovesOn DEF WaitsForItsRequest
<1>4. ASSUME NEW v \in Visitors,
             Visit(v) \/ Refresh(v) \/ Submit(v) \/ MakeKey(v) \/ Answer(v) \/ Reload(v)
      PROVE  WaitsForItsRequest' /\ \A w \in Visitors : MovesOn(w)
  <2>1. UnderWay(v)' /\ MovesOn(v) /\ Alone(v)
    BY <1>4, VisitorMovesOn DEF WaitsForItsRequest
  <2>2. ASSUME NEW w \in Visitors \ {v} PROVE UnderWay(w)' /\ MovesOn(w)
    BY <2>1, <2>2 DEF Alone, WaitsForItsRequest, UnderWay, MovesOn
  <2>3. QED
    BY <2>1, <2>2 DEF WaitsForItsRequest
<1>5. QED
  BY <1>2, <1>3, <1>4 DEF Next

\* A page that waits always has a request of its own to wait for, about the link it is the
\* page of, though the dashboard restarts in the middle and visitors' requests overlap; and a
\* request makes a key at most once, after which all it can do is end, the page no longer
\* waiting (handleSubmit, redeem/route.ts).
THEOREM NoOneWaitsForNothing ==
  Spec => []WaitsForItsRequest /\ [][\A v \in Visitors : MovesOn(v)]_vars
<1>1. Init => WaitsForItsRequest
  BY DEF Init, WaitsForItsRequest, UnderWay
<1>2. Inv /\ WaitsForItsRequest /\ [Next]_vars =>
        WaitsForItsRequest' /\ [\A v \in Visitors : MovesOn(v)]_vars
  BY TypeParts, WaitingStep DEF Inv
<1>3. QED
  BY <1>1, <1>2, AlwaysInv, PTL DEF Spec

=============================================================================
