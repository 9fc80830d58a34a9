----------------------------- MODULE Protection -----------------------------
(***************************************************************************)
(* The protection mode: what becomes of the addresses fail2ban bans.  In   *)
(* mode permanent-deny a GET of the security page or of the dashboard page *)
(* puts the bans that began since the mode was chosen on the permanent     *)
(* list of FirewallQueue.  No other code promotes a ban: the polls of the  *)
(* pages are its clock.                                                    *)
(*                                                                         *)
(* Composed with FirewallQueue: a promotion begun here is carried out      *)
(* there, step by step, while the applier works on the same files.  The    *)
(* dashboard process handles one thing at a time but for its awaits, so a  *)
(* GET is two steps: it reads fail2ban's log (and, for the security page,  *)
(* the mode), awaits the geolocation of the addresses, then applies the    *)
(* mode and answers.                                                       *)
(*                                                                         *)
(* Time is in half seconds: the log is stamped in whole seconds, the       *)
(* choice of a mode in milliseconds.                                       *)
(***************************************************************************)
EXTENDS FirewallQueue

CONSTANTS
  Kinds,         \* the GETs that apply the mode: "security", "stats" or both
  NoPoll,        \* no such GET is under way
  MaxTime,       \* bound on the clock
  MaxLines,      \* bound on the lines fail2ban writes
  MaxModes       \* bound on the choices of a mode

ASSUME ProtectionAssumption ==
  /\ Kinds \subseteq {"security", "stats"}
  /\ {MaxTime, MaxLines, MaxModes} \subseteq Nat

VARIABLES
  clock,         \* the time, in half seconds
  mode,          \* protection_mode.json: mode ...
  effective,     \* ... and effective_from, Never in temp-ban
  held,          \* the addresses fail2ban bans
  log,           \* fail2ban.log.1 and fail2ban.log
  poll,          \* poll[kind]: the GET of that kind under way
  page,          \* the last answer the security page got: the mode, and the stage
                 \* of each attacker
  written,       \* history: number of lines fail2ban wrote
  choices        \* history: number of choices of a mode

policyFile == <<mode, effective, choices>>
host       == <<clock, held, log, written>>
protection == <<host, policyFile, poll, page>>

Modes  == {"temp-ban", "permanent-deny"}
Never  == MaxTime + 1
NoBan  == MaxTime + 2
Stamps == 0 .. MaxTime
Line   == [ip : IPs, banned : BOOLEAN, at : Stamps]
Stages == {"permanent", "temp", "detected"}

ProtectionTypeOK ==
  /\ clock \in Stamps
  /\ mode \in Modes
  /\ effective \in Stamps \cup {Never}
  /\ held \in SUBSET IPs
  /\ log \in [old : Seq(Line), new : Seq(Line)]
  /\ poll \in [Kinds -> {NoPoll} \cup
                 [mode : Modes, bans : [IPs -> Stamps \cup {NoBan}]]]
  /\ page \in [mode : Modes, stage : [IPs -> Stages]]
  /\ {written, choices} \subseteq Nat

ProtectionInit ==
  /\ Init
  /\ clock = 0
  /\ mode \in Modes
  /\ effective = IF mode = "permanent-deny" THEN 0 ELSE Never
  /\ held = {}
  /\ log = [old |-> <<>>, new |-> <<>>]
  /\ poll = [kind \in Kinds |-> NoPoll]
  /\ page = [mode |-> "temp-ban", stage |-> [ip \in IPs |-> "detected"]]
  /\ written = 0 /\ choices = 0

----------------------------------------------------------------------------
(***************************************************************************)
(* fail2ban, and what the dashboard reads in its log.                      *)
(***************************************************************************)
Tick ==
  /\ clock < MaxTime
  /\ clock' = clock + 1
  /\ UNCHANGED <<vars, held, log, written, policyFile, poll, page>>

Lines    == log.old \o log.new
About(ip) == {i \in DOMAIN Lines : Lines[i].ip = ip}

\* parseFail2ban: an address is banned since its last Ban line if no Unban line
\* follows in the rotated and the current log; a ban whose line has been rotated
\* away is not seen.
BannedSince(ip) ==
  IF About(ip) = {} THEN NoBan
  ELSE LET last == Lines[CHOOSE i \in About(ip) : \A j \in About(ip) : j <= i] IN
       IF last.banned THEN last.at ELSE NoBan

\* The line of a new ban, or of the end of one, stamped in whole seconds.
NewLine(ip) == [ip |-> ip, banned |-> ip \notin held, at |-> clock - (clock % 2)]

\* fail2ban bans an address or lifts its ban.
WriteLine(ip) ==
  /\ written < MaxLines
  /\ written' = written + 1
  /\ held' = IF ip \in held THEN held \ {ip} ELSE held \cup {ip}
  /\ log' = [log EXCEPT !.new = Append(@, NewLine(ip))]
  /\ UNCHANGED <<vars, clock, policyFile, poll, page>>

\* logrotate.
Rotate ==
  /\ log.new # <<>>
  /\ log' = [old |-> log.new, new |-> <<>>]
  /\ UNCHANGED <<vars, clock, held, written, policyFile, poll, page>>

----------------------------------------------------------------------------
(***************************************************************************)
(* The dashboard's handlers.  They run while it neither queues a command   *)
(* nor promotes: those are synchronous.                                    *)
(***************************************************************************)
DashboardFree == promotion = NoPromotion /\ draft[Dashboard] = <<>>

\* setProtectionMode: an operator's POST.
SetMode(m) ==
  /\ DashboardFree
  /\ choices < MaxModes
  /\ choices' = choices + 1
  /\ mode' = m
  /\ effective' = IF m = "permanent-deny" THEN clock ELSE Never
  /\ UNCHANGED <<vars, host, poll, page>>

\* A GET up to its await: it has the bans, and "security" has the mode.
PollBegin(kind) ==
  /\ DashboardFree
  /\ poll[kind] = NoPoll
  /\ poll' = [poll EXCEPT ![kind] =
                [mode |-> mode, bans |-> [ip \in IPs |-> BannedSince(ip)]]]
  /\ UNCHANGED <<vars, host, policyFile, page>>

\* The mode the GET applies: "stats" reads it after the await.
ModeApplied(kind) == IF kind = "stats" THEN mode ELSE poll[kind].mode

\* applyProtectionModeToBans without its test that effective_from is a date.
PromotableUndated(kind) ==
  {ip \in IPs \ ListRead :
     /\ ModeApplied(kind) = "permanent-deny"
     /\ poll[kind].bans[ip] # NoBan
     /\ effective = Never \/ poll[kind].bans[ip] >= effective}

\* applyProtectionModeToBans for bans after effective_from only.
PromotableLater(kind) ==
  {ip \in IPs \ ListRead :
     /\ ModeApplied(kind) = "permanent-deny"
     /\ poll[kind].bans[ip] # NoBan
     /\ poll[kind].bans[ip] > effective}

\* The bans applyProtectionModeToBans promotes, by the list and by effective_from
\* as they are now.
Promotable(kind) ==
  {ip \in IPs \ ListRead :
     /\ ModeApplied(kind) = "permanent-deny"
     /\ poll[kind].bans[ip] # NoBan
     /\ poll[kind].bans[ip] >= effective}

\* The addresses it promoted instead of the list it leaves.
EnforcedPromoted(kind) == Promotable(kind)

\* The list it leaves, by which the answer names the permanently denied.
Enforced(kind) == ListRead \cup Promotable(kind)

\* The stage of an attacker in an answer.
StageOf(ip, enforced, bans) ==
  IF ip \in enforced THEN "permanent" ELSE IF bans[ip] # NoBan THEN "temp" ELSE "detected"

\* The rest of the GET: what there is to promote is promoted and the page is
\* answered, with the list as the promotion will leave it.
PollEnd(kind) ==
  /\ DashboardFree
  /\ poll[kind] # NoPoll
  /\ poll' = [poll EXCEPT ![kind] = NoPoll]
  /\ IF Promotable(kind) = {} THEN UNCHANGED vars ELSE PromoteBegin(Promotable(kind))
  /\ page' = IF kind = "stats" THEN page
             ELSE [mode  |-> poll[kind].mode,
                   stage |-> [ip \in IPs |-> StageOf(ip, Enforced(kind), poll[kind].bans)]]
  /\ UNCHANGED <<host, policyFile>>

----------------------------------------------------------------------------
Fail2ban == Tick \/ Rotate \/ \E ip \in IPs : WriteLine(ip)

Serve ==
  \/ \E m \in Modes : SetMode(m)
  \/ \E kind \in Kinds : PollBegin(kind) \/ PollEnd(kind)

\* What FirewallQueue does beside the promotions: commands of the operators and of
\* the vpn-api, the applier, and the synchronous steps of a promotion begun here.
Firewall ==
  /\ \/ Produce \/ Apply \/ PromoteEnd
     \/ \E ip \in IPs : PromoteQueue(ip)
  /\ UNCHANGED protection

ProtectionNext == Fail2ban \/ Serve \/ Firewall
ProtectionVars == <<vars, protection>>
ProtectionSpec == ProtectionInit /\ [][ProtectionNext]_ProtectionVars

\* The dashboard finishes what it began, and the pages poll for ever: the security
\* page every 30 s, the dashboard page every 5 s.
Promoting ==
  /\ PromoteEnd \/ ReplaceQueue(Dashboard) \/ \E ip \in IPs : PromoteQueue(ip)
  /\ UNCHANGED protection

FairProtectionSpec ==
  /\ ProtectionSpec
  /\ WF_ProtectionVars(Promoting)
  /\ \A kind \in Kinds : WF_ProtectionVars(PollBegin(kind) \/ PollEnd(kind))

----------------------------------------------------------------------------
(***************************************************************************)
(* Properties                                                              *)
(***************************************************************************)

\* A promotion is begun only in mode permanent-deny, and only for bans that began
\* after that mode was chosen: although the mode and the bans it goes by were read
\* before an await during which both may have been changed.
PromotedOnlyInForce ==
  [][promotion = NoPromotion /\ promotion' # NoPromotion =>
       /\ mode = "permanent-deny"
       /\ \A ip \in promotion'.left :
            \E kind \in Kinds :
              poll[kind] # NoPoll /\ poll[kind].bans[ip] \in effective .. MaxTime
    ]_ProtectionVars

\* A ban that began since permanent-deny was chosen and that holds as long as that
\* mode gets on the permanent list.
ToPromote(ip) ==
  mode = "permanent-deny" /\ BannedSince(ip) # NoBan /\ BannedSince(ip) >= effective
BoundReached == promotions = MaxPromotions
BansGetPromoted ==
  \A ip \in IPs : ToPromote(ip) ~> (ip \in ListRead \/ ~ToPromote(ip) \/ BoundReached)

\* Once modes, bans and lists no longer change, the security page shows the mode in
\* force and the stage of each attacker as the log and the list have it.
PageSettles ==
  <>[](BoundReached \/
       /\ page.mode = mode
       /\ \A ip \in IPs :
            page.stage[ip] = StageOf(ip, ListRead, [i \in IPs |-> BannedSince(i)]))

=============================================================================
