---------------------------- MODULE ClientAccess ----------------------------
(***************************************************************************)
(* When a client is served: its term, its traffic limit, and the operator  *)
(* who disables and enables it by hand.  Three parties switch the same     *)
(* client: the commands, enforce-limits and expire-due of the minute       *)
(* timer; each leaves a reason that tells the others what they may undo.   *)
(*                                                                         *)
(* clients/access.py, clients/limits.py, clients/status.py, the access     *)
(* commands of commands/client.py and clients/crud.py.                     *)
(*                                                                         *)
(* One client: no operation looks at two.  Every command is one step: it   *)
(* runs under manager.lock and changes both stores or none (ClientApply).  *)
(* Time is a clock of hours; the manager's timezone shifts the calendar by *)
(* some of them, and terms, limits and traffic are kept by local dates.    *)
(***************************************************************************)
EXTENDS Integers, FiniteSets, FiniteSetsExt

CONSTANTS
  Conns,         \* connections a credential may be for
  HoursPerDay,
  DaysPerMonth,
  Zones,         \* hours the timezones that can be set are ahead of UTC
  FirstZone,     \* the one set at the start
  Terms,         \* days an operator may give
  Limits,        \* bytes an operator may allow
  LastHour,      \* bound: the clock stops here
  LastDay,       \* bound: the last local date the clock reaches
  MaxBytes,      \* bound: bytes of one local date
  MaxCommands    \* bound: commands of the operator

ASSUME CalendarAssumption ==
  /\ HoursPerDay \in Nat \ {0}
  /\ DaysPerMonth \in Nat \ {0}
  /\ Zones \subseteq Nat
  /\ FirstZone \in Zones
  /\ Terms \subseteq Nat
  /\ Limits \subseteq Nat
  /\ {LastHour, LastDay, MaxBytes, MaxCommands} \subseteq Nat
  /\ \A z \in Zones : (LastHour + z) \div HoursPerDay <= LastDay

VARIABLES
  clock,      \* hours since the start
  zone,       \* MANAGER_TIMEZONE of server.env
  client,     \* the client's row of manager.db; on is also what config.json serves
  usage,      \* its hourly history, summed by local date
  commands,   \* how many commands the operator has given
  byHand,     \* history: the operator disabled the client and has not asked for it since
  exhausted,  \* history: periods enforce-limits has seen used up under this limit
              \* and in this timezone
  late,       \* history: expire-due has seen the present term over
  promised,   \* history: the local date up to which access was given
  torn        \* history: a set-timezone failed half-way during the present term

vars == <<clock, zone, client, usage, commands, byHand, exhausted, late, promised, torn>>
history == <<byHand, exhausted, late, promised, torn>>

Calendar == 0..LastDay

\* A term ends at midnight of a date in the timezone it was stored with.
NoTerm == [date |-> -1, zone |-> 0]
Deadlines == [date : Nat, zone : Zones] \union {NoTerm}

NoLimit == [period |-> "none", bytes |-> 0]
LimitRows == [period : {"daily", "monthly"}, bytes : Limits] \union {NoLimit}

NoKey == [period |-> "none", n |-> 0]
Keys == [period : {"daily", "monthly"}, n : Nat] \union {NoKey}

\* known: stored credentials; on: the enabled ones; exceeded: the period of
\* trafficLimitExceededPeriod.
NoClient == [known |-> {}, on |-> {}, reason |-> "none", exceeded |-> NoKey,
             limit |-> NoLimit, expires |-> NoTerm]

Init ==
  /\ clock = 0
  /\ zone = FirstZone
  /\ client = NoClient
  /\ usage = [d \in Calendar |-> 0]
  /\ commands = 0
  /\ byHand = FALSE
  /\ exhausted = {}
  /\ late = FALSE
  /\ promised = NoTerm.date
  /\ torn = FALSE

-----------------------------------------------------------------------------
(***************************************************************************)
(* Terms and limits.                                                       *)
(***************************************************************************)
Today == (clock + zone) \div HoursPerDay

Midnight(e) == e.date * HoursPerDay - e.zone

\* access_expired
Expired(c) == c.expires # NoTerm /\ clock >= Midnight(c.expires)

\* expires_at_from_days: None means no term.
TermFromToday(days) ==
  IF days = 0 THEN NoTerm ELSE [date |-> Today + days, zone |-> zone]

\* The local date of an instant, as datetime.astimezone(zone).date() gives it.
DateOf(e) == (Midnight(e) + zone) \div HoursPerDay

LaterOf(a, b) == IF a >= b THEN a ELSE b

\* extended_expires_at
Extended(c, days) ==
  [date |-> days + (IF c.expires = NoTerm THEN Today ELSE LaterOf(DateOf(c.expires), Today)),
   zone |-> zone]

\* traffic_limit_period_key
Key(limit) ==
  [period |-> limit.period,
   n |-> IF limit.period = "daily" THEN Today ELSE Today \div DaysPerMonth]

\* month_bounds: a month that is not over is counted up to today.
DaysCounted(limit) ==
  {d \in Calendar : IF limit.period = "daily" THEN d = Today
                    ELSE d <= Today /\ d \div DaysPerMonth = Today \div DaysPerMonth}

Used(limit) == MapThenSumSet(LAMBDA d : usage[d], DaysCounted(limit))

\* traffic_limit_status
Exceeded(c) == c.limit # NoLimit /\ Used(c.limit) >= c.limit.bytes

-----------------------------------------------------------------------------
(***************************************************************************)
(* What becomes of the client.                                             *)
(***************************************************************************)
\* Mutant of Cleared: the reason survives.
ClearedKeepsReason(c) == [c EXCEPT !.exceeded = NoKey]

\* clear_disabled_state
Cleared(c) == [c EXCEPT !.reason = "none", !.exceeded = NoKey]

DisabledByLimit(c) ==
  [c EXCEPT !.on = {}, !.reason = "traffic-limit", !.exceeded = Key(c.limit)]

DisabledByTerm(c) == [c EXCEPT !.on = {}, !.reason = "expired"]

\* enable_db_client, clear_disabled_state
Enabled(c) == [Cleared(c) EXCEPT !.on = c.known]

\* Mutant of Reconciled: the term is looked at first.
ReconciledTermOnly(c) ==
  IF Expired(c) THEN [DisabledByTerm(c) EXCEPT !.exceeded = NoKey] ELSE Enabled(c)

\* reconcile_client_access_status: the limit comes before the term.
Reconciled(c) ==
  CASE Exceeded(c)                -> DisabledByLimit(c)
    [] ~ Exceeded(c) /\ Expired(c) -> [DisabledByTerm(c) EXCEPT !.exceeded = NoKey]
    [] OTHER                      -> Enabled(c)

\* set_entry_traffic_limit: NoLimit also forgets that a limit disabled the client.
Limited(c, limit) ==
  IF limit # NoLimit THEN [c EXCEPT !.limit = limit]
  ELSE [c EXCEPT !.limit = NoLimit, !.exceeded = NoKey,
                 !.reason = IF @ = "traffic-limit" THEN "none" ELSE @]

-----------------------------------------------------------------------------
(***************************************************************************)
(* Commands of the operator.                                               *)
(***************************************************************************)
Exists == client.known # {}

Command == commands < MaxCommands /\ commands' = commands + 1

\* add of a new client.
Add(x, days) ==
  /\ Command
  /\ ~ Exists
  /\ client' = [NoClient EXCEPT !.known = {x}, !.on = {x}, !.expires = TermFromToday(days)]
  /\ promised' = TermFromToday(days).date
  /\ torn' = FALSE
  /\ UNCHANGED <<clock, zone, usage, byHand, exhausted, late>>

\* add of another connection: enabled with the client, if its term is not over.
AddCredential(x) ==
  /\ Command
  /\ Exists
  /\ x \notin client.known
  /\ client' = [client EXCEPT
       !.known = @ \union {x},
       !.on = IF @ # {} /\ ~ Expired(client) THEN @ \union {x} ELSE @]
  /\ UNCHANGED <<clock, zone, usage, history>>

\* The traffic rows go with the client.
Remove ==
  /\ Command
  /\ Exists
  /\ client' = NoClient
  /\ usage' = [d \in Calendar |-> 0]
  /\ byHand' = FALSE
  /\ exhausted' = {}
  /\ late' = FALSE
  /\ promised' = NoTerm.date
  /\ torn' = FALSE
  /\ UNCHANGED <<clock, zone>>

\* S = {}: without --connection.
Selected(S) == IF S = {} THEN client.known ELSE S

\* A client that is already disabled is refused, whoever disabled it.
Disable(S) ==
  /\ Command
  /\ Selected(S) \subseteq client.known
  /\ Selected(S) \intersect client.on # {}
  /\ client' = [client EXCEPT !.on = @ \ Selected(S)]
  /\ byHand' = (client.on \subseteq Selected(S))
  /\ UNCHANGED <<clock, zone, usage, exhausted, late, promised, torn>>

Enable(S) ==
  /\ Command
  /\ ~ Expired(client)
  /\ ~ Exceeded(client)
  /\ Selected(S) \subseteq client.known
  /\ ~ Selected(S) \subseteq client.on
  /\ client' = [Cleared(client) EXCEPT !.on = @ \union Selected(S)]
  /\ byHand' = FALSE
  /\ UNCHANGED <<clock, zone, usage, exhausted, late, promised, torn>>

SetDays(days) ==
  /\ Command
  /\ Exists
  /\ client' = Reconciled([client EXCEPT !.expires = TermFromToday(days)])
  /\ byHand' = FALSE
  /\ late' = FALSE
  /\ promised' = TermFromToday(days).date
  /\ torn' = FALSE
  /\ UNCHANGED <<clock, zone, usage, exhausted>>

ExtendDays(days) ==
  /\ Command
  /\ Exists
  /\ days > 0
  /\ client' = Reconciled([client EXCEPT !.expires = Extended(client, days)])
  /\ byHand' = FALSE
  /\ late' = FALSE
  /\ promised' = days + LaterOf(promised, Today)
  /\ UNCHANGED <<clock, zone, usage, exhausted, torn>>

\* set-limit and clear-limit; the check that set-limit starts afterwards takes the
\* lock again and is EnforceLimits.
SetLimit(limit) ==
  /\ Command
  /\ Exists
  /\ client' = Limited(client, limit)
  /\ exhausted' = {}
  /\ UNCHANGED <<clock, zone, usage, byHand, late, promised, torn>>

\* Mutant of AtMidnight: a client without a term is not left out.
AtMidnightAlways(e, z) == [e EXCEPT !.zone = z]

\* Mutant of AtMidnight: the instant is converted to the new timezone.
AtMidnightConverted(e, z) ==
  IF e = NoTerm THEN NoTerm
  ELSE [date |-> (Midnight(e) + z) \div HoursPerDay, zone |-> z]

\* access_deadline_at_midnight: the date stays as it is written.
AtMidnight(e, z) == IF e = NoTerm THEN NoTerm ELSE [e EXCEPT !.zone = z]

\* server.env is written first, then the terms; the second may fail.
SetTimezone(z) ==
  /\ Command
  /\ zone' = z
  /\ late' = FALSE
  /\ exhausted' = {}
  /\ \/ client' = [client EXCEPT !.expires = AtMidnight(@, z)] /\ UNCHANGED torn
     \/ Exists /\ torn' = TRUE /\ UNCHANGED client
  /\ UNCHANGED <<clock, usage, byHand, promised>>

-----------------------------------------------------------------------------
(***************************************************************************)
(* The minute timer, traffic and time.                                     *)
(***************************************************************************)
\* Mutant of Resettable: the term is not looked at.
ResettableOverdue(c) ==
  /\ c.on = {}
  /\ c.reason = "traffic-limit"
  /\ c.limit # NoLimit
  /\ ~ Exceeded(c)
  /\ c.exceeded # Key(c.limit)

\* enforce_traffic_limits, its first loop.
Resettable(c) ==
  /\ c.on = {}
  /\ c.reason = "traffic-limit"
  /\ c.limit # NoLimit
  /\ ~ Exceeded(c)
  /\ c.exceeded # Key(c.limit)
  /\ ~ Expired(c)

\* A client is enabled after a reset or disabled at its limit, never both: the
\* second loop sees the same usage.
EnforceLimits ==
  /\ client' = CASE Resettable(client)                  -> Enabled(client)
                 [] client.on # {} /\ Exceeded(client) -> DisabledByLimit(client)
                 [] OTHER                              -> client
  /\ exhausted' = exhausted \union (IF Exceeded(client) THEN {Key(client.limit)} ELSE {})
  /\ UNCHANGED <<clock, zone, usage, commands, byHand, late, promised, torn>>

\* Only a client that is served is looked at.
ExpireDue ==
  /\ client' = IF client.on # {} /\ Expired(client) THEN DisabledByTerm(client) ELSE client
  /\ late' = (late \/ Expired(client))
  /\ UNCHANGED <<clock, zone, usage, commands, byHand, exhausted, promised, torn>>

\* A sync adds what was carried to the current hour.
Record ==
  /\ client.on # {}
  /\ usage[Today] < MaxBytes
  /\ usage' = [usage EXCEPT ![Today] = @ + 1]
  /\ UNCHANGED <<clock, zone, client, commands, history>>

Tick ==
  /\ clock < LastHour
  /\ clock' = clock + 1
  /\ UNCHANGED <<zone, client, usage, commands, history>>

Next ==
  \/ \E x \in Conns : AddCredential(x) \/ \E days \in Terms : Add(x, days)
  \/ \E S \in SUBSET Conns : Disable(S) \/ Enable(S)
  \/ \E days \in Terms : SetDays(days) \/ ExtendDays(days)
  \/ \E limit \in LimitRows : SetLimit(limit)
  \/ \E z \in Zones : SetTimezone(z)
  \/ Remove
  \/ EnforceLimits \/ ExpireDue \/ Record \/ Tick

Spec == Init /\ [][Next]_vars

\* Time goes on, and the timer repeats every minute a check it had to skip.
FairSpec == Spec /\ WF_vars(Tick) /\ WF_vars(EnforceLimits)

-----------------------------------------------------------------------------
(***************************************************************************)
(* Properties.                                                             *)
(***************************************************************************)
ClientRows == [known : SUBSET Conns, on : SUBSET Conns,
               reason : {"none", "expired", "traffic-limit"}, exceeded : Keys,
               limit : LimitRows, expires : Deadlines]

\* Type invariant.
TypeOK ==
  /\ clock \in 0..LastHour
  /\ zone \in Zones
  /\ client \in ClientRows
  /\ usage \in [Calendar -> Nat]
  /\ commands \in 0..MaxCommands
  /\ byHand \in BOOLEAN
  /\ exhausted \subseteq Keys
  /\ late \in BOOLEAN
  /\ promised \in Nat \union {NoTerm.date}
  /\ torn \in BOOLEAN

\* A client the operator has disabled stays disabled until the operator gives it
\* access again, whatever the timers do later: a reason left over from an earlier
\* disabling by the limit would let enforce-limits enable it.
DisabledByHandStays == byHand => client.on = {}

\* Once enforce-limits has seen a day or a month used up, the client is not served
\* again in it under the same limit and timezone, also not after its term was
\* changed, it was enabled by hand or a connection was added.
UsedUp == client.limit # NoLimit /\ Key(client.limit) \in exhausted => client.on = {}

\* Once expire-due has seen the term over, the client is not served again before a
\* new term or timezone, also not by the reset of its limit.
ExpiredStays == late => client.on = {}

\* The term is kept to the day: commands and changes of the timezone never move the
\* date that was given, but for a set-timezone that failed half-way.
TermKept == Exists /\ ~ torn => client.expires.date = promised

LastDate == LastHour \div HoursPerDay

\* There is a later period before the clock stops, without traffic so far.
LaterPeriod(limit) ==
  /\ Key(limit).n < IF limit.period = "daily" THEN LastDate ELSE LastDate \div DaysPerMonth
  /\ \A d \in Calendar : d > Today => usage[d] = 0

Waits ==
  /\ client.reason = "traffic-limit"
  /\ client.expires = NoTerm
  /\ client.limit # NoLimit

\* A limit lasts for its period and no longer: no step leaves a client served in a period
\* it has used up; and one without a term that its limit has disabled is enabled by the timers
\* in a later period, once the operator gives no more commands.
LimitLastsItsPeriod ==
  /\ [][UsedUp']_vars
  /\ Waits /\ commands = MaxCommands /\ LaterPeriod(client.limit) ~> ~ Waits
=============================================================================
