-------------------------- MODULE ClientAccessProofs --------------------------
(***************************************************************************)
(* Proofs about ClientAccess, for any calendar, timezones, terms, limits   *)
(* and bounds.  What a sum of traffic comes to is never looked at: Exceeded *)
(* stays a closed predicate here, so LimitLastsItsPeriod is left to TLC.           *)
(***************************************************************************)
EXTENDS ClientAccess, TLAPS

-----------------------------------------------------------------------------
(***************************************************************************)
(* The calendar.                                                           *)
(***************************************************************************)
\* Dates and months are natural numbers: floor division by a positive number.
LEMMA FloorNat ==
  ASSUME NEW a \in Nat, NEW n \in Nat \ {0}
  PROVE  a \div n \in Nat
  OBVIOUS

\* datetime.date() of a local midnight is the date it was made from.
LEMMA FloorOfProduct ==
  ASSUME NEW a \in Nat, NEW n \in Nat \ {0}
  PROVE  (a * n) \div n = a
  OBVIOUS

LEMMA FloorInt ==
  ASSUME NEW a \in Int, NEW n \in Nat \ {0}
  PROVE  a \div n \in Int
  OBVIOUS

LEMMA TodayNat ==
  ASSUME TypeOK
  PROVE  Today \in Nat
  <1>1. clock + zone \in Nat
    BY CalendarAssumption DEF TypeOK
  <1> QED
    BY <1>1, FloorNat, CalendarAssumption DEF Today

LEMMA KeyType ==
  ASSUME TypeOK, NEW limit \in LimitRows \ {NoLimit}
  PROVE  Key(limit) \in Keys
  <1>1. Today \in Nat /\ Today \div DaysPerMonth \in Nat
    BY TodayNat, FloorNat, CalendarAssumption
  <1>2. limit.period \in {"daily", "monthly"}
    BY DEF LimitRows
  <1> QED
    BY <1>1, <1>2 DEF Key, Keys

LEMMA TermFromTodayType ==
  ASSUME TypeOK, NEW days \in Terms
  PROVE  /\ TermFromToday(days) \in Deadlines
         /\ TermFromToday(days) # NoTerm => TermFromToday(days).zone = zone
         /\ TermFromToday(days).date \in Nat \union {NoTerm.date}
  <1>1. days \in Nat /\ Today + days \in Nat /\ zone \in Zones
    BY TodayNat, CalendarAssumption DEF TypeOK
  <1> QED
    BY <1>1 DEF TermFromToday, Deadlines, NoTerm

LEMMA ExtendedType ==
  ASSUME TypeOK, NEW days \in Terms, days > 0
  PROVE  /\ Extended(client, days) \in Deadlines
         /\ Extended(client, days) # NoTerm
         /\ Extended(client, days).zone = zone
  <1>1. days \in Nat /\ Today \in Nat /\ zone \in Zones /\ zone \in Nat /\ client.expires \in Deadlines
    BY TodayNat, CalendarAssumption DEF TypeOK, ClientRows
  <1>2. ASSUME client.expires # NoTerm
        PROVE  DateOf(client.expires) \in Int
    <2>1. client.expires.date \in Nat /\ client.expires.zone \in Nat
      BY <1>1, <1>2, CalendarAssumption DEF Deadlines
    <2>2. client.expires.date * HoursPerDay \in Nat
      BY <2>1, CalendarAssumption
    <2>3. Midnight(client.expires) + zone \in Int
      BY <1>1, <2>1, <2>2 DEF Midnight
    <2> QED
      BY <2>3, FloorInt, CalendarAssumption DEF DateOf
  <1>3. Extended(client, days).date \in Nat
    <2>1. CASE client.expires = NoTerm
      BY <1>1, <2>1 DEF Extended
    <2>2. CASE client.expires # NoTerm
      BY <1>1, <1>2, <2>2 DEF Extended, LaterOf
    <2> QED
      BY <2>1, <2>2
  <1>4. Extended(client, days) = [date |-> Extended(client, days).date, zone |-> zone]
    BY DEF Extended
  <1> QED
    BY <1>1, <1>3, <1>4 DEF Deadlines, NoTerm

-----------------------------------------------------------------------------
(***************************************************************************)
(* What an operation makes of a row is a row, and on and reason agree.     *)
(***************************************************************************)
\* A served client has no reason to be disabled.
Plain(c) == c.on # {} => c.reason = "none"

LEMMA ClearedRow ==
  ASSUME NEW c \in ClientRows
  PROVE  /\ Cleared(c) \in ClientRows
         /\ Cleared(c).known = c.known
         /\ Cleared(c).expires = c.expires
         /\ Cleared(c).reason = "none"
         /\ Cleared(c).on = c.on
  BY DEF Cleared, ClientRows, Keys

LEMMA EnabledRow ==
  ASSUME NEW c \in ClientRows
  PROVE  /\ Enabled(c) \in ClientRows
         /\ Enabled(c).known = c.known
         /\ Enabled(c).expires = c.expires
         /\ Enabled(c).reason = "none"
  BY ClearedRow DEF Enabled, ClientRows

LEMMA DisabledByLimitRow ==
  ASSUME TypeOK, NEW c \in ClientRows, c.limit # NoLimit
  PROVE  /\ DisabledByLimit(c) \in ClientRows
         /\ DisabledByLimit(c).known = c.known
         /\ DisabledByLimit(c).expires = c.expires
         /\ DisabledByLimit(c).on = {}
  <1>1. Key(c.limit) \in Keys
    BY KeyType DEF ClientRows
  <1> QED
    BY <1>1 DEF DisabledByLimit, ClientRows

LEMMA DisabledByTermRow ==
  ASSUME NEW c \in ClientRows
  PROVE  /\ DisabledByTerm(c) \in ClientRows
         /\ DisabledByTerm(c).known = c.known
         /\ DisabledByTerm(c).expires = c.expires
         /\ DisabledByTerm(c).on = {}
  BY DEF DisabledByTerm, ClientRows

LEMMA ReconciledRow ==
  ASSUME TypeOK, NEW c \in ClientRows
  PROVE  /\ Reconciled(c) \in ClientRows
         /\ Reconciled(c).known = c.known
         /\ Reconciled(c).expires = c.expires
         /\ Plain(Reconciled(c))
  <1> DEFINE over == [DisabledByTerm(c) EXCEPT !.exceeded = NoKey]
  <1>1. /\ over \in ClientRows
        /\ over.known = c.known
        /\ over.expires = c.expires
        /\ over.on = {}
    BY DisabledByTermRow DEF ClientRows, Keys
  <1>2. CASE Exceeded(c)
    <2>1. Reconciled(c) = DisabledByLimit(c)
      BY <1>2, Zenon DEF Reconciled
    <2> QED
      BY <1>2, <2>1, DisabledByLimitRow DEF Exceeded, Plain
  <1>3. CASE ~ Exceeded(c) /\ Expired(c)
    <2>1. Reconciled(c) = over
      BY <1>3, Zenon DEF Reconciled
    <2> QED
      BY <1>1, <2>1 DEF Plain
  <1>4. CASE ~ Exceeded(c) /\ ~ Expired(c)
    <2>1. Reconciled(c) = Enabled(c)
      BY <1>4, Zenon DEF Reconciled
    <2> QED
      BY <2>1, EnabledRow DEF Plain
  <1> QED
    BY <1>2, <1>3, <1>4

LEMMA LimitedRow ==
  ASSUME NEW c \in ClientRows, NEW limit \in LimitRows
  PROVE  /\ Limited(c, limit) \in ClientRows
         /\ Limited(c, limit).known = c.known
         /\ Limited(c, limit).on = c.on
         /\ Limited(c, limit).expires = c.expires
         /\ Limited(c, limit).reason \in {c.reason, "none"}
  <1>1. CASE limit # NoLimit
    BY <1>1 DEF Limited, ClientRows
  <1>2. CASE limit = NoLimit
    BY <1>2 DEF Limited, ClientRows, Keys, LimitRows
  <1> QED
    BY <1>1, <1>2

-----------------------------------------------------------------------------
(***************************************************************************)
(* Type correctness.                                                       *)
(***************************************************************************)
\* enforce-limits enables, disables or leaves the client; never two of them.
LEMMA Enforced ==
  ASSUME EnforceLimits
  PROVE  \/ client' = Enabled(client) /\ Resettable(client)
         \/ client' = DisabledByLimit(client) /\ client.on # {} /\ Exceeded(client)
         \/ client' = client /\ ~ (client.on # {} /\ Exceeded(client))
  <1>1. Resettable(client) => ~ (client.on # {} /\ Exceeded(client))
    BY DEF Resettable
  <1>2. CASE Resettable(client)
    <2>1. client' = Enabled(client)
      BY <1>1, <1>2, Zenon DEF EnforceLimits
    <2> QED
      BY <1>2, <2>1
  <1>3. CASE ~ Resettable(client) /\ client.on # {} /\ Exceeded(client)
    <2>1. client' = DisabledByLimit(client)
      BY <1>3, Zenon DEF EnforceLimits
    <2> QED
      BY <1>3, <2>1
  <1>4. CASE ~ Resettable(client) /\ ~ (client.on # {} /\ Exceeded(client))
    <2>1. client' = client
      BY <1>4, Zenon DEF EnforceLimits
    <2> QED
      BY <1>4, <2>1
  <1> QED
    BY <1>2, <1>3, <1>4

LEMMA NoClientRow == NoClient \in ClientRows
  BY DEF NoClient, ClientRows, Keys, LimitRows, Deadlines

LEMMA TypeInit == Init => TypeOK
  <1> SUFFICES ASSUME Init PROVE TypeOK
    OBVIOUS
  <1>1. clock \in 0..LastHour /\ zone \in Zones /\ commands \in 0..MaxCommands
    BY CalendarAssumption DEF Init
  <1>2. client \in ClientRows
    BY NoClientRow DEF Init
  <1>3. usage \in [Calendar -> Nat]
    BY DEF Init
  <1> QED
    BY <1>1, <1>2, <1>3 DEF Init, TypeOK

\* The part of TypeOK that most commands touch.
LEMMA CommandType ==
  ASSUME TypeOK, Command
  PROVE  commands' \in 0..MaxCommands
  BY CalendarAssumption DEF TypeOK, Command

LEMMA TypeStep == TypeOK /\ [Next]_vars => TypeOK'
  <1> SUFFICES ASSUME TypeOK, [Next]_vars PROVE TypeOK'
    OBVIOUS
  <1>row. client \in ClientRows /\ client.known \in SUBSET Conns /\ client.on \in SUBSET Conns
    BY DEF TypeOK, ClientRows
  <1>1. ASSUME NEW x \in Conns, NEW days \in Terms, Add(x, days) PROVE TypeOK'
    <2>1. client' \in ClientRows
      BY <1>1, TermFromTodayType
      DEF Add, NoClient, ClientRows, Keys, LimitRows
    <2> QED
      BY <1>1, <2>1, CommandType, TermFromTodayType DEF Add, TypeOK
  <1>2. ASSUME NEW x \in Conns, AddCredential(x) PROVE TypeOK'
    <2>1. client' \in ClientRows
      BY <1>2, <1>row DEF AddCredential, ClientRows
    <2> QED
      BY <1>2, <2>1, CommandType DEF AddCredential, TypeOK, history
  <1>3. ASSUME NEW S \in SUBSET Conns, Disable(S) PROVE TypeOK'
    <2>1. client' \in ClientRows
      BY <1>3, <1>row DEF Disable, ClientRows
    <2>2. byHand' \in BOOLEAN
      BY <1>3 DEF Disable
    <2> QED
      BY <1>3, <2>1, <2>2, CommandType DEF Disable, TypeOK
  <1>4. ASSUME NEW S \in SUBSET Conns, Enable(S) PROVE TypeOK'
    <2>1. Selected(S) \subseteq Conns
      BY <1>row DEF Selected
    <2>2. client' \in ClientRows
      BY <1>4, <2>1, <1>row, ClearedRow DEF Enable, ClientRows
    <2> QED
      BY <1>4, <2>2, CommandType DEF Enable, TypeOK
  <1>5. ASSUME NEW days \in Terms, SetDays(days) PROVE TypeOK'
    <2> DEFINE given == [client EXCEPT !.expires = TermFromToday(days)]
    <2>1. given \in ClientRows
      BY <1>row, TermFromTodayType DEF ClientRows
    <2>2. client' \in ClientRows
      BY <1>5, <2>1, ReconciledRow DEF SetDays
    <2> QED
      BY <1>5, <2>2, CommandType, TermFromTodayType DEF SetDays, TypeOK
  <1>6. ASSUME NEW days \in Terms, ExtendDays(days) PROVE TypeOK'
    <2> DEFINE given == [client EXCEPT !.expires = Extended(client, days)]
    <2>0. days > 0
      BY <1>6 DEF ExtendDays
    <2>1. given \in ClientRows
      BY <1>row, <2>0, ExtendedType DEF ClientRows
    <2>2. client' \in ClientRows
      BY <1>6, <2>1, ReconciledRow DEF ExtendDays
    <2>3. promised' \in Nat
      <3>1. Today \in Nat /\ days \in Nat /\ promised \in Int
        BY TodayNat, CalendarAssumption DEF TypeOK, NoTerm
      <3> QED
        BY <1>6, <3>1 DEF ExtendDays, LaterOf
    <2> QED
      BY <1>6, <2>2, <2>3, CommandType DEF ExtendDays, TypeOK
  <1>7. ASSUME NEW limit \in LimitRows, SetLimit(limit) PROVE TypeOK'
    BY <1>7, <1>row, LimitedRow, CommandType DEF SetLimit, TypeOK
  <1>8. ASSUME NEW z \in Zones, SetTimezone(z) PROVE TypeOK'
    <2>1. AtMidnight(client.expires, z) \in Deadlines
      BY <1>row DEF AtMidnight, Deadlines, ClientRows
    <2>2. client' \in ClientRows
      BY <1>8, <2>1, <1>row DEF SetTimezone, ClientRows
    <2> QED
      BY <1>8, <2>2, CommandType DEF SetTimezone, TypeOK
  <1>9. CASE Remove
    <2>1. client' \in ClientRows
      BY <1>9, NoClientRow DEF Remove
    <2> QED
      BY <1>9, <2>1, CommandType DEF Remove, TypeOK
  <1>10. CASE EnforceLimits
    <2>1. \/ client' = Enabled(client)
          \/ client' = DisabledByLimit(client) /\ Exceeded(client)
          \/ client' = client
      BY <1>10, Enforced
    <2>2. Exceeded(client) => client.limit \in LimitRows \ {NoLimit}
      BY <1>row DEF Exceeded, ClientRows
    <2>3. client' \in ClientRows
      BY <2>1, <2>2, <1>row, EnabledRow, DisabledByLimitRow
    <2>4. exhausted' \subseteq Keys
      BY <1>10, <2>2, KeyType DEF EnforceLimits, TypeOK
    <2> QED
      BY <1>10, <2>3, <2>4 DEF EnforceLimits, TypeOK
  <1>11. CASE ExpireDue
    <2>1. late' \in BOOLEAN
      BY <1>11 DEF ExpireDue
    <2>2. client' \in ClientRows
      BY <1>11, <1>row, DisabledByTermRow DEF ExpireDue
    <2> QED
      BY <1>11, <2>1, <2>2 DEF ExpireDue, TypeOK
  <1>12. CASE Record
    <2>1. usage' \in [Calendar -> Nat]
      <3>1. usage \in [Calendar -> Nat]
        BY DEF TypeOK
      <3>2. usage' = [d \in Calendar |-> IF d = Today THEN usage[d] + 1 ELSE usage[d]]
        BY <1>12, <3>1 DEF Record
      <3>3. \A d \in Calendar : usage[d] \in Nat /\ usage[d] + 1 \in Nat
        BY <3>1
      <3> QED
        BY <3>2, <3>3
    <2> QED
      BY <1>12, <2>1 DEF Record, TypeOK, history
  <1>13. CASE Tick
    BY <1>13, CalendarAssumption DEF Tick, TypeOK, history
  <1>14. CASE UNCHANGED vars
    BY <1>14 DEF vars, TypeOK
  <1> QED
    BY <1>1, <1>2, <1>3, <1>4, <1>5, <1>6, <1>7, <1>8, <1>9, <1>10, <1>11, <1>12, <1>13,
       <1>14 DEF Next

\* Every reachable state has its types: in particular no command, timer or change
\* of the timezone ever stores a term before the first local date.
THEOREM TypeCorrect == Spec => []TypeOK
  BY TypeInit, TypeStep, PTL DEF Spec

-----------------------------------------------------------------------------
(***************************************************************************)
(* The inductive invariant.  DisabledByHandStays, ExpiredStays and TermKept *)
(* say what is not served, not why: whether a timer may enable the client  *)
(* hangs on the reason stored with it, and what an extension comes to on   *)
(* the timezone stored with the term.                                      *)
(***************************************************************************)
HandMark == byHand => client.on = {} /\ client.reason = "none"

LateMark == late => client.on = {} /\ Expired(client)

TermMark ==
  Exists /\ ~ torn => /\ client.expires.date = promised
                      /\ client.expires # NoTerm => client.expires.zone = zone

\* Nothing is left of a removed client.
GoneMark == ~ Exists => client.expires = NoTerm /\ ~ byHand

Marks == Plain(client) /\ HandMark /\ LateMark /\ TermMark /\ GoneMark

IInv == TypeOK /\ Marks

LEMMA MarksInit == Init => Marks
  BY DEF Init, Marks, Plain, HandMark, LateMark, TermMark, GoneMark, Exists, NoClient

\* A term not converted by a torn set-timezone is extended from its own date.
LEMMA ExtendedDate ==
  ASSUME TypeOK, TermMark, Exists, ~ torn, NEW days \in Terms
  PROVE  Extended(client, days).date = days + LaterOf(promised, Today)
  <1>1. Today \in Nat /\ days \in Nat /\ zone \in Nat /\ client.expires \in Deadlines
    BY TodayNat, CalendarAssumption DEF TypeOK, ClientRows
  <1>2. client.expires.date = promised
    BY DEF TermMark
  <1>3. CASE client.expires = NoTerm
    BY <1>1, <1>2, <1>3 DEF Extended, LaterOf, NoTerm
  <1>4. CASE client.expires # NoTerm
    <2>1. client.expires.date \in Nat /\ client.expires.zone = zone
      BY <1>1, <1>4 DEF TermMark, Deadlines
    <2>2. client.expires.date * HoursPerDay \in Nat
      BY <2>1, CalendarAssumption
    <2>3. Midnight(client.expires) + zone = client.expires.date * HoursPerDay
      BY <1>1, <2>1, <2>2 DEF Midnight
    <2>4. DateOf(client.expires) = client.expires.date
      BY <2>1, <2>3, FloorOfProduct, CalendarAssumption DEF DateOf
    <2> QED
      BY <1>2, <1>4, <2>4 DEF Extended
  <1> QED
    BY <1>3, <1>4

\* What expired stays expired while the clock goes on and the term is kept.
LEMMA ExpiredKept ==
  ASSUME TypeOK, Expired(client), clock' \in Int, clock' >= clock,
         client'.expires = client.expires
  PROVE  Expired(client)'
  <1>1. client.expires \in Deadlines /\ client.expires # NoTerm /\ clock \in Int
    BY DEF TypeOK, ClientRows, Expired
  <1>2. client.expires.date \in Nat /\ client.expires.zone \in Nat
    BY <1>1, CalendarAssumption DEF Deadlines
  <1>3. client.expires.date * HoursPerDay \in Nat
    BY <1>2, CalendarAssumption
  <1>4. Midnight(client.expires) \in Int
    BY <1>2, <1>3 DEF Midnight
  <1>5. Midnight(client'.expires) = Midnight(client.expires)
    OBVIOUS
  <1> QED
    BY <1>1, <1>4, <1>5 DEF Expired

\* A step that leaves the term alone keeps the marks about it.
LEMMA TermUntouched ==
  ASSUME TypeOK, Marks,
         client'.expires = client.expires, client'.known = client.known,
         UNCHANGED <<zone, promised, torn>>
  PROVE  TermMark'
  BY DEF Marks, TermMark, Exists

LEMMA MarksStep == IInv /\ [Next]_vars => Marks'
  <1> SUFFICES ASSUME TypeOK, Marks, [Next]_vars PROVE Marks'
    BY DEF IInv
  <1>row. client \in ClientRows
    BY DEF TypeOK
  <1>time. clock \in Int
    BY DEF TypeOK
  <1>1. ASSUME NEW x \in Conns, NEW days \in Terms, Add(x, days) PROVE Marks'
    <2>1. /\ client'.known = {x} /\ client'.reason = "none"
          /\ client'.expires = TermFromToday(days)
      BY <1>1 DEF Add, NoClient
    <2>2. ~ byHand' /\ ~ late'
      BY <1>1 DEF Add, Marks, GoneMark, LateMark, Expired
    <2>3. TermMark'
      BY <1>1, <2>1, TermFromTodayType DEF Add, TermMark
    <2> QED
      BY <2>1, <2>2, <2>3 DEF Marks, Plain, HandMark, LateMark, GoneMark, Exists
  <1>2. ASSUME NEW x \in Conns, AddCredential(x) PROVE Marks'
    <2>1. /\ client'.reason = client.reason
          /\ client'.expires = client.expires
          /\ client'.known = client.known \union {x}
          /\ client.on = {} => client'.on = {}
      BY <1>2, <1>row DEF AddCredential, ClientRows
    <2>2. Exists /\ Exists' /\ UNCHANGED <<clock, zone, byHand, late, promised, torn>>
      BY <1>2, <2>1 DEF AddCredential, Exists, history
    <2>3. LateMark'
      BY <2>1, <2>2, <1>time, ExpiredKept DEF Marks, LateMark
    <2>4. TermMark'
      BY <2>1, <2>2 DEF Marks, TermMark
    <2> QED
      BY <2>1, <2>2, <2>3, <2>4 DEF Marks, Plain, HandMark, GoneMark
  <1>3. ASSUME NEW S \in SUBSET Conns, Disable(S) PROVE Marks'
    <2>1. /\ client'.reason = client.reason
          /\ client'.expires = client.expires
          /\ client'.known = client.known
          /\ client'.on = client.on \ Selected(S)
          /\ UNCHANGED <<clock, zone, late, promised, torn>>
      BY <1>3, <1>row DEF Disable, ClientRows
    <2>2. client.on # {} /\ client.reason = "none" /\ ~ late
      BY <1>3 DEF Disable, Marks, Plain, LateMark
    <2>3. byHand' => client'.on = {}
      BY <1>3, <2>1 DEF Disable
    <2>4. Exists /\ Exists'
      BY <1>3, <2>1 DEF Disable, Exists
    <2>5. TermMark'
      BY <2>1, TermUntouched
    <2> QED
      BY <2>1, <2>2, <2>3, <2>4, <2>5 DEF Marks, Plain, HandMark, LateMark, GoneMark
  <1>4. ASSUME NEW S \in SUBSET Conns, Enable(S) PROVE Marks'
    <2>1. /\ client'.reason = "none"
          /\ client'.expires = client.expires
          /\ client'.known = client.known
      BY <1>4, <1>row, ClearedRow DEF Enable, ClientRows
    <2>2. ~ byHand' /\ ~ late' /\ UNCHANGED <<zone, promised, torn>>
      BY <1>4 DEF Enable, Marks, LateMark
    <2>3. TermMark'
      BY <2>1, <2>2, TermUntouched
    <2> QED
      BY <2>1, <2>2, <2>3 DEF Marks, Plain, HandMark, LateMark, GoneMark, Exists
  <1>5. ASSUME NEW days \in Terms, SetDays(days) PROVE Marks'
    <2> DEFINE given == [client EXCEPT !.expires = TermFromToday(days)]
    <2>1. /\ given \in ClientRows
          /\ given.expires = TermFromToday(days)
          /\ given.known = client.known
      BY <1>row, TermFromTodayType DEF ClientRows
    <2>2. /\ client'.expires = TermFromToday(days)
          /\ client'.known = client.known
          /\ Plain(client')
      BY <1>5, <2>1, ReconciledRow DEF SetDays
    <2>3. ~ byHand' /\ ~ late' /\ Exists' /\ zone' = zone
      BY <1>5, <2>2 DEF SetDays, Exists
    <2>4. TermMark'
      BY <1>5, <2>2, <2>3, TermFromTodayType DEF SetDays, TermMark
    <2> QED
      BY <2>2, <2>3, <2>4 DEF Marks, Plain, HandMark, LateMark, GoneMark
  <1>6. ASSUME NEW days \in Terms, ExtendDays(days) PROVE Marks'
    <2> DEFINE given == [client EXCEPT !.expires = Extended(client, days)]
    <2>0. days > 0 /\ Exists
      BY <1>6 DEF ExtendDays
    <2>1. /\ given \in ClientRows
          /\ given.expires = Extended(client, days)
          /\ given.known = client.known
      BY <1>row, <2>0, ExtendedType DEF ClientRows
    <2>2. /\ client'.expires = Extended(client, days)
          /\ client'.known = client.known
          /\ Plain(client')
      BY <1>6, <2>1, ReconciledRow DEF ExtendDays
    <2>3. ~ byHand' /\ ~ late' /\ Exists' /\ zone' = zone /\ torn' = torn
      BY <1>6, <2>2 DEF ExtendDays, Exists
    <2>4. ~ torn => Extended(client, days).date = promised'
      BY <1>6, <2>0, ExtendedDate DEF ExtendDays, Marks
    <2>5. TermMark'
      BY <2>0, <2>2, <2>3, <2>4, ExtendedType DEF TermMark
    <2> QED
      BY <2>2, <2>3, <2>5 DEF Marks, Plain, HandMark, LateMark, GoneMark
  <1>7. ASSUME NEW limit \in LimitRows, SetLimit(limit) PROVE Marks'
    <2>1. /\ client'.known = client.known
          /\ client'.on = client.on
          /\ client'.expires = client.expires
          /\ client'.reason \in {client.reason, "none"}
          /\ UNCHANGED <<clock, zone, byHand, late, promised, torn>>
      BY <1>7, <1>row, LimitedRow DEF SetLimit
    <2>2. LateMark'
      BY <2>1, <1>time, ExpiredKept DEF Marks, LateMark
    <2>3. TermMark'
      BY <2>1, TermUntouched
    <2> QED
      BY <2>1, <2>2, <2>3 DEF Marks, Plain, HandMark, GoneMark, Exists
  <1>8. ASSUME NEW z \in Zones, SetTimezone(z) PROVE Marks'
    <2>1. zone' = z /\ ~ late' /\ UNCHANGED <<byHand, promised>>
      BY <1>8 DEF SetTimezone
    <2>2. CASE client' = [client EXCEPT !.expires = AtMidnight(@, z)] /\ UNCHANGED torn
      <3>1. /\ client'.known = client.known /\ client'.on = client.on
            /\ client'.reason = client.reason
            /\ client'.expires = AtMidnight(client.expires, z)
        BY <2>2, <1>row DEF ClientRows
      <3>2. /\ AtMidnight(client.expires, z).date = client.expires.date
            /\ AtMidnight(client.expires, z) # NoTerm => AtMidnight(client.expires, z).zone = z
            /\ client.expires = NoTerm => AtMidnight(client.expires, z) = NoTerm
        BY <1>row DEF AtMidnight, ClientRows, Deadlines, NoTerm
      <3>3. TermMark'
        BY <2>1, <2>2, <3>1, <3>2 DEF Marks, TermMark, Exists
      <3> QED
        BY <2>1, <3>1, <3>2, <3>3 DEF Marks, Plain, HandMark, LateMark, GoneMark, Exists
    <2>3. CASE Exists /\ torn' = TRUE /\ UNCHANGED client
      BY <2>1, <2>3 DEF Marks, Plain, HandMark, LateMark, TermMark, GoneMark, Exists
    <2> QED
      BY <1>8, <2>2, <2>3 DEF SetTimezone
  <1>9. CASE Remove
    BY <1>9 DEF Remove, NoClient, Marks, Plain, HandMark, LateMark, TermMark, GoneMark, Exists
  <1>10. CASE EnforceLimits
    <2>1. UNCHANGED <<clock, zone, byHand, late, promised, torn>>
      BY <1>10 DEF EnforceLimits
    <2>2. Exceeded(client) => client.limit # NoLimit
      BY DEF Exceeded
    <2>3. CASE client' = Enabled(client) /\ Resettable(client)
      <3>1. /\ client'.known = client.known /\ client'.expires = client.expires
            /\ client'.reason = "none"
        BY <2>3, <1>row, EnabledRow
      <3>2. ~ byHand /\ ~ late
        BY <2>3 DEF Resettable, Marks, HandMark, LateMark
      <3>3. TermMark'
        BY <2>1, <3>1, TermUntouched
      <3> QED
        BY <2>1, <3>1, <3>2, <3>3 DEF Marks, Plain, HandMark, LateMark, GoneMark, Exists
    <2>4. CASE client' = DisabledByLimit(client) /\ client.on # {} /\ Exceeded(client)
      <3>1. /\ client'.known = client.known /\ client'.expires = client.expires
            /\ client'.on = {}
        BY <2>2, <2>4, <1>row, DisabledByLimitRow
      <3>2. ~ byHand /\ ~ late
        BY <2>4 DEF Marks, HandMark, LateMark
      <3>3. TermMark'
        BY <2>1, <3>1, TermUntouched
      <3> QED
        BY <2>1, <3>1, <3>2, <3>3 DEF Marks, Plain, HandMark, LateMark, GoneMark, Exists
    <2>5. CASE client' = client
      <3>1. LateMark'
        BY <2>1, <2>5, <1>time, ExpiredKept DEF Marks, LateMark
      <3>2. TermMark'
        BY <2>1, <2>5, TermUntouched
      <3> QED
        BY <2>1, <2>5, <3>1, <3>2 DEF Marks, Plain, HandMark, GoneMark, Exists
    <2> QED
      BY <1>10, <2>3, <2>4, <2>5, Enforced
  <1>11. CASE ExpireDue
    <2>1. UNCHANGED <<clock, zone, byHand, promised, torn>> /\ late' = (late \/ Expired(client))
      BY <1>11 DEF ExpireDue
    <2>2. /\ client'.known = client.known /\ client'.expires = client.expires
          /\ client.on = {} => client' = client
          /\ client.on # {} => client' = client \/ client'.on = {}
          /\ Expired(client) => client'.on = {}
      BY <1>11, <1>row, DisabledByTermRow DEF ExpireDue
    <2>3. LateMark'
      <3>1. late' => Expired(client)
        BY <2>1 DEF Marks, LateMark
      <3>2. Expired(client) => Expired(client)'
        BY <2>1, <2>2, <1>time, ExpiredKept
      <3> QED
        BY <2>2, <3>1, <3>2 DEF LateMark
    <2>4. TermMark'
      BY <2>1, <2>2, TermUntouched
    <2> QED
      BY <2>1, <2>2, <2>3, <2>4 DEF Marks, Plain, HandMark, GoneMark, Exists
  <1>12. CASE Record
    BY <1>12 DEF Record, Marks, Plain, HandMark, LateMark, TermMark, GoneMark, Exists, history
  <1>13. CASE Tick
    <2>1. clock' = clock + 1 /\ UNCHANGED <<zone, client, byHand, late, promised, torn>>
      BY <1>13 DEF Tick, history
    <2>2. LateMark'
      BY <2>1, <1>time, ExpiredKept DEF Marks, LateMark
    <2> QED
      BY <2>1, <2>2 DEF Marks, Plain, HandMark, TermMark, GoneMark, Exists
  <1>14. CASE UNCHANGED vars
    <2>1. UNCHANGED <<clock, zone, client, byHand, late, promised, torn>>
      BY <1>14 DEF vars
    <2> QED
      BY <2>1 DEF Marks, Plain, HandMark, LateMark, TermMark, GoneMark, Exists, Expired
  <1> QED
    BY <1>1, <1>2, <1>3, <1>4, <1>5, <1>6, <1>7, <1>8, <1>9, <1>10, <1>11, <1>12, <1>13,
       <1>14 DEF Next

\* The marks hold in every reachable state.
THEOREM Marked == Spec => []IInv
  <1>1. Init => IInv
    BY TypeInit, MarksInit DEF IInv
  <1>2. IInv /\ [Next]_vars => IInv'
    BY TypeStep, MarksStep DEF IInv
  <1> QED
    BY <1>1, <1>2, PTL DEF Spec

\* Whatever the calendar, the terms and the limits are, enforce-limits and
\* expire-due never bring back a client its operator has disabled.
THEOREM HandDisablingHolds == Spec => []DisabledByHandStays
  <1>1. IInv => DisabledByHandStays
    BY DEF IInv, Marks, HandMark, DisabledByHandStays
  <1> QED
    BY <1>1, Marked, PTL

\* A client whose term expire-due has seen over is not served again, not even by
\* the reset of a traffic limit, before a new term or timezone is set.
THEOREM ExpiryHolds == Spec => []ExpiredStays
  <1>1. IInv => ExpiredStays
    BY DEF IInv, Marks, LateMark, ExpiredStays
  <1> QED
    BY <1>1, Marked, PTL

\* Extensions and changes of the timezone never move the date that was given, for
\* days of any length and any timezone ahead of UTC.
THEOREM TermsAreKept == Spec => []TermKept
  <1>1. IInv => TermKept
    BY DEF IInv, Marks, TermMark, TermKept
  <1> QED
    BY <1>1, Marked, PTL
=============================================================================
