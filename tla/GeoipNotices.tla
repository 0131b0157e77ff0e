---------------------------- MODULE GeoipNotices ----------------------------
(***************************************************************************)
(* Who is told of the alerts ActivityLog stores.  notify-geoip, run by the *)
(* timer after every sync and by hand from the menus, reads the alerts     *)
(* after its saved cursor, sends one report to the owner and one message   *)
(* to each client concerned, and saves the whole of its state.  It holds   *)
(* no lock: two runs may overlap, and a sync may go on under both.         *)
(*                                                                         *)
(* telegram/notifications.py (notify_geoip, notify_daily_summary),         *)
(* telegram/setup.py, activity/exceptions.py and the alert rows of         *)
(* db/repositories/activity.py.  All alerts are GeoIP alerts of one target *)
(* per client within one hour, so a client has one row.                    *)
(***************************************************************************)
EXTENDS ActivityLog

CONSTANTS
  Chats,    \* clients whose chat takes activity notices
  MaxDays   \* bound: mornings

ASSUME NoticesAssumption == Chats \subseteq Clients /\ MaxDays \in Nat

VARIABLES
  bot,        \* geoipState: cursor, events sent to the owner and to the chats
  batch,      \* what each process read
  excepted,   \* clients whose target is an activity exception
  day,        \* mornings so far
  summary,    \* dailySummaryState: the last morning a summary was sent
  told,       \* history: alerts, by their first line, that the owner was sent
  chatTold,   \* history: those their client was sent, or failed to be
  excused,    \* history: those passed over on purpose
  sums,       \* history: summaries sent on each morning
  unsure      \* history: mornings on which a summary was sent and not recorded

noticeVars == <<bot, batch, excepted, day, summary, told, chatTold, excused, sums, unsure>>
vars == <<logVars, noticeVars>>
reports == <<told, chatTold, excused>>
daily == <<day, summary, sums, unsure>>

NoBatch == [state |-> [cursor |-> 0, sent |-> {}, chats |-> {}], cursor |-> 0,
            admin |-> {}, chats |-> {}]

Init ==
  /\ LogInit
  /\ bot = NoBatch.state
  /\ batch = [p \in Procs |-> NoBatch]
  /\ excepted = {}
  /\ day = 0 /\ summary = 0
  /\ told = {} /\ chatTold = {} /\ excused = {}
  /\ sums = [d \in 0 .. MaxDays |-> 0]
  /\ unsure = {}

-----------------------------------------------------------------------------
(***************************************************************************)
(* notify_geoip.                                                           *)
(***************************************************************************)
Rows == {c \in Clients : alerts[c].id # 0}
Begun == {alerts[c].first : c \in Rows}
MaxId == Max({alerts[c].id : c \in Clients})
EventIds(rows) == {<<a.id, a.count>> : a \in rows}
IdsOf(rows) == {a.id : a \in rows}
Firsts(rows) == {a.first : a \in rows}

\* Mutant of After: the row next to the cursor is left out.
AfterNext(cursor) == {c \in Rows : alerts[c].id > cursor + 1}

\* iter_geoip_alerts_after: new rows, and reported ones counted on since.
After(cursor) ==
  {c \in Rows : \/ alerts[c].id > cursor
                \/ alerts[c].notified # 0 /\ alerts[c].last > alerts[c].notified}

\* Mutant of NewCursor: the cursor is the next id, not the last.
NewCursorNext(cursor) == Max({cursor, nextId})

\* The very first run reads nothing and starts behind the rows there are.
NewCursor(cursor) == Max({cursor, MaxId})

Step(p, step) == Goto(p, step) /\ UNCHANGED <<written, files, saved, records, setup, lock, job>>

\* Mutant of Due: the day of the last summary is not asked for.
DueAgain == day > 0

Due == day > 0 /\ summary # day

Leave(p) ==
  /\ Goto(p, IF p = Timer /\ Due THEN "morning" ELSE "idle")
  /\ batch' = [batch EXCEPT ![p] = NoBatch]
  /\ UNCHANGED <<written, files, saved, setup, lock, job, reread, early, passed, late, behind, cut>>

Read(p) ==
  /\ \/ pc[p] = "notice" /\ UNCHANGED did
     \/ ByHand(p, "notify")
  /\ LET seen == IF bot.cursor = 0 THEN {} ELSE After(bot.cursor)
         due == seen \ excepted
         silent == IF bot.cursor = 0 THEN Rows ELSE seen \intersect excepted
         unsent(cs, sent) == {a \in {alerts[c] : c \in cs} : <<a.id, a.count>> \notin sent}
         admin == unsent(due, bot.sent)
         chats == unsent(due \intersect Chats, bot.chats)
     IN  /\ batch' = [batch EXCEPT ![p] =
              [state |-> bot, cursor |-> NewCursor(bot.cursor), admin |-> admin, chats |-> chats]]
         /\ excused' = excused \union {alerts[c].first : c \in silent}
         /\ Step(p, IF admin # {} THEN "send" ELSE IF chats # {} THEN "chats" ELSE "keep")
  /\ UNCHANGED <<reread, early, passed, late, behind, cut, bot, excepted, daily, told, chatTold>>

Send(p) ==
  /\ pc[p] = "send"
  /\ told' = told \union Firsts(batch[p].admin)
  /\ Step(p, "mark")
  /\ UNCHANGED <<history, bot, batch, excepted, daily, chatTold, excused>>

\* Nothing is saved: the next run reads the same rows.
SendFails(p) ==
  /\ pc[p] = "send"
  /\ Mishap
  /\ Leave(p)
  /\ UNCHANGED <<records, bot, excepted, daily, reports>>

\* notified_admin_at of the rows still there; a failure is not noticed.
Mark(p) ==
  /\ pc[p] = "mark"
  /\ \/ /\ alerts' = [c \in Clients |->
             IF alerts[c].id \in IdsOf(batch[p].admin)
             THEN [alerts[c] EXCEPT !.notified = Len(written)] ELSE alerts[c]]
        /\ UNCHANGED did
     \/ Mishap /\ UNCHANGED alerts
  /\ Goto(p, IF batch[p].chats # {} THEN "chats" ELSE "keep")
  /\ UNCHANGED <<written, files, saved, windows, counted, detail, nextId, setup, lock, job,
                 reread, early, passed, late, behind, cut, noticeVars>>

\* A chat whose message fails is passed over; its events are not among the sent.
SendChats(p) ==
  /\ pc[p] = "chats"
  /\ \E failed \in SUBSET batch[p].chats :
       /\ IF failed = {} THEN UNCHANGED did ELSE Mishap
       /\ batch' = [batch EXCEPT ![p].chats = @ \ failed]
  /\ chatTold' = chatTold \union Firsts(batch[p].chats)
  /\ Step(p, "keep")
  /\ UNCHANGED <<reread, early, passed, late, behind, cut, bot, excepted, daily, told, excused>>

\* save_db_sections: the whole section, over what another run may have saved.
Keep(p) ==
  /\ pc[p] = "keep"
  /\ bot' = [cursor |-> batch[p].cursor,
             sent |-> batch[p].state.sent \union EventIds(batch[p].admin),
             chats |-> batch[p].state.chats \union EventIds(batch[p].chats)]
  /\ Leave(p)
  /\ UNCHANGED <<records, did, excepted, daily, reports>>

NoticeKilled(p) ==
  /\ pc[p] \in {"send", "mark", "chats", "keep"}
  /\ Mishap
  /\ Leave(p)
  /\ UNCHANGED <<records, bot, excepted, daily, reports>>

\* add_exception, delete_exception: commands under activity.lock.
Except(p) ==
  /\ ByHand(p, "except")
  /\ lock = NoProc
  /\ \E c \in Clients : excepted' = IF c \in excepted THEN excepted \ {c} ELSE excepted \union {c}
  /\ Step(p, "idle")
  /\ UNCHANGED <<reread, early, passed, late, behind, cut, bot, batch, daily, reports>>

-----------------------------------------------------------------------------
(***************************************************************************)
(* notify_daily_summary, the last line of the service.                     *)
(***************************************************************************)
Morning ==
  /\ "summary" \in kit
  /\ day < MaxDays
  /\ day' = day + 1
  /\ UNCHANGED <<logVars, bot, batch, excepted, summary, reports, sums, unsure>>

Summarise(p) ==
  /\ pc[p] = "morning"
  /\ \/ Mishap /\ Step(p, "idle") /\ UNCHANGED sums
     \/ /\ sums' = [sums EXCEPT ![day] = @ + 1]
        /\ Step(p, "summed")
        /\ UNCHANGED did
  /\ UNCHANGED <<reread, early, passed, late, behind, cut, bot, batch, excepted, day, summary,
                 reports, unsure>>

\* The day that was computed is saved, or the process is killed before.
Summed(p) ==
  /\ pc[p] = "summed"
  /\ LET sent == Max({d \in 0 .. day : sums[d] > 0})
     IN  \/ summary' = sent /\ UNCHANGED <<did, unsure>>
         \/ Mishap /\ unsure' = unsure \union {sent} /\ UNCHANGED summary
  /\ Step(p, "idle")
  /\ UNCHANGED <<reread, early, passed, late, behind, cut, bot, batch, excepted, day, reports, sums>>

-----------------------------------------------------------------------------
Notice(p) ==
  \/ Read(p) \/ Send(p) \/ SendFails(p) \/ Mark(p) \/ SendChats(p) \/ Keep(p)
  \/ NoticeKilled(p) \/ Except(p) \/ Summarise(p) \/ Summed(p)

Next ==
  \/ LogNext /\ UNCHANGED noticeVars
  \/ \E p \in Procs : Notice(p)
  \/ Morning

\* What a process does when nothing fails: the timer's minutes, and every command
\* that was begun.
Progress(p) ==
  \/ /\ \/ p = Timer /\ Sync(p)
        \/ Record(p) \/ Save(p) \/ Maintain(p) \/ Rename(p) \/ Create(p)
        \/ Pack(p) \/ Unlink(p) \/ Reopen(p) \/ Enabling(p)
     /\ UNCHANGED noticeVars
  \/ p = Timer /\ Read(p)
  \/ Send(p) \/ Mark(p) \/ SendChats(p) \/ Keep(p) \/ Summarise(p) \/ Summed(p)

Spec == Init /\ [][Next]_vars
FairSpec == Spec /\ \A p \in Procs : WF_vars(Progress(p))

-----------------------------------------------------------------------------
(***************************************************************************)
(* Properties.                                                             *)
(***************************************************************************)
AlertType == [id : 0 .. MaxLines, count : 0 .. MaxLines * (MaxMishaps + 1),
              first : 0 .. MaxLines, last : 0 .. MaxLines, notified : 0 .. MaxLines]

\* The type of every variable a command or a notice writes.
TypeOK ==
  /\ written \in Seq(Clients) /\ Len(written) <= MaxLines
  /\ text \in [Inodes -> Seq(Lines)]
  /\ current \in Inodes \union {NoFile} /\ open \in Inodes
  /\ rotated \subseteq Inodes /\ archive \subseteq SUBSET Lines
  /\ saved.ino \in Inodes \union {NoFile} /\ saved.off \in 0 .. MaxLines
  /\ {windows, counted, detail} \subseteq [Lines -> 0 .. MaxMishaps + MaxByHand + 1]
  /\ alerts \in [Clients -> AlertType]
  /\ capture \subseteq registered /\ registered \subseteq Clients
  /\ lock \in Procs \union {NoProc}
  /\ bot.sent \union bot.chats \subseteq (Lines \X Nat)
  /\ bot.cursor < nextId

\* No alert is passed over: one at or below the saved cursor was sent to the owner,
\* and to its client unless that message failed, or it was there before the first
\* run, or an exception covered it when it was read.
NothingPassedOver ==
  \A c \in Rows :
    alerts[c].id <= bot.cursor /\ alerts[c].first \notin excused =>
      /\ alerts[c].first \in told
      /\ c \in Chats => alerts[c].first \in chatTold

\* A second summary of a morning is sent only after one that was not recorded.
SummaryOnce == \A d \in 0 .. MaxDays : sums[d] > 1 => d \in unsure

\* Every line of a client that stays in access.log is counted some day, and every
\* alert is sent, or covered, or past its retention: no failure stops the minutes.
EventsGetThrough ==
  /\ \A l \in Lines :
       (l \in InLog) ~>
         \/ l \notin InLog \/ written[l] \notin registered
         \/ windows[l] > 0 \/ l \in passed \/ behind
  /\ \A l \in Lines :
       (l \in Begun) ~> (l \in told \union excused \/ l \notin Begun)
=============================================================================
