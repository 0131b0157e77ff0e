--------------------------- MODULE TelegramPoller ---------------------------
(***************************************************************************)
(* The consumers of the bot's updates.  Telegram keeps a queue of updates  *)
(* and forgets those below the offset of a getUpdates request.  The        *)
(* long-polling service and the manual poll-users take a batch, claim it   *)
(* in manager.db by moving the saved cursor past it, and only then act on  *)
(* each update; `xray-telegram owner` claims a batch without acting on it  *)
(* when it binds another chat.  poller.lock lets one of them work at a     *)
(* time.  notify-expiry takes no lock: it loads the same row at its start  *)
(* and saves all of it at its end.                                         *)
(*                                                                         *)
(* telegram/poller.py, settings.py, setup.py, notifications.py and the     *)
(* poller lock of core/locks.py.  An update is its Telegram id and a       *)
(* number that stands for its content: two updates are equal only if they  *)
(* are the same one, as with the signatures of the code.                   *)
(***************************************************************************)
EXTENDS Integers, Sequences, FiniteSetsExt, SequencesExt

CONSTANTS
  Pollers,    \* processes that run poll_user_subscriptions
  Service,    \* the one of them that is xray-telegram-poller.service
  Owner,      \* the process that runs `xray-telegram owner`
  NoOne,      \* poller.lock is free
  MaxSent,    \* bound: updates that users send
  MaxTries,   \* bound: runs of `owner` that get as far as a chosen chat
  MaxNotices, \* bound: runs of notify-expiry
  MaxKills,   \* bound: processes killed
  MaxAges     \* bound: silences of more than a day

Consumers == Pollers \union {Owner}

ASSUME ConsumersAssumption ==
  /\ Service \in Pollers
  /\ Owner \notin Pollers
  /\ NoOne \notin Consumers
  /\ MaxSent \in Nat \ {0}
  /\ {MaxTries, MaxNotices, MaxKills, MaxAges} \subseteq Nat

VARIABLES
  queue,     \* Telegram: the updates it still keeps, oldest first
  next,      \* Telegram: the id of the next update
  asked,     \* Telegram: the offset of the last request, 0 for none
  recent,    \* the last poll saved in manager.db is at most a day old
  row,       \* clientSubscriptionState in manager.db
  owner,     \* chatId in manager.db: the how-manieth binding, 0 for none
  lock,      \* the holder of poller.lock
  pc,        \* the step each consumer is at
  mine,      \* what each consumer loaded: its copy of row, the owner
  todo,      \* the updates each consumer still has to go through
  notifier,  \* notify-expiry: its step and its copy of row
  did,       \* history: how often the bounded things have happened
  sent,      \* history: updates sent so far; they are numbered 1 .. sent
  fate,      \* history: what became of each update
  menus,     \* history: menus sent so far, numbered by their message ids
  acted,     \* history: how often a button of each menu was accepted
  overtaken, \* history: requests of pollers since the waiting owner came
  reverted   \* history: notify-expiry has overwritten a newer guard

telegram == <<queue, next, asked>>
stored == <<row, owner>>
history == <<did, sent, fate, menus, acted, overtaken, reverted>>
vars == <<telegram, recent, stored, lock, pc, mine, todo, notifier, history>>

Update == [id : 1 .. 2 * MaxSent + 2, n : 1 .. MaxSent, tap : 0 .. MaxSent + 1]
IsMessage(u) == u.tap = 0  \* otherwise a tap on a button of menu u.tap

Ids(updates) == {u.id : u \in updates}
Numbers(updates) == {u.n : u \in updates}

\* The updates from this id on, in their order.
From(updates, id) ==
  LET kept[i \in 0 .. Len(updates)] ==
        IF i = 0 THEN <<>>
        ELSE IF updates[i].id >= id THEN Append(kept[i - 1], updates[i])
        ELSE kept[i - 1]
  IN  kept[Len(updates)]

\* No menu is active, none used; the cursor is that of an empty database.
NewRow ==
  [offset |-> 0, confirmed |-> "absent", sequence |-> 0, signatures |-> {},
   active |-> 0, consumed |-> {}, reminded |-> FALSE]

NoCopy == [row |-> NewRow, owner |-> 0]

\* A new bot; one that has run for a while, with a menu that is still active; or the
\* first start after a version that did not save the confirmation: it stopped behind an
\* id of a numbering Telegram has since left, and may have acted on the first update of
\* the new one without moving its cursor.
Init ==
  /\ \E past \in {"new", "running", "old"} :
       /\ owner = IF past = "new" THEN 0 ELSE 1
       /\ menus = IF past = "running" THEN 1 ELSE 0
       /\ sent \in IF past = "old" THEN {0, 1} ELSE {0}
       /\ next = IF past = "old" THEN 1 + sent ELSE MaxSent + 1
       /\ queue = [i \in 1 .. sent |-> [id |-> 1, n |-> 1, tap |-> 0]]
       /\ row = CASE past = "new" -> NewRow
                  [] past = "running" -> [NewRow EXCEPT !.offset = MaxSent + 1,
                                                        !.confirmed = "yes", !.active = 1]
                  [] past = "old" -> [NewRow EXCEPT !.offset = MaxSent + 2]
  /\ asked = row.offset
  /\ recent = TRUE
  /\ lock = NoOne
  /\ pc = [c \in Consumers |-> "idle"]
  /\ mine = [c \in Consumers |-> NoCopy]
  /\ todo = [c \in Consumers |-> <<>>]
  /\ notifier = [step |-> "idle", row |-> NewRow]
  /\ did = [try |-> 0, notice |-> 0, kill |-> 0, age |-> 0, reminder |-> 0,
             unsaved |-> 0]
  /\ fate = [n \in 1 .. MaxSent |->
              [claimed |-> n <= sent, skipped |-> FALSE,
               done |-> IF n <= sent THEN 1 ELSE 0, gone |-> "no"]]
  /\ acted = [m \in 1 .. MaxSent + 1 |-> 0]
  /\ overtaken = 0
  /\ reverted = FALSE

Counts(what) == did' = [did EXCEPT ![what] = @ + 1]

-----------------------------------------------------------------------------
(***************************************************************************)
(* The Bot API, as the code relies on it.                                  *)
(***************************************************************************)

\* What is still kept after a request with this offset.  An offset above the
\* current numbering is that of an earlier one and is ignored.
Kept(offset) == IF offset > next THEN queue ELSE From(queue, offset)

\* A request with the offset of the last one may be answered with one update.
Answers(offset) ==
  {Kept(offset)} \union
  (IF offset # 0 /\ offset = asked THEN {SubSeq(Kept(offset), 1, Min({1, Len(Kept(offset))}))} ELSE {})

Request(offset) ==
  /\ queue' = Kept(offset)
  /\ asked' = offset
  /\ fate' = [n \in DOMAIN fate |->
               IF n \in Numbers(ToSet(queue)) \ Numbers(ToSet(Kept(offset)))
               THEN [fate[n] EXCEPT !.gone = "forgotten"] ELSE fate[n]]
  /\ UNCHANGED next

\* A user writes to the bot or taps a button of a menu it has sent.
UserSends ==
  /\ sent < MaxSent
  /\ sent' = sent + 1
  /\ \E m \in 0 .. menus : queue' = Append(queue, [id |-> next, n |-> sent', tap |-> m])
  /\ next' = next + 1
  /\ UNCHANGED <<asked, recent, stored, lock, pc, mine, todo, notifier, did, fate,
                 menus, acted, overtaken, reverted>>

AtRest == \A c \in Consumers : pc[c] \notin {"loaded", "again", "fetched"}

\* More than a day without a poll: what Telegram kept since before is dropped.
Ages ==
  /\ did.age < MaxAges
  /\ Counts("age")
  /\ recent' = FALSE
  /\ AtRest
  /\ \E k \in 1 .. Len(queue) + 1 :
       /\ queue' = SubSeq(queue, k, Len(queue))
       /\ fate' = [n \in DOMAIN fate |->
                    IF n \in Numbers(ToSet(queue)) \ Numbers(ToSet(queue'))
                    THEN [fate[n] EXCEPT !.gone = "expired"] ELSE fate[n]]
  /\ UNCHANGED <<next, asked, stored, lock, pc, mine, todo, notifier, sent, menus,
                 acted, overtaken, reverted>>

\* After a week without updates Telegram chooses the next id anew.
Renumbers ==
  /\ queue = <<>>
  /\ AtRest
  /\ row.confirmed = "yes" \/ ~recent
  /\ next' \in 1 .. next - 1
  /\ UNCHANGED <<queue, asked, recent, stored, lock, pc, mine, todo, notifier, history>>

-----------------------------------------------------------------------------
(***************************************************************************)
(* Taking poller.lock.  The owner registers by a lock on its byte of the   *)
(* entry file, which it holds until it has finished; a poller looks for    *)
(* such a byte before it tries the flock and again when it has it.         *)
(***************************************************************************)
Goto(c, step) == pc' = [pc EXCEPT ![c] = step]

\* The consumer returns or its process dies: the kernel frees its locks.
Leave(c) ==
  /\ Goto(c, "idle")
  /\ mine' = [mine EXCEPT ![c] = NoCopy]
  /\ todo' = [todo EXCEPT ![c] = <<>>]
  /\ lock' = IF lock = c THEN NoOne ELSE lock

OwnerRegistered == pc[Owner] \in {"waiting", "loaded", "again", "fetched"}

\* Mutant of Checks: the check before the flock is left out.
ChecksNothing(c) ==
  /\ pc[c] = "idle"
  /\ Goto(c, "checked")
  /\ UNCHANGED <<telegram, recent, stored, lock, mine, todo, notifier, history>>

\* A poller that finds the owner waiting gives up until its next attempt.
Checks(c) ==
  /\ pc[c] = "idle"
  /\ ~OwnerRegistered
  /\ Goto(c, "checked")
  /\ UNCHANGED <<telegram, recent, stored, lock, mine, todo, notifier, history>>

\* Mutant of TakesLock: the flock is shared.
TakesLockShared(c) ==
  /\ pc[c] = "checked"
  /\ lock' = c
  /\ Goto(c, "locked")
  /\ UNCHANGED <<telegram, recent, stored, mine, todo, notifier, history>>

\* The flock is tried once, without a timeout.
TakesLock(c) ==
  /\ pc[c] = "checked"
  /\ lock' = IF lock = NoOne THEN c ELSE lock
  /\ Goto(c, IF lock = NoOne THEN "locked" ELSE "idle")
  /\ UNCHANGED <<telegram, recent, stored, mine, todo, notifier, history>>

\* Mutant of Loads: no second look at the entry file.
LoadsUnchecked(c) ==
  /\ pc[c] = "locked"
  /\ owner # 0
  /\ Goto(c, "loaded")
  /\ mine' = [mine EXCEPT ![c] = [row |-> row, owner |-> owner]]
  /\ UNCHANGED <<telegram, recent, stored, lock, todo, notifier, history>>

\* The second look at the entry file, then load_db.
Loads(c) ==
  /\ pc[c] = "locked"
  /\ IF OwnerRegistered \/ owner = 0
     THEN Leave(c)
     ELSE /\ Goto(c, "loaded")
          /\ mine' = [mine EXCEPT ![c] = [row |-> row, owner |-> owner]]
          /\ UNCHANGED <<lock, todo>>
  /\ UNCHANGED <<telegram, recent, stored, notifier, history>>

\* The operator looks for his chat without the lock: a request without an offset,
\* which must show a message.
OwnerSearches ==
  /\ pc[Owner] = "idle"
  /\ did.try < MaxTries
  /\ Request(0)
  /\ IF \E u \in ToSet(queue) : IsMessage(u)
     THEN Counts("try") /\ Goto(Owner, "chosen")
     ELSE UNCHANGED <<did, pc>>
  /\ UNCHANGED <<recent, stored, lock, mine, todo, notifier, sent, menus, acted,
                 overtaken, reverted>>

OwnerRegisters ==
  /\ pc[Owner] = "chosen"
  /\ Goto(Owner, "waiting")
  /\ overtaken' = 0
  /\ UNCHANGED <<telegram, recent, stored, lock, mine, todo, notifier, did, sent, fate,
                 menus, acted, reverted>>

\* Mutant of OwnerTakesLock: the binding does not wait for the batch in progress.
OwnerTakesLockAnyway ==
  /\ pc[Owner] = "waiting"
  /\ lock' = Owner
  /\ Goto(Owner, "loaded")
  /\ mine' = [mine EXCEPT ![Owner] = [row |-> row, owner |-> owner]]
  /\ UNCHANGED <<telegram, recent, stored, todo, notifier, history>>

\* The flock is tried again and again for up to a minute.
OwnerTakesLock ==
  /\ pc[Owner] = "waiting"
  /\ lock = NoOne
  /\ lock' = Owner
  /\ Goto(Owner, "loaded")
  /\ mine' = [mine EXCEPT ![Owner] = [row |-> row, owner |-> owner]]
  /\ UNCHANGED <<telegram, recent, stored, todo, notifier, history>>

OwnerTimesOut ==
  /\ pc[Owner] = "waiting"
  /\ lock # NoOne
  /\ Leave(Owner)
  /\ UNCHANGED <<telegram, recent, stored, notifier, history>>

-----------------------------------------------------------------------------
(***************************************************************************)
(* Getting a batch: user_updates_payload and fetch_user_updates.           *)
(***************************************************************************)

\* Mutant of OffsetOf: a confirmed cursor is sent as well.
OffsetOfAlways(r) == r.offset

OffsetOf(r) ==
  IF r.confirmed = "absent" \/ (r.confirmed = "no" /\ recent) THEN r.offset ELSE 0

LowIds(updates, r) == updates # <<>> /\ Min(Ids(ToSet(updates))) < OffsetOf(r)

\* A database without confirmation reads the queue again from the first id it got.
Fetches(c) ==
  /\ pc[c] = "loaded"
  /\ LET r == mine[c].row IN
     /\ Request(OffsetOf(r))
     /\ \E updates \in Answers(OffsetOf(r)) :
          /\ todo' = [todo EXCEPT ![c] = updates]
          /\ Goto(c, IF r.confirmed = "absent" /\ LowIds(updates, r)
                     THEN "again" ELSE "fetched")
  /\ overtaken' = IF c # Owner /\ OwnerRegistered THEN overtaken + 1 ELSE overtaken
  /\ UNCHANGED <<recent, stored, lock, mine, notifier, did, sent, menus, acted,
                 reverted>>

FetchesFromHead(c) ==
  /\ pc[c] = "again"
  /\ LET head == Min(Ids(ToSet(todo[c]))) IN
     /\ Request(head)
     /\ \E updates \in Answers(head) : todo' = [todo EXCEPT ![c] = updates]
  /\ Goto(c, "fetched")
  /\ UNCHANGED <<recent, stored, lock, mine, notifier, did, sent, menus, acted,
                 overtaken, reverted>>

\* The request fails, before Telegram has seen it or after.
FetchFails(c) ==
  /\ pc[c] \in {"loaded", "again"}
  /\ Request(OffsetOf(mine[c].row)) \/ UNCHANGED <<telegram, fate>>
  /\ Leave(c)
  /\ UNCHANGED <<recent, stored, notifier, did, sent, menus, acted, overtaken,
                 reverted>>

-----------------------------------------------------------------------------
(***************************************************************************)
(* Claiming it: _claim_user_updates, one write transaction.                *)
(***************************************************************************)

\* The ids restarted below the cursor: lower ids, none of them seen before.
Turned(copy, batch) ==
  /\ batch # {}
  /\ row.offset = copy.offset
  /\ Min(Ids(batch)) < row.offset
  /\ batch \intersect row.signatures = {}

\* Mutant of Claimed: the offset outlives the old numbering.
ClaimedHigh(copy, batch) ==
  IF batch = {} THEN [row EXCEPT !.confirmed = "yes", !.signatures = {}]
  ELSE [row EXCEPT !.offset = Max({@, Max(Ids(batch)) + 1}), !.confirmed = "no",
                   !.signatures = batch]

\* Mutant of Claimed: a claim forgets the signatures of the batch before.
ClaimedForgets(copy, batch) ==
  LET turned == Turned(copy, batch) IN
  IF batch = {} THEN [row EXCEPT !.confirmed = "yes", !.signatures = {}]
  ELSE [row EXCEPT !.offset = Max({IF turned THEN 0 ELSE @, Max(Ids(batch)) + 1}),
                   !.confirmed = "no",
                   !.sequence = IF turned THEN @ + 1 ELSE @,
                   !.signatures = {}]

\* The cursor moves past the batch; an empty answer confirms the one before.
Claimed(copy, batch) ==
  LET turned == Turned(copy, batch)
      old    == IF turned THEN {} ELSE row.signatures
  IN
  IF batch = {}
  THEN IF row.offset = copy.offset
       THEN [row EXCEPT !.confirmed = "yes", !.signatures = {}] ELSE row
  ELSE [row EXCEPT !.offset = Max({IF turned THEN 0 ELSE @, Max(Ids(batch)) + 1}),
                   !.confirmed = "no",
                   !.sequence = IF turned THEN @ + 1 ELSE @,
                   !.signatures = {u \in old : u.id \notin Ids(batch)} \union batch]

\* The ids below this one are claimed but not acted on.
FirstNew(copy, batch) ==
  IF Turned(copy, batch) /\ row.confirmed # "absent" THEN 0 ELSE row.offset

\* claim_user_updates copies the cursor back into the consumer's own db.
Recursored(copy, r) ==
  [copy EXCEPT !.offset = r.offset, !.confirmed = r.confirmed, !.sequence = r.sequence]

MarkClaimed(batch, skipped) ==
  fate' = [n \in DOMAIN fate |->
            IF n \in Numbers(batch)
            THEN [fate[n] EXCEPT !.claimed = TRUE,
                                 !.skipped = @ \/ n \in Numbers(skipped)]
            ELSE fate[n]]

\* Another consumer's numbering: the batch is left to it.
Claims(c) ==
  /\ c \in Pollers
  /\ pc[c] = "fetched"
  /\ LET copy  == mine[c].row
         batch == ToSet(todo[c])
     IN
     IF row.sequence # copy.sequence
     THEN Leave(c) /\ UNCHANGED <<recent, row, fate>>
     ELSE /\ row' = Claimed(copy, batch)
          /\ recent' = TRUE
          /\ mine' = [mine EXCEPT ![c].row = Recursored(@, row')]
          /\ todo' = [todo EXCEPT ![c] = From(@, FirstNew(copy, batch))]
          /\ MarkClaimed(batch, IF row.confirmed = "absent" /\ Turned(copy, batch)
                               THEN {u \in batch : u.id < row.offset} ELSE {})
          /\ Goto(c, "acting")
          /\ UNCHANGED lock
  /\ UNCHANGED <<telegram, owner, notifier, did, sent, menus, acted, overtaken,
                 reverted>>

\* manager.db stays busy, or the token was changed: nothing is written.
ClaimFails(c) ==
  /\ pc[c] = "fetched"
  /\ Leave(c)
  /\ UNCHANGED <<telegram, recent, stored, notifier, history>>

\* The binding and the claim are one transaction.  If the numbering has changed
\* meanwhile, the queue is read once more.
OwnerBinds ==
  /\ pc[Owner] = "fetched"
  /\ LET copy == mine[Owner].row
         batch == ToSet(todo[Owner])
     IN
     IF row.sequence # copy.sequence
     THEN /\ mine' = [mine EXCEPT ![Owner] = [row |-> row, owner |-> owner]]
          /\ todo' = [todo EXCEPT ![Owner] = <<>>]
          /\ Goto(Owner, "loaded")
          /\ UNCHANGED <<recent, stored, lock, fate>>
     ELSE /\ row' = Claimed(copy, batch)
          /\ recent' = TRUE
          /\ owner' = owner + 1
          /\ MarkClaimed(batch, batch)
          /\ Leave(Owner)
  /\ UNCHANGED <<telegram, notifier, did, sent, menus, acted, overtaken, reverted>>

-----------------------------------------------------------------------------
(***************************************************************************)
(* Acting on the updates that remain, one after the other.  A menu is used *)
(* once: its message id is the active one until a tap on it is accepted,   *)
(* and then among the consumed ones.                                       *)
(***************************************************************************)

\* Mutant of Merged: the last writer's reminders replace those of the database.
MergedPlain(r) ==
  [row EXCEPT !.active = r.active, !.consumed = r.consumed, !.reminded = r.reminded]

\* merge_client_subscription_state: the cursor never goes back, reminders are
\* united, and whatever else the writer loaded replaces what is there.
Merged(r) ==
  LET ahead == r.sequence = row.sequence /\ r.offset > row.offset IN
  [row EXCEPT !.offset = IF ahead THEN r.offset ELSE @,
              !.confirmed = IF ahead THEN "no" ELSE @,
              !.active = r.active,
              !.consumed = r.consumed,
              !.reminded = @ \/ r.reminded]

Acting(c) == pc[c] = "acting" /\ todo[c] # <<>>

Done(u) == fate' = [fate EXCEPT ![u.n].done = @ + 1]

\* A handler that changes nothing of the guard: it still answers with a menu.
TakesMessage(c) ==
  /\ Acting(c)
  /\ IsMessage(Head(todo[c]))
  /\ Done(Head(todo[c]))
  /\ Goto(c, "replying")
  /\ UNCHANGED <<telegram, recent, stored, lock, mine, todo, notifier, did, sent,
                 menus, acted, overtaken, reverted>>

MarkUsed(r, m) == [r EXCEPT !.consumed = @ \union {m}, !.active = 0]

\* accept_client_callback saves the guard before the handler runs.  Some buttons, such as
\* "menu", are accepted from a menu that is not the active one.
AcceptsTap(c) ==
  /\ Acting(c)
  /\ LET u == Head(todo[c]) IN
     /\ ~IsMessage(u)
     /\ u.tap \notin mine[c].row.consumed
     /\ mine' = [mine EXCEPT ![c].row = MarkUsed(@, u.tap)]
     /\ row' = Merged(mine'[c].row)
     /\ acted' = [acted EXCEPT ![u.tap] = @ + 1]
     /\ Done(u)
  /\ Goto(c, "replying")
  /\ UNCHANGED <<telegram, recent, owner, lock, todo, notifier, did, sent, menus,
                 overtaken, reverted>>

RefusesTap(c) ==
  /\ Acting(c)
  /\ LET u == Head(todo[c]) IN
     /\ ~IsMessage(u)
     /\ \/ u.tap \in mine[c].row.consumed
        \/ mine[c].row.active \notin {0, u.tap}
     /\ Done(u)
  /\ todo' = [todo EXCEPT ![c] = Tail(@)]
  /\ UNCHANGED <<telegram, recent, stored, lock, pc, mine, notifier, did, sent, menus,
                 acted, overtaken, reverted>>

\* The answer is a new menu, which becomes the active one.  A subscription that could
\* not be saved makes the poller load its db again and answer with an error.
Replies(c) ==
  /\ pc[c] = "replying"
  /\ menus <= MaxSent
  /\ menus' = menus + 1
  /\ \E base \in {mine[c], [row |-> row, owner |-> owner]} :
       mine' = [mine EXCEPT ![c] = [base EXCEPT !.row.active = menus']]
  /\ row' = Merged(mine'[c].row)
  /\ todo' = [todo EXCEPT ![c] = Tail(@)]
  /\ Goto(c, "acting")
  /\ UNCHANGED <<telegram, recent, owner, lock, notifier, did, sent, fate, acted,
                 overtaken, reverted>>

\* The action and then the message about its failure fail; or the handler has nothing
\* to send.
SendsNothing(c) ==
  /\ pc[c] = "replying"
  /\ todo' = [todo EXCEPT ![c] = Tail(@)]
  /\ Goto(c, "acting")
  /\ UNCHANGED <<telegram, recent, stored, lock, mine, notifier, history>>

Finishes(c) ==
  /\ pc[c] = "acting"
  /\ todo[c] = <<>>
  /\ Leave(c)
  /\ UNCHANGED <<telegram, recent, stored, notifier, history>>

Killed(c) ==
  /\ pc[c] # "idle"
  /\ did.kill < MaxKills
  /\ Counts("kill")
  /\ Leave(c)
  /\ UNCHANGED <<telegram, recent, stored, notifier, sent, fate, menus, acted,
                 overtaken, reverted>>

-----------------------------------------------------------------------------
(***************************************************************************)
(* notify-expiry, with one reminder due.                                   *)
(***************************************************************************)
NotifierLoads ==
  /\ notifier.step = "idle"
  /\ owner # 0
  /\ did.notice < MaxNotices
  /\ Counts("notice")
  /\ notifier' = [step |-> "loaded", row |-> row]
  /\ UNCHANGED <<telegram, recent, stored, lock, pc, mine, todo, sent, fate, menus,
                 acted, overtaken, reverted>>

\* It has not been sent yet as far as the copy knows, and sending may fail.
NotifierSends ==
  /\ notifier.step = "loaded"
  /\ \/ /\ ~notifier.row.reminded
        /\ Counts("reminder")
        /\ notifier' = [step |-> "sent", row |-> [notifier.row EXCEPT !.reminded = TRUE]]
     \/ /\ notifier' = [notifier EXCEPT !.step = "sent"]
        /\ UNCHANGED did
  /\ UNCHANGED <<telegram, recent, stored, lock, pc, mine, todo, sent, fate, menus,
                 acted, overtaken, reverted>>

NotifierSaves ==
  /\ notifier.step = "sent"
  /\ row' = Merged(notifier.row)
  /\ reverted' = (reverted \/ row'.active # row.active \/ row'.consumed # row.consumed)
  /\ notifier' = [step |-> "idle", row |-> NewRow]
  /\ UNCHANGED <<telegram, recent, owner, lock, pc, mine, todo, did, sent, fate, menus,
                 acted, overtaken>>

NotifierKilled ==
  /\ notifier.step # "idle"
  /\ did.kill < MaxKills
  /\ did' = [did EXCEPT !.kill = @ + 1, !.unsaved = @ + 1]
  /\ notifier' = [step |-> "idle", row |-> NewRow]
  /\ UNCHANGED <<telegram, recent, stored, lock, pc, mine, todo, sent, fate, menus,
                 acted, overtaken, reverted>>

Works(c) ==
  \/ Fetches(c) \/ FetchesFromHead(c) \/ FetchFails(c) \/ Claims(c) \/ ClaimFails(c)
  \/ TakesMessage(c) \/ AcceptsTap(c) \/ RefusesTap(c) \/ Replies(c) \/ SendsNothing(c)
  \/ Finishes(c)

Polls(c) == Checks(c) \/ TakesLock(c) \/ Loads(c)

OwnerWorks == OwnerRegisters \/ OwnerTakesLock \/ OwnerTimesOut \/ OwnerBinds

Notifies == NotifierLoads \/ NotifierSends \/ NotifierSaves \/ NotifierKilled

Next ==
  \/ UserSends \/ Ages \/ Renumbers
  \/ \E c \in Pollers : Polls(c)
  \/ OwnerSearches \/ OwnerWorks
  \/ \E c \in Consumers : Works(c) \/ Killed(c)
  \/ Notifies

Spec == Init /\ [][Next]_vars

\* The service always tries again, and a process that has begun goes on; a request
\* or a transaction that is repeated for ever succeeds some time.  Nobody has to run
\* poll-users or `owner`, and users need not write.
FairSpec ==
  /\ Spec
  /\ WF_vars(Checks(Service))
  /\ \A c \in Pollers : /\ WF_vars(TakesLock(c) \/ Loads(c) \/ Works(c))
                        /\ SF_vars(Fetches(c))
                        /\ SF_vars(FetchesFromHead(c))
                        /\ SF_vars(Claims(c))
  /\ WF_vars(OwnerRegisters)
  /\ WF_vars(OwnerTakesLock)
  /\ WF_vars(Works(Owner) \/ OwnerBinds)

-----------------------------------------------------------------------------
(***************************************************************************)
(* Properties.                                                             *)
(***************************************************************************)
Holding == {"locked", "loaded", "again", "fetched", "acting", "replying"}

Row ==
  [offset : 0 .. 2 * MaxSent + 2, confirmed : {"absent", "no", "yes"},
   sequence : 0 .. MaxSent, signatures : SUBSET Update, active : 0 .. MaxSent + 1,
   consumed : SUBSET (1 .. MaxSent + 1), reminded : BOOLEAN]

Steps == {"idle", "checked", "chosen", "waiting"} \union Holding

\* The holder of poller.lock is the one consumer that is past taking it, until the end
\* of its batch.
OneHolder == \A c \in Consumers : pc[c] \in Holding <=> lock = c

\* Types, and the meaning of the lock.
TypeOK ==
  /\ ToSet(queue) \subseteq Update
  /\ next \in 1 .. 2 * MaxSent + 1
  /\ asked \in 0 .. 2 * MaxSent + 2
  /\ recent \in BOOLEAN
  /\ row \in Row
  /\ owner \in 0 .. 1 + MaxTries
  /\ \A c \in Consumers :
       /\ pc[c] \in Steps
       /\ mine[c].row \in Row
       /\ mine[c].owner \in 0 .. 1 + MaxTries
       /\ ToSet(todo[c]) \subseteq Update
  /\ OneHolder
  /\ notifier.step \in {"idle", "loaded", "sent"}
  /\ notifier.row \in Row

\* A second poller, a repeated answer of Telegram, a restart of its numbering or of the
\* poller, a saved copy of an old cursor: no update is acted on twice.
HandledOnce ==
  \A n \in 1 .. sent : fate[n].done <= 1

\* Telegram is made to forget only what has been claimed, and what has been claimed is
\* acted on, left to the new owner's past, or still in the hands of the poller that
\* claimed it, unless that poller was killed.
NothingLost ==
  \A n \in 1 .. sent :
    /\ fate[n].gone = "forgotten" => fate[n].claimed
    /\ fate[n].claimed /\ fate[n].done = 0 /\ ~fate[n].skipped =>
         did.kill > 0 \/ \E c \in Pollers : n \in Numbers(ToSet(todo[c]))

Batch == Holding \ {"locked"}

\* From its load_db to the end of the batch a poller works for the owner that is in the
\* database: a new binding does not overtake the commands of the one before.
WorksForOwner == \A c \in Pollers : pc[c] \in Batch => mine[c].owner = owner

\* While the owner waits for the lock, the batch in progress is the last to be asked for.
OvertakenOnce == overtaken <= 1

\* A reminder is sent once, although the pollers save copies of the row that are older
\* than it; a second time only if the notifier died before it saved.  And a menu's buttons
\* work once, as long as notify-expiry has not written back a guard that it loaded before
\* a poller changed it.
NoticesOnce ==
  /\ did.reminder <= 1 + did.unsaved
  /\ reverted \/ \A m \in 1 .. menus : acted[m] <= 1

\* docs/telegram.md:238: a menu whose button has been accepted is used up.
ButtonOnceAlways == \A m \in 1 .. menus : acted[m] <= 1

\* Once an owner is bound, every update is acted on, set aside by a binding, or outlived
\* its day at Telegram, unless a process was killed in between.
EveryUpdateHandled ==
  \A n \in 1 .. MaxSent :
    (sent >= n /\ owner # 0) ~>
      (fate[n].done > 0 \/ fate[n].skipped \/ fate[n].gone = "expired" \/ did.kill > 0)

\* The owner waiting for the lock gets it, or its minute is over: pollers that only try
\* the lock do not keep it away.
OwnerGetsIn == pc[Owner] = "waiting" ~> pc[Owner] # "waiting"
=============================================================================
