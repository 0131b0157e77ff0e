---------------------------- MODULE TrafficSync ----------------------------
(***************************************************************************)
(* Traffic accounting.  Xray counts the bytes of every credential from     *)
(* zero each time it starts.  xray-traffic-sync turns these counters into  *)
(* totals that outlive Xray: it adds to each total what the counter grew   *)
(* by since the value saved with it (last), and the same amount to the     *)
(* hourly history.  Syncs are started by a minute timer, by hand, and by   *)
(* systemd as the ExecStop of xray.service; they exclude one another by    *)
(* traffic.lock but do not take manager.lock, so they interleave with the  *)
(* command that is replacing config.json, restarting Xray and deleting     *)
(* client rows, whose traffic rows go with them (ON DELETE CASCADE).       *)
(*                                                                         *)
(* commands/traffic_sync.py, traffic/repository.py, traffic/consistency.py *)
(* and the restart of core/systemd.py.  One direction stands for both.     *)
(* What a command writes is ClientOps; at most one runs (manager.lock, see *)
(* ClientApply).                                                           *)
(***************************************************************************)
EXTENDS ClientOps, Integers, FiniteSetsExt

CONSTANTS
  Timers,     \* syncs started by the minute timer or by hand
  ExecStop,   \* the sync systemd runs before it stops Xray
  NoSync,     \* traffic.lock is free
  MaxBytes,   \* bound: what one credential carries while Xray runs
  MaxRuns,    \* bound: starts of Xray after which no command begins
  MaxMishaps  \* bound: deaths of Xray, of commands and of ExecStop syncs

Syncs == Timers \union {ExecStop}

ASSUME ConnsAssumption == IsFiniteSet(Conns)

ASSUME SyncsAssumption ==
  /\ ExecStop \notin Timers
  /\ NoSync \notin Syncs
  /\ MaxBytes \in Nat
  /\ MaxRuns \in Nat
  /\ MaxMishaps \in Nat

VARIABLES
  lock,      \* the holder of traffic.lock
  pc,        \* the step each sync is at
  seen,      \* what each sync has read so far, then what it is going to write
  command,   \* the client command that holds manager.lock
  config,    \* config.json
  db,        \* client and credential rows of manager.db
  agg,       \* traffic_totals and traffic_history, by client
  cred,      \* credential_traffic_totals and _history, by client and connection
  xray,      \* the Xray unit: state, served credentials, counters
  carried,   \* history: bytes Xray carried for each client since its row was deleted
  readIn,    \* history: the start of Xray whose counter each last value is
  mishaps,   \* history: how often Xray, a command or an ExecStop has died
  reborn,    \* history: clients created while a sync held totals of their name
  moved,     \* history: clients a move-connection gave another credential
  undone     \* history: clients whose served credentials a failed command had changed

vars == <<lock, pc, seen, command, config, db, agg, cred, xray, carried, readIn,
          mishaps, reborn, moved, undone>>
stores == <<config, db>>
traffic == <<agg, cred, readIn>>
history == <<carried, mishaps, reborn, moved, undone>>

Never == -1

\* total and last as in traffic_totals, hist the sum of the history buckets.  An
\* absent row reads like a new entry: nothing counted, no last value.
Rows == [total : Nat, hist : Nat, last : Nat \union {Never}]
NoRow == [total |-> 0, hist |-> 0, last |-> Never]

Zero == [c \in Clients |-> [x \in Conns |-> 0]]
Nothing == [step |-> "none"]
NoCommand == [step |-> "idle"]

Init ==
  /\ lock = NoSync
  /\ pc = [s \in Syncs |-> "idle"]
  /\ seen = [s \in Syncs |-> Nothing]
  /\ command = NoCommand
  /\ config = [served |-> [c \in Clients |-> {}], route |-> [c \in Clients |-> NoRoute]]
  /\ db = [known |-> [c \in Clients |-> {}], on |-> [c \in Clients |-> {}],
           route |-> [c \in Clients |-> NoRoute]]
  /\ agg = [c \in Clients |-> NoRow]
  /\ cred = [c \in Clients |-> [x \in Conns |-> NoRow]]
  /\ xray = [state |-> "up", served |-> config.served, counter |-> Zero, run |-> 0]
  /\ carried = [c \in Clients |-> 0]
  /\ readIn = Zero
  /\ mishaps = 0
  /\ reborn = {}
  /\ moved = {}
  /\ undone = {}

-----------------------------------------------------------------------------
(***************************************************************************)
(* One sync: take traffic.lock, read the credentials of config.json and    *)
(* then of manager.db, ask Xray for its counters, load the traffic rows,   *)
(* write the new ones in one transaction.                                  *)
(***************************************************************************)
Goto(s, step) == pc' = [pc EXCEPT ![s] = step]

Mishap == mishaps < MaxMishaps /\ mishaps' = mishaps + 1

\* sync returns, or its process dies and its flock with it.
EndSync(s) ==
  /\ Goto(s, "idle")
  /\ seen' = [seen EXCEPT ![s] = Nothing]
  /\ lock' = IF lock = s THEN NoSync ELSE lock

StartSync(s) ==
  /\ pc[s] = "idle"
  /\ s \in Timers
  /\ Goto(s, "waiting")
  /\ UNCHANGED <<lock, seen, command, stores, traffic, xray, history>>

\* Mutant of AcquireTraffic: the flock is shared.
AcquireTrafficShared(s) ==
  /\ pc[s] = "waiting"
  /\ lock' = s
  /\ Goto(s, "config")
  /\ UNCHANGED <<seen, command, stores, traffic, xray, history>>

\* A blocking flock, without a timeout.
AcquireTraffic(s) ==
  /\ pc[s] = "waiting"
  /\ lock = NoSync
  /\ lock' = s
  /\ Goto(s, "config")
  /\ UNCHANGED <<seen, command, stores, traffic, xray, history>>

\* A rollback copies over config.json in place; half a file reads like an empty one.
HalfCopied == command # NoCommand /\ command.undo /\ command.step = "written"

ReadConfig(s) ==
  /\ pc[s] = "config"
  /\ \E served \in {config.served} \union
                  (IF HalfCopied THEN {[c \in Clients |-> {}]} ELSE {}) :
       seen' = [seen EXCEPT ![s] = [served |-> served]]
  /\ Goto(s, "rows")
  /\ UNCHANGED <<lock, command, stores, traffic, xray, history>>

\* Mutant of ReadRows: load_db, which takes manager.lock, in place of load_db_sql.
ReadRowsLocked(s) ==
  /\ pc[s] = "rows"
  /\ command.step = "idle"
  /\ seen' = [seen EXCEPT ![s] = [served |-> @.served, known |-> db.known]]
  /\ Goto(s, "query")
  /\ UNCHANGED <<lock, command, stores, traffic, xray, history>>

ReadRows(s) ==
  /\ pc[s] = "rows"
  /\ seen' = [seen EXCEPT ![s] = [served |-> @.served, known |-> db.known]]
  /\ Goto(s, "query")
  /\ UNCHANGED <<lock, command, stores, traffic, xray, history>>

\* known_credentials, of one client: all of them, and the one that comes first.
Known(s, c) == seen[s].served[c] \union seen[s].known[c]
Lead(s, c) == First(IF seen[s].served[c] # {} THEN seen[s].served[c] ELSE seen[s].known[c])

Alive == xray.state \in {"up", "stopping"}

QueryStats(s) ==
  /\ pc[s] = "query"
  /\ Alive
  /\ \E c \in Clients : Known(s, c) # {}
  /\ seen' = [seen EXCEPT ![s] = [served |-> @.served, known |-> @.known,
                                  stats |-> xray.counter, run |-> xray.run]]
  /\ Goto(s, "load")
  /\ UNCHANGED <<lock, command, stores, traffic, xray, history>>

\* No clients, or no answer within 5 seconds: nothing is written.
QueryFails(s) ==
  /\ pc[s] = "query"
  /\ EndSync(s)
  /\ UNCHANGED <<command, stores, traffic, xray, history>>

-----------------------------------------------------------------------------
(***************************************************************************)
(* The arithmetic of sync_locked.                                          *)
(***************************************************************************)
\* Mutant of Delta: counters are taken to grow forever.
DeltaSigned(now, last) == IF last = Never THEN 0 ELSE now - last

\* Mutant of Delta: every counter is taken for one that has restarted.
DeltaRestarted(now, last) == IF last = Never THEN 0 ELSE now

\* counter_delta, positive_delta: a counter below its last value has restarted
\* from zero; the first value seen of a credential counts nothing.
Delta(now, last) ==
  CASE last = Never -> 0
    [] last # Never /\ now >= last -> now - last
    [] last # Never /\ now < last  -> now

\* ensure_credential_entry: the only credential entry of a client that has just
\* been created takes over the client's own totals, history and last value.
Opening(s, c, x) ==
  IF x = Lead(s, c) /\ \A y \in Conns : cred[c][y] = NoRow THEN agg[c] ELSE cred[c][x]

Grown(row, bytes, last) ==
  [total |-> row.total + bytes, hist |-> row.hist + bytes, last |-> last]

Gain(s, c, x) ==
  IF x \in Known(s, c) THEN Delta(seen[s].stats[c][x], Opening(s, c, x).last) ELSE 0

NewCred(s, c, x) ==
  IF x \in Known(s, c) THEN Grown(Opening(s, c, x), Gain(s, c, x), seen[s].stats[c][x])
                       ELSE cred[c][x]

\* The client's last is the sum over its credential entries.
NewAgg(s, c) ==
  IF Known(s, c) = {} THEN agg[c]
  ELSE Grown(agg[c], SumFunctionOnSet([x \in Conns |-> Gain(s, c, x)], Conns),
             SumFunctionOnSet([x \in Conns |-> NewCred(s, c, x).last],
                              {x \in Conns : NewCred(s, c, x) # NoRow}))

\* retained_history_gap, for clients created within the retention of six months:
\* what the total has and the history lacks goes into the history.
Gap(row, c) ==
  IF db.known[c] # {} /\ row.hist < row.total THEN row.total - row.hist ELSE 0

\* What save_traffic is given: the new entries, absolute, and the changes of the
\* history buckets.
Outcome(s) ==
  LET gap == [c \in Clients |-> Gap(NewAgg(s, c), c)]
  IN  [agg   |-> [c \in Clients |-> [NewAgg(s, c) EXCEPT !.hist = @ + gap[c]]],
       cred  |-> [c \in Clients |-> [x \in Conns |-> NewCred(s, c, x)]],
       dAgg  |-> [c \in Clients |-> NewAgg(s, c).hist + gap[c] - agg[c].hist],
       dCred |-> [c \in Clients |-> [x \in Conns |-> Gain(s, c, x)]],
       read  |-> [c \in Clients |-> [x \in Conns |->
                    IF x \in Known(s, c) THEN seen[s].run ELSE readIn[c][x]]]]

LoadTraffic(s) ==
  /\ pc[s] = "load"
  /\ seen' = [seen EXCEPT ![s] = Outcome(s)]
  /\ Goto(s, "save")
  /\ UNCHANGED <<lock, command, stores, traffic, xray, history>>

\* Mutant of Written: history changes are added to whatever row there is.
WrittenAsDelta(old, new, change) == [new EXCEPT !.hist = old.hist + change]

\* Totals are replaced.  The history of a row that is still there grows by the
\* changes; a row that is not gets the whole history of the entry.
Written(old, new, change) ==
  IF old = NoRow THEN new ELSE [new EXCEPT !.hist = old.hist + change]

\* Rows are written only for clients and credentials manager.db has at that time.
Writable(c, x, new) == new # NoRow /\ x \in db.known[c]

SaveTraffic(s) ==
  /\ pc[s] = "save"
  /\ agg' = [c \in Clients |->
       IF db.known[c] # {} /\ seen[s].agg[c] # NoRow
         THEN Written(agg[c], seen[s].agg[c], seen[s].dAgg[c])
         ELSE agg[c]]
  /\ cred' = [c \in Clients |-> [x \in Conns |->
       IF Writable(c, x, seen[s].cred[c][x])
         THEN Written(cred[c][x], seen[s].cred[c][x], seen[s].dCred[c][x])
         ELSE cred[c][x]]]
  /\ readIn' = [c \in Clients |-> [x \in Conns |->
       IF Writable(c, x, seen[s].cred[c][x]) THEN seen[s].read[c][x] ELSE readIn[c][x]]]
  /\ EndSync(s)
  /\ UNCHANGED <<command, stores, xray, history>>

\* A locked or full database, an unreadable file, a kill: nothing is written.
SyncDies(s) ==
  /\ pc[s] # "idle"
  /\ EndSync(s)
  /\ IF s = ExecStop THEN Mishap ELSE UNCHANGED mishaps
  /\ UNCHANGED <<command, stores, traffic, xray, carried, reborn, moved, undone>>

-----------------------------------------------------------------------------
(***************************************************************************)
(* The client command under manager.lock, reduced to what the syncs can    *)
(* see: config.json is replaced, Xray is stopped (ExecStop) and started,   *)
(* the rows are saved; a failure puts config.json back and restarts again. *)
(***************************************************************************)
BeginCommand ==
  /\ command = NoCommand
  /\ xray.run < MaxRuns
  /\ \E r \in Commands : \E k \in Candidates(r, config, db) :
       /\ command' = [step |-> IF k.kind = "apply" THEN "written" ELSE "save",
                      undo |-> FALSE, kind |-> k.kind, db |-> k.db, oldCfg |-> config]
       /\ config' = k.cfg
  /\ UNCHANGED <<lock, pc, seen, db, traffic, xray, history>>

\* The scenario fails: config.json is restored and Xray restarted on it; a
\* failure of that is only reported.
RollBack ==
  IF command.undo \/ command.kind # "apply"
    THEN command' = NoCommand /\ UNCHANGED <<config, undone>>
    ELSE /\ command' = [command EXCEPT !.step = "written", !.undo = TRUE]
         /\ config' = command.oldCfg
         /\ undone' = undone \union
              {c \in Clients : config.served[c] # command.oldCfg.served[c]}

\* systemctl stop: systemd runs ExecStop of a running unit, joins a stop that is
\* already going on, and has nothing to do for a unit that is not active.
StopXray ==
  /\ command.step = "written"
  /\ command' = [command EXCEPT !.step = "stopping"]
  /\ IF xray.state = "up"
       THEN Goto(ExecStop, "waiting") /\ xray' = [xray EXCEPT !.state = "stopping"]
       ELSE UNCHANGED pc /\ xray' = [xray EXCEPT !.state = IF @ = "exited" THEN "down" ELSE @]
  /\ UNCHANGED <<lock, seen, stores, traffic, history>>

XrayStopped ==
  /\ command.step = "stopping"
  /\ xray.state = "down"
  /\ command' = [command EXCEPT !.step = "stopped"]
  /\ UNCHANGED <<lock, pc, seen, stores, traffic, xray, history>>

\* systemctl stop takes more than 30 seconds; the stop goes on in systemd.
StopTimeout ==
  /\ command.step = "stopping"
  /\ xray.state = "stopping"
  /\ RollBack
  /\ UNCHANGED <<lock, pc, seen, db, traffic, xray, carried, mishaps, reborn, moved>>

Started == [xray EXCEPT !.state = "up", !.served = config.served, !.run = @ + 1]

StartXray ==
  /\ command.step = "stopped"
  /\ xray' = Started
  /\ command' = IF command.undo THEN NoCommand ELSE [command EXCEPT !.step = "save"]
  /\ UNCHANGED <<lock, pc, seen, stores, traffic, history>>

StartFails ==
  /\ command.step = "stopped"
  /\ RollBack
  /\ UNCHANGED <<lock, pc, seen, db, traffic, xray, carried, mishaps, reborn, moved>>

\* The traffic row of a client or credential that keeps its row in manager.db.
Cascade(keep, row) == IF keep THEN row ELSE NoRow

\* The clients whose rows the command deletes.
Deleted == {c \in Clients : db.known[c] # {} /\ command.db.known[c] = {}}

CommitCommand ==
  /\ command.step = "save"
  /\ db' = command.db
  /\ agg' = [c \in Clients |-> Cascade(command.db.known[c] # {}, agg[c])]
  /\ cred' = [c \in Clients |-> [x \in Conns |->
                Cascade(x \in command.db.known[c], cred[c][x])]]
  /\ readIn' = [c \in Clients |-> [x \in Conns |->
                  IF x \in command.db.known[c] THEN readIn[c][x] ELSE 0]]
  /\ carried' = [c \in Clients |-> IF c \in Deleted THEN 0 ELSE carried[c]]
  /\ reborn' = reborn \union
       {c \in Clients : /\ db.known[c] = {} /\ command.db.known[c] # {}
                        /\ \E s \in Syncs : pc[s] = "save" /\ seen[s].agg[c].total > 0}
  /\ moved' = (moved \ Deleted) \union
       {c \in Clients : /\ db.known[c] # {} /\ command.db.known[c] # {}
                        /\ db.known[c] \intersect command.db.known[c] = {}}
  /\ undone' = undone \ Deleted
  /\ command' = NoCommand
  /\ UNCHANGED <<lock, pc, seen, config, xray, mishaps>>

CommitFails ==
  /\ command.step = "save"
  /\ RollBack
  /\ UNCHANGED <<lock, pc, seen, db, traffic, xray, carried, mishaps, reborn, moved>>

CommandDies ==
  /\ command # NoCommand
  /\ command' = NoCommand
  /\ Mishap
  /\ UNCHANGED <<lock, pc, seen, stores, traffic, xray, carried, reborn, moved, undone>>

-----------------------------------------------------------------------------
(***************************************************************************)
(* Xray and systemd.                                                       *)
(***************************************************************************)
Carry(c, x) ==
  /\ Alive
  /\ x \in xray.served[c]
  /\ xray.counter[c][x] < MaxBytes
  /\ xray' = [xray EXCEPT !.counter[c][x] = @ + 1]
  /\ carried' = [carried EXCEPT ![c] = @ + 1]
  /\ UNCHANGED <<lock, pc, seen, command, stores, traffic, mishaps, reborn, moved, undone>>

\* ExecStop has ended: systemd stops the process and its counters are gone.
KillXray ==
  /\ xray.state = "stopping"
  /\ pc[ExecStop] = "idle"
  /\ xray' = [xray EXCEPT !.state = "down", !.counter = Zero]
  /\ UNCHANGED <<lock, pc, seen, command, stores, traffic, history>>

\* Xray fails, or the server does; systemd does not run ExecStop for that.
XrayExits ==
  /\ xray.state = "up"
  /\ xray.run < MaxRuns
  /\ xray' = [xray EXCEPT !.state = "exited", !.counter = Zero]
  /\ Mishap
  /\ UNCHANGED <<lock, pc, seen, command, stores, traffic, carried, reborn, moved, undone>>

\* Restart=on-failure.
XrayStarts ==
  /\ xray.state = "exited"
  /\ xray' = Started
  /\ UNCHANGED <<lock, pc, seen, command, stores, traffic, history>>

-----------------------------------------------------------------------------
SyncStep(s) ==
  \/ ReadConfig(s) \/ ReadRows(s) \/ QueryStats(s) \/ QueryFails(s)
  \/ LoadTraffic(s) \/ SaveTraffic(s)

CommandStep ==
  \/ StopXray \/ XrayStopped \/ StartXray \/ StartFails \/ CommitCommand \/ CommitFails

Next ==
  \/ \E s \in Syncs : StartSync(s) \/ AcquireTraffic(s) \/ SyncStep(s) \/ SyncDies(s)
  \/ BeginCommand \/ CommandStep \/ StopTimeout \/ CommandDies
  \/ \E c \in Clients, x \in Conns : Carry(c, x)
  \/ KillXray \/ XrayExits \/ XrayStarts

Spec == Init /\ [][Next]_vars

\* Every step of a command, and of the sync that holds the lock, ends (the calls have
\* timeouts), and the kernel gives a free lock to a waiter that keeps asking: the
\* timer starts one sync a minute, so the lock is free most of the time.  No
\* fairness for timeouts and failures: they need not happen.  Only LoadTraffic goes from
\* "load" to "save", so that much of it states its fairness: TLC need not compute what
\* the sync loads to know that it can.
FairSpec ==
  /\ Spec
  /\ WF_vars(\E s \in Syncs :
       ReadConfig(s) \/ ReadRows(s) \/ QueryStats(s) \/ QueryFails(s) \/ SaveTraffic(s))
  /\ WF_pc(\E s \in Syncs : pc[s] = "load" /\ Goto(s, "save"))
  /\ \A s \in Syncs : SF_vars(AcquireTraffic(s))
  /\ WF_vars(CommandStep) /\ WF_vars(KillXray)

-----------------------------------------------------------------------------
(***************************************************************************)
(* Properties.                                                             *)
(***************************************************************************)
SyncSteps == {"idle", "waiting", "config", "rows", "query", "load", "save"}
UnitStates == {"up", "stopping", "down", "exited"}

\* Type invariant.
TypeOK ==
  /\ lock \in Syncs \union {NoSync}
  /\ pc \in [Syncs -> SyncSteps]
  /\ command.step \in {"idle", "written", "stopping", "stopped", "save"}
  /\ config \in Configs
  /\ db \in Stores
  /\ agg \in [Clients -> Rows]
  /\ cred \in [Clients -> [Conns -> Rows]]
  /\ xray \in [state : UnitStates, served : [Clients -> SUBSET Conns],
               counter : [Clients -> [Conns -> 0..MaxBytes]], run : Nat]
  /\ carried \in [Clients -> Nat]
  /\ reborn \subseteq Clients
  /\ moved \subseteq Clients
  /\ undone \subseteq Clients

\* No byte is counted twice: whatever restarts, kills, failures and edits a sync runs
\* into, totals and history stay below what Xray carried for the name since the
\* last client of that name was removed.  And a new client never inherits the
\* traffic of the removed one through a slow sync: removing and adding restart Xray
\* twice, and each stop waits in its ExecStop for the sync that holds traffic.lock,
\* unless something has died on the way.  A client that move-connection gave another
\* credential is left to MovesCountOnce.
NeverOvercounts ==
  /\ mishaps = 0 => reborn = {}
  /\ \A c \in Clients \ (reborn \union moved) :
       agg[c].total <= carried[c] /\ agg[c].hist <= carried[c]

\* Nor is a byte counted twice when one credential takes over from another, although
\* the taking over starts from the client's last value, which is the sum of those of
\* all its credentials: as long as nothing dies and no command that changed the
\* client's credentials has failed.  (After that it may be: with the only row deleted
\* and two credentials summed in last, the counter of one looks restarted.)
MovesCountOnce ==
  mishaps = 0 => \A c \in Clients \ undone :
                   agg[c].total <= carried[c] /\ agg[c].hist <= carried[c]

\* The hourly history, which limits and reports by period are computed from, adds
\* up to the total of the same row, for clients and for credentials; and reports by
\* connection never add up to more than the client's own total, although credentials
\* come and go and one may take over the client's totals.
TotalsAddUp ==
  \A c \in Clients :
    /\ agg[c].hist = agg[c].total
    /\ \A x \in Conns : cred[c][x].hist = cred[c][x].total
    /\ SumFunctionOnSet([x \in Conns |-> cred[c][x].total], Conns) <= agg[c].total

\* A restart always gets past the stop of Xray: ExecStop waits for traffic.lock but
\* never for the manager.lock that the restarting command holds.  And every sync the
\* timer started ends, whether Xray answers it or not.
EveryWaitEnds ==
  /\ command.step = "stopping" ~> command.step # "stopping"
  /\ \A s \in Timers : pc[s] = "waiting" ~> pc[s] = "idle"

\* clients.md: the totals survive a restart of Xray.  The first sync after one
\* counts the new counter from zero.
RestartCountsFromZero ==
  [][\A c \in Clients, x \in Conns :
       /\ cred[c][x] # NoRow /\ cred'[c][x] # NoRow
       /\ readIn'[c][x] > readIn[c][x]
       => cred'[c][x].total = cred[c][x].total + cred'[c][x].last]_vars
=============================================================================
