---------------------------- MODULE ClientApply ----------------------------
(***************************************************************************)
(* The transaction every client command runs: take manager.lock, load      *)
(* config.json and manager.db, compute a candidate, replace config.json,   *)
(* test and restart Xray, save manager.db; on a failure copy the backup    *)
(* over config.json and restart Xray again.  Two files and a live process  *)
(* are changed one after another with no common commit, by several         *)
(* processes (a terminal, the menu, the minute timers), any of which may   *)
(* be killed between two steps.                                            *)
(*                                                                         *)
(* commands/client.py, xray/apply.py (save_config), core/locks.py,         *)
(* core/systemd.py and the writer of clients/repository.py.                *)
(***************************************************************************)
EXTENDS ClientOps

CONSTANTS
  Procs,     \* processes that run client commands: terminals, menus, timers
  NoProc     \* manager.lock is free

ASSUME ProcsAssumption == NoProc \notin Procs

VARIABLES
  lock,      \* the holder of manager.lock
  pc,        \* the step each process is at
  req,       \* the command each process runs
  job,       \* what it loaded, and the candidate it computed
  config,    \* config.json
  intact,    \* config.json is a whole file
  db,        \* the client rows of manager.db
  xray,      \* the running Xray: up, and what it loaded
  suspect,   \* history: clients whose scenario was cut after it wrote config.json
  unloaded   \* history: clients whose change of the running Xray is unknown

vars == <<lock, pc, req, job, config, intact, db, xray, suspect, unloaded>>
files == <<config, intact, db>>

NoRequest == [op |-> "none"]
NoJob     == [kind |-> "none"]

(***************************************************************************)
(* idle, waiting for the lock, load (holding it, nothing read yet), write  *)
(* (candidate computed), restart (config.json replaced, Xray not yet       *)
(* restarted), switch (route: balancer not yet switched), save (manager.db *)
(* next), copy (the backup is being copied over config.json), again        *)
(* (copied, Xray to be restarted on it).                                   *)
(***************************************************************************)
Steps == {"idle", "waiting", "load", "write", "restart", "switch", "save",
          "copy", "again"}

Holding == Steps \ {"idle", "waiting"}

\* A live Xray process or none; the contents of a stopped one mean nothing.
Down == [up |-> FALSE]
Running(c) == [up |-> TRUE, served |-> c.served, route |-> c.route]

Init ==
  /\ lock = NoProc
  /\ pc = [p \in Procs |-> "idle"]
  /\ req = [p \in Procs |-> NoRequest]
  /\ job = [p \in Procs |-> NoJob]
  /\ config = [served |-> [c \in Clients |-> {}], route |-> [c \in Clients |-> NoRoute]]
  /\ db = [known |-> [c \in Clients |-> {}], on |-> [c \in Clients |-> {}],
           route |-> [c \in Clients |-> NoRoute]]
  /\ intact = TRUE
  /\ xray = Running(config)
  /\ suspect = {}
  /\ unloaded = {}

\* The process ends: its `with manager_lock` block is left, or its file
\* descriptors are closed and the flock with them.
End(p) ==
  /\ pc' = [pc EXCEPT ![p] = "idle"]
  /\ req' = [req EXCEPT ![p] = NoRequest]
  /\ job' = [job EXCEPT ![p] = NoJob]
  /\ lock' = IF lock = p THEN NoProc ELSE lock

Goto(p, step) == pc' = [pc EXCEPT ![p] = step]

JobChanges(p) == Changed(job[p].oldCfg, job[p].oldDb, job[p].cfg, job[p].db)

-----------------------------------------------------------------------------
(***************************************************************************)
(* Before the lock.                                                        *)
(***************************************************************************)
\* A command reads nothing before it holds the lock, so which one it is is left
\* open until Acquire.
Submit(p) ==
  /\ pc[p] = "idle"
  /\ Goto(p, "waiting")
  /\ UNCHANGED <<lock, req, job, files, xray, suspect, unloaded>>

\* add without ACCESS_DAYS: the term is asked (or not) from a read of both
\* stores that holds no lock; the operator may take any time to answer.
AskTerm(p) ==
  /\ pc[p] = "idle"
  /\ intact
  /\ \E c \in Clients, x \in Conns :
       /\ AddViews(ViewOf(config, db, c), x) # {}
       /\ req' = [req EXCEPT ![p] =
            Command("add", c, {x}, DefaultRoute, SeenNow(config, db, c))]
  /\ Goto(p, "waiting")
  /\ UNCHANGED <<lock, job, files, xray, suspect, unloaded>>

\* Mutant of Acquire: the flock is shared.
AcquireShared(p) ==
  /\ pc[p] = "waiting"
  /\ lock' = p
  /\ Goto(p, "load")
  /\ IF req[p] = NoRequest
       THEN \E r \in Commands : req' = [req EXCEPT ![p] = r]
       ELSE UNCHANGED req
  /\ UNCHANGED <<job, files, xray, suspect, unloaded>>

Acquire(p) ==
  /\ pc[p] = "waiting"
  /\ lock = NoProc
  /\ lock' = p
  /\ Goto(p, "load")
  /\ IF req[p] = NoRequest
       THEN \E r \in Commands : req' = [req EXCEPT ![p] = r]
       ELSE UNCHANGED req
  /\ UNCHANGED <<job, files, xray, suspect, unloaded>>

\* Mutant of LockTimeout: the command goes on without the lock.
LockTimeoutIgnored(p) ==
  /\ pc[p] = "waiting"
  /\ lock # NoProc
  /\ req[p] # NoRequest
  /\ Goto(p, "load")
  /\ UNCHANGED <<lock, req, job, files, xray, suspect, unloaded>>

\* LockTimeout: a command fails, a timer step skips this minute.
LockTimeout(p) ==
  /\ pc[p] = "waiting"
  /\ lock # NoProc
  /\ End(p)
  /\ UNCHANGED <<files, xray, suspect, unloaded>>

-----------------------------------------------------------------------------
(***************************************************************************)
(* Under the lock.                                                         *)
(***************************************************************************)

\* The question an add asked is still the right one.
AnswerHolds(r) == r.saw = "unasked" \/ r.saw = SeenNow(config, db, r.client)

Refusal(p) ==
  \/ ~ intact
  \/ ~ AnswerHolds(req[p])
  \/ Candidates(req[p], config, db) = {}

Refuse(p) ==
  /\ pc[p] = "load"
  /\ Refusal(p)
  /\ End(p)
  /\ UNCHANGED <<files, xray, suspect, unloaded>>

Load(p) ==
  /\ pc[p] = "load"
  /\ ~ Refusal(p)
  /\ \E k \in Candidates(req[p], config, db) :
       /\ job' = [job EXCEPT ![p] =
            [kind |-> k.kind, oldCfg |-> config, oldDb |-> db, cfg |-> k.cfg, db |-> k.db]]
       /\ Goto(p, IF k.kind = "db" THEN "save" ELSE "write")
  /\ UNCHANGED <<lock, req, files, xray, suspect, unloaded>>

\* save_config: backup, temporary file, rename.
WriteConfig(p) ==
  /\ pc[p] = "write"
  /\ config' = job[p].cfg
  /\ Goto(p, IF job[p].kind = "route" THEN "switch" ELSE "restart")
  /\ UNCHANGED <<lock, req, job, intact, db, xray, suspect, unloaded>>

WriteConfigFails(p) ==
  /\ pc[p] = "write"
  /\ End(p)
  /\ UNCHANGED <<files, xray, suspect, unloaded>>

\* xray run -test passes and the restarted unit stays up.
Restart(p) ==
  /\ pc[p] = "restart"
  /\ xray' = Running(config)
  /\ unloaded' = {}
  /\ Goto(p, "save")
  /\ UNCHANGED <<lock, req, job, files, suspect>>

\* The test fails (Xray untouched) or the restart does (Xray stopped); so does
\* a Ctrl+C in either.
RestartFails(p) ==
  /\ pc[p] = "restart"
  /\ xray' \in {xray, Down}
  /\ Goto(p, "copy")
  /\ intact' = FALSE
  /\ UNCHANGED <<lock, req, job, config, db, suspect, unloaded>>

\* xray api bo moves one balancer of the running process.
Switchable(c) == xray.up /\ xray.route[c] # NoRoute

Switch(p) ==
  /\ pc[p] = "switch"
  /\ Switchable(req[p].client)
  /\ xray' = [xray EXCEPT !.route[req[p].client] = req[p].route]
  /\ Goto(p, "save")
  /\ UNCHANGED <<lock, req, job, files, suspect, unloaded>>

\* The candidate fails its test, or the switch is refused, or the switch times
\* out and may have been done: restore_config_file, without a restart.
SwitchFails(p) ==
  /\ pc[p] = "switch"
  /\ \/ UNCHANGED xray
     \/ /\ Switchable(req[p].client)
        /\ xray' = [xray EXCEPT !.route[req[p].client] = req[p].route]
  /\ unloaded' = unloaded \union {req[p].client}
  /\ intact' = FALSE
  /\ Goto(p, "copy")
  /\ UNCHANGED <<lock, req, job, config, db, suspect>>

-----------------------------------------------------------------------------
(***************************************************************************)
(* save_db: the changed rows, each compared with the row that was loaded;  *)
(* a deletion compares the whole table.  One SQLite transaction.           *)
(***************************************************************************)
SameRow(d1, d2, c) ==
  /\ d1.known[c] = d2.known[c] /\ d1.on[c] = d2.on[c] /\ d1.route[c] = d2.route[c]

WrittenRows(p) == {c \in Clients : ~ SameRow(job[p].oldDb, job[p].db, c)}

Deletes(p) == req[p].op \in {"remove", "move"}

NoConflict(p) ==
  IF Deletes(p) THEN db = job[p].oldDb
                ELSE \A c \in WrittenRows(p) : SameRow(db, job[p].oldDb, c)

Merged(p) ==
  LET rows == WrittenRows(p)
  IN  [known |-> [c \in Clients |-> IF c \in rows THEN job[p].db.known[c] ELSE db.known[c]],
       on    |-> [c \in Clients |-> IF c \in rows THEN job[p].db.on[c] ELSE db.on[c]],
       route |-> [c \in Clients |-> IF c \in rows THEN job[p].db.route[c] ELSE db.route[c]]]

SaveDb(p) ==
  /\ pc[p] = "save"
  /\ NoConflict(p)
  /\ db' = Merged(p)
  /\ suspect' = IF req[p].op = "remove" THEN suspect \ {req[p].client} ELSE suspect
  /\ End(p)
  /\ UNCHANGED <<config, intact, xray, unloaded>>

\* Mutant of SaveDbFails: only a failed restart is rolled back.
SaveDbFailsNoRollback(p) ==
  /\ pc[p] = "save"
  /\ End(p)
  /\ UNCHANGED <<files, xray, suspect, unloaded>>

\* ConflictError, a full disk, a locked database: the transaction rolls back.
\* Only the restarting commands restore config.json; route does not.
SaveDbFails(p) ==
  /\ pc[p] = "save"
  /\ CASE job[p].kind = "apply" ->
            /\ Goto(p, "copy")
            /\ intact' = FALSE
            /\ UNCHANGED <<lock, req, job, suspect>>
       [] job[p].kind = "route" ->
            /\ End(p)
            /\ suspect' = suspect \union JobChanges(p)
            /\ UNCHANGED intact
       [] job[p].kind = "db" ->
            /\ End(p)
            /\ UNCHANGED <<intact, suspect>>
  /\ UNCHANGED <<config, db, xray, unloaded>>

\* shutil.copy2(backup, CONFIG_PATH): the file is truncated when the step is
\* entered and whole again when the copy ends.
CopyBackup(p) ==
  /\ pc[p] = "copy"
  /\ config' = job[p].oldCfg
  /\ intact' = TRUE
  /\ IF job[p].kind = "route"
       THEN End(p)
       ELSE Goto(p, "again") /\ UNCHANGED <<lock, req, job>>
  /\ UNCHANGED <<db, xray, suspect, unloaded>>

CopyBackupFails(p) ==
  /\ pc[p] = "copy"
  /\ suspect' = suspect \union JobChanges(p)
  /\ End(p)
  /\ UNCHANGED <<files, xray, unloaded>>

\* Mutant of RestartAgain: the file is restored, Xray keeps running.
RestartAgainSkipped(p) ==
  /\ pc[p] = "again"
  /\ End(p)
  /\ UNCHANGED <<files, xray, suspect, unloaded>>

\* Mutant of RestartAgain: a failed rollback is tried again, without a limit.
RestartAgainForever(p) ==
  /\ pc[p] = "again"
  /\ \/ xray' = Running(config) /\ unloaded' = {} /\ End(p) /\ UNCHANGED intact
     \/ /\ xray' = Down
        /\ Goto(p, "copy")
        /\ intact' = FALSE
        /\ UNCHANGED <<lock, req, job, unloaded>>
  /\ UNCHANGED <<config, db, suspect>>

RestartAgain(p) ==
  /\ pc[p] = "again"
  /\ \/ xray' = Running(config) /\ unloaded' = {}
     \/ xray' = Down /\ UNCHANGED unloaded
  /\ End(p)
  /\ UNCHANGED <<files, suspect>>

-----------------------------------------------------------------------------
(***************************************************************************)
(* The environment.                                                        *)
(***************************************************************************)

\* kill -9, or a Ctrl+C that no handler turns into a rollback: during save_db,
\* during the rollback itself, or between the rename and the try.
Crash(p) ==
  /\ pc[p] # "idle"
  /\ suspect' = IF pc[p] \in {"restart", "switch", "copy"} \/ (pc[p] = "save" /\ job[p].kind # "db")
                  THEN suspect \union JobChanges(p) ELSE suspect
  /\ unloaded' = IF pc[p] \in {"restart", "switch", "copy", "again"}
                   THEN unloaded \union JobChanges(p) ELSE unloaded
  /\ End(p)
  /\ UNCHANGED <<files, xray>>

XrayExits ==
  /\ xray.up
  /\ xray' = Down
  /\ UNCHANGED <<lock, pc, req, job, files, suspect, unloaded>>

\* systemd starts the unit again, on whatever config.json holds at that moment.
XrayStarts ==
  /\ ~ xray.up
  /\ intact
  /\ xray' = Running(config)
  /\ unloaded' = {}
  /\ UNCHANGED <<lock, pc, req, job, files, suspect>>

-----------------------------------------------------------------------------
\* The steps of a process that is left alone.
Progress(p) ==
  \/ Acquire(p) \/ LockTimeout(p) \/ Refuse(p) \/ Load(p)
  \/ WriteConfig(p) \/ WriteConfigFails(p) \/ Restart(p) \/ RestartFails(p)
  \/ Switch(p) \/ SwitchFails(p) \/ SaveDb(p) \/ SaveDbFails(p)
  \/ CopyBackup(p) \/ CopyBackupFails(p) \/ RestartAgain(p)

Next ==
  \/ \E p \in Procs : Submit(p) \/ AskTerm(p) \/ Progress(p) \/ Crash(p)
  \/ XrayExits
  \/ XrayStarts

Spec == Init /\ [][Next]_vars

\* Every step of a command ends: each systemctl, lock and database call has a
\* timeout, and xray run -test is a finite check of one file.
FairSpec == Spec /\ \A p \in Procs : WF_vars(Progress(p))

-----------------------------------------------------------------------------
(***************************************************************************)
(* Properties.                                                             *)
(***************************************************************************)
Jobs == [kind : {"apply", "db", "route"}, oldCfg : Configs, oldDb : Stores,
         cfg : Configs, db : Stores]

XrayStates == {Down} \union [up : {TRUE}, served : [Clients -> SUBSET Conns],
                             route : [Clients -> RouteOrNone]]

\* Type invariant; it includes the shape of the rows of manager.db (Stores), which
\* holds even for a client whose scenario was torn.
TypeOK ==
  /\ lock \in Procs \union {NoProc}
  /\ pc \in [Procs -> Steps]
  /\ req \in [Procs -> Requests \union {NoRequest}]
  /\ job \in [Procs -> Jobs \union {NoJob}]
  /\ config \in Configs
  /\ intact \in BOOLEAN
  /\ db \in Stores
  /\ xray \in XrayStates
  /\ suspect \in SUBSET Clients
  /\ unloaded \in SUBSET Clients

\* Whenever no command runs, config.json and manager.db agree on every client
\* that no torn command meant to change: save_config_restart_xray_and_db rolls
\* config.json back on every failure it can see.
StoresAgree ==
  lock = NoProc => \A c \in Clients \ suspect : AgreeIn(config, db, c)

\* A term that add asked for is still asked of the right client.
Asked(p) ==
  req[p].saw # "unasked" => req[p].saw = SeenNow(job[p].oldCfg, job[p].oldDb, req[p].client)

\* A command computes, writes and commits against the stores it loaded: while it
\* is at work manager.db is still the copy it took and config.json is its own, so
\* neither ConflictError nor a lost update can happen between client commands; and
\* a term that was asked for before the lock is applied only to a client that is in
\* them as it was when the question was put.
SnapshotFresh ==
  \A p \in Procs :
    /\ pc[p] \in Holding \ {"load"} => Asked(p)
    /\ pc[p] \in Holding \ {"load"} => db = job[p].oldDb
    /\ pc[p] \in {"write", "again"} => config = job[p].oldCfg
    /\ pc[p] \in {"restart", "switch", "save", "copy"} =>
         config = job[p].cfg

\* The running Xray serves what config.json says whenever no command runs, but
\* for a switch of unknown outcome or a command killed before its restart; and
\* config.json is left half-written only by a command cut in its own rollback
\* (copy2 is not atomic; the forward write is a rename).
XrayFollowsConfig ==
  lock = NoProc =>
    /\ suspect = {} => intact
    /\ xray.up /\ intact =>
         \A c \in Clients \ unloaded :
           xray.served[c] = config.served[c] /\ xray.route[c] = config.route[c]

\* manager.db never enables or disables ahead of config.json: when a commit
\* changes the enabled credentials of a client, config.json already serves them.
CommitFollowsConfig ==
  [][\A c \in Clients \ suspect :
       db'.on[c] # db.on[c] => config.served[c] = db'.on[c]]_vars

\* Every command that was submitted ends: it commits, refuses, rolls back or times
\* out, whatever the other processes do and wherever they are killed.
EveryCommandEnds == \A p \in Procs : pc[p] = "waiting" ~> pc[p] = "idle"

\* config.json as it counts: a candidate becomes the configuration when its
\* command commits, or is cut.
Settled ==
  LET open == {p \in Procs : \/ pc[p] \in {"restart", "switch", "copy"}
                             \/ pc[p] = "save" /\ job[p].kind # "db"}
  IN  IF open = {} THEN config ELSE job[CHOOSE p \in open : TRUE].oldCfg

\* The whole transaction implements ClientRegistry: commands take effect one at
\* a time on both stores at once, or not at all, or are torn.
Registry == INSTANCE ClientRegistry WITH cfg <- Settled
CommandsAreAtomic == Registry!Served
=============================================================================
