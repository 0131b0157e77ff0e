------------------------------- MODULE Upkeep --------------------------------
(***************************************************************************)
(* What replaces whole pieces of the server: backup and restore of its     *)
(* state, updates of Xray and its geo files, and updates of the manager    *)
(* itself.  Each goes piece by piece, keeps a copy first, and puts the     *)
(* copy back when a step fails; each may be killed half-way.               *)
(*                                                                         *)
(* commands/backup.py, commands/update.py, commands/manager_update.py,     *)
(* core/fs.py and core/systemd.py.                                         *)
(***************************************************************************)
EXTENDS Connections

VARIABLES
  units,    \* the writer units: activity and Telegram timers and services
  saved,    \* the server backup made last
  parts,    \* versions of the Xray binary and of the geo files
  olds,     \* the newest directory of previous Xray versions
  manager,  \* versions of the manager's source, wrappers, package and units
  aside,    \* xray_vps_manager.old, the previous package between two renames
  copy,     \* the newest manager backup
  meant     \* history: what the last update, rollback or none of them was to leave

upkeepVars == <<units, saved, parts, olds, manager, aside, copy, meant>>

Whole0 == [bin |-> 1, geo |-> 1]
Manager(v) == [source |-> v, wrappers |-> v, package |-> v, synced |-> v]

UpkeepInit ==
  /\ units = "on" /\ saved = Nothing
  /\ parts = Whole0 /\ olds = Nothing
  /\ manager = Manager(1) /\ aside = Nothing /\ copy = Nothing
  /\ meant = [parts |-> Whole0, manager |-> Manager(1)]

-----------------------------------------------------------------------------
(***************************************************************************)
(* Steps, copies and ways back.                                            *)
(***************************************************************************)
\* A failed step leads to the steps that put the copy back; a failure among those leaves
\* the rest undone, but the units are started again.
FallsBack(p) ==
  /\ torn' = (torn \/ job[p].back = <<>>)
  /\ Then(p, [job[p] EXCEPT !.back = <<>>, !.plan =
                IF job[p].back # <<>> THEN job[p].back
                ELSE IF "resume" \in ToSet(@) THEN <<"resume">> ELSE <<>>])
Fallback(p) == Fails /\ FallsBack(p)
Goes1(p) == Follow(p) /\ Goes /\ torn' = torn
PutsBack(j) == j.back = <<>>

-----------------------------------------------------------------------------
(***************************************************************************)
(* Backup and restore of the server.                                       *)
(***************************************************************************)
\* What an archive holds.
Snapshot == [config |-> config, env |-> env, sites |-> sites, db |->
              [records |-> records, choice |-> choice, routes |-> routes, blocks |-> blocks]]

Placing == <<"place config", "place env", "place db", "place sites", "serve sites", "start", "resume">>

\* create_backup takes no lock and reads file after file.
Backups(p) ==
  \/ Begin(p, Unlocked("backup", Nothing, <<"read files", "read db">>))
  \/ /\ saved # Nothing
     /\ Begin(p, [Command("restore", saved, <<"halt", "copy server">> \o Placing) EXCEPT !.back = Placing])

ReadFiles(p) ==
  /\ At(p, "read files")
  /\ Then(p, [Next1(job[p]) EXCEPT !.in = TRUE, !.kept = Snapshot])
  /\ Enters(p)
  /\ UNCHANGED <<kit, did, mishaps, torn>> /\ UNCHANGED files /\ UNCHANGED <<routingVars, connectionVars, upkeepVars>>

ReadDb(p) ==
  /\ At(p, "read db")
  /\ saved' = [job[p].kept EXCEPT !.db = Snapshot.db]
  /\ Follow(p)
  /\ UNCHANGED <<kit, did, mishaps, units, parts, olds, manager, aside, copy, meant>> /\ UNCHANGED files
  /\ UNCHANGED fate /\ UNCHANGED <<routingVars, connectionVars>>

\* Nothing is replaced yet: the units and Xray are only started again.
BackOut(p) ==
  Then(p, [job[p] EXCEPT !.plan = <<"start", "resume">>, !.back = <<>>, !.in = TRUE, !.kept = Snapshot])

\* Under the lock the writer units are stopped, a reconcile the timer had started with
\* them, and then Xray.
Halt(p) ==
  /\ At(p, "halt") /\ MayEnter(p)
  /\ IF job[Timer].op = "reconcile"
     THEN job' = [job EXCEPT ![Timer] = Idle] /\ torn' = TRUE /\ UNCHANGED <<mishaps, lock, xray>>
     ELSE /\ \/ Then(p, [Next1(job[p]) EXCEPT !.in = TRUE]) /\ Goes
             \/ BackOut(p) /\ Fails
          /\ xray' = Down /\ torn' = torn
  /\ units' = "off"
  /\ Enters(p)
  /\ UNCHANGED <<kit, did, config, saved, parts, olds, manager, aside, copy, meant>>
  /\ UNCHANGED <<routingVars, connectionVars>>

CopyServer(p) ==
  /\ At(p, "copy server")
  /\ \/ Then(p, [Next1(job[p]) EXCEPT !.kept = Snapshot]) /\ Goes
     \/ BackOut(p) /\ Fails
  /\ UNCHANGED <<kit, did>> /\ UNCHANGED files /\ UNCHANGED fate
  /\ UNCHANGED <<routingVars, connectionVars, upkeepVars>>

\* Mutant of Source: the rollback places the chosen archive once more.
SourceChosen(j) == IF PutsBack(j) /\ j.op # "restore" THEN j.kept ELSE j.arg

\* The archive that is being put in place: the chosen one, or the copy made before.
Source(j) == IF PutsBack(j) THEN j.kept ELSE j.arg

Place(p) ==
  /\ \/ /\ At(p, "place config") /\ config' = Source(job[p]).config
        /\ UNCHANGED <<xray, routingVars, connectionVars>>
     \/ /\ At(p, "place env") /\ env' = Source(job[p]).env
        /\ UNCHANGED <<files, choice, routes, blocks, connectionVars>>
     \/ /\ At(p, "place db") /\ LET db == Source(job[p]).db
                                IN /\ records' = db.records /\ choice' = db.choice
                                   /\ routes' = db.routes /\ blocks' = db.blocks
        /\ UNCHANGED <<files, env, sites, caddy, archive>>
     \/ /\ At(p, "place sites") /\ sites' = Source(job[p]).sites
        /\ UNCHANGED <<files, routingVars, records, caddy, archive>>
     \/ /\ At(p, "serve sites") /\ caddy' = sites
        /\ UNCHANGED <<files, routingVars, records, sites, archive>>
  /\ Goes1(p)
  /\ UNCHANGED <<kit, did, crossed, upkeepVars>>

\* Any of it may fail, and the copy over config.json half-way; the other files and tables are
\* one step here.
PlaceFails(p) ==
  /\ job[p].op = "restore" /\ job[p].plan # <<>>
  /\ Head(job[p].plan) \in {"place config", "place env", "place db", "place sites", "serve sites"}
  /\ Fallback(p)
  /\ config' \in IF At(p, "place config") THEN {config, Half} ELSE {config}
  /\ caddy' \in IF At(p, "serve sites") THEN {caddy, Down} ELSE {caddy}
  /\ UNCHANGED <<kit, did, crossed, xray, routingVars, records, sites, archive, upkeepVars>>

\* test_and_restart, and restart_xray of the updates and the diagnostics after it, with the
\* config.json that is there.
Restart(p) ==
  /\ At(p, "start") \/ At(p, "restart")
  /\ \/ /\ Readable /\ xray' = config /\ Goes1(p)
        /\ meant' = IF At(p, "start") THEN meant ELSE [meant EXCEPT !.parts = Source(job[p])]
     \/ xray' \in {xray, config, Down} \ {Half} /\ StartFails /\ FallsBack(p) /\ meant' = meant
  /\ UNCHANGED <<kit, did, crossed, config, routingVars, connectionVars>>
  /\ UNCHANGED <<units, saved, parts, olds, manager, aside, copy>>

\* restart_units: the units that were active.
Resume(p) ==
  /\ At(p, "resume")
  /\ \/ units' = "on" /\ Goes1(p)
     \/ units' = units /\ Follow(p) /\ Fails /\ torn' = TRUE
  /\ UNCHANGED <<kit, did, crossed, files, routingVars, connectionVars>>
  /\ UNCHANGED <<saved, parts, olds, manager, aside, copy, meant>>

-----------------------------------------------------------------------------
(***************************************************************************)
(* xray-update: the binary and the geo files, without a lock.              *)
(***************************************************************************)
Target(op) == IF op = "xray update" THEN [bin |-> 2, geo |-> 2] ELSE [meant.parts EXCEPT !.geo = 3]

UpdateXray(p) ==
  Begin(p, [Unlocked("xray update", Target("xray update"), 
                      <<"ready", "fetch", "keep", "place bin", "place geo", "restart">>)
              EXCEPT !.back = <<"place bin", "place geo", "restart">>])

UpdateAssets(p) ==
  Begin(p, [Unlocked("assets update", Target("assets update"), <<"fetch", "set aside", "place geo", "restart">>)
              EXCEPT !.back = <<"place geo", "restart">>])

RollbackXray(p) ==
  /\ olds # Nothing
  /\ Begin(p, [Unlocked("xray rollback", olds, <<"place bin", "place geo", "restart">>)
                 EXCEPT !.back = <<>>, !.kept = olds])

\* run_diagnostics before an update: Xray runs, and on a config that passes the test.
Ready(p) ==
  /\ At(p, "ready")
  /\ \/ xray # Down /\ Readable /\ Follow(p) /\ Goes
     \/ (xray = Down \/ ~Readable) /\ Then(p, [job[p] EXCEPT !.plan = <<>>]) /\ Goes
     \/ Fails /\ Then(p, [job[p] EXCEPT !.plan = <<>>])
  /\ UNCHANGED <<kit, did>> /\ UNCHANGED files /\ UNCHANGED fate
  /\ UNCHANGED <<routingVars, connectionVars, upkeepVars>>

\* The release is downloaded, verified and tried with config.json; what is installed
\* already, and what does not pass, ends the command before anything is touched.
Installed(j) == IF j.op = "xray update" THEN parts.bin = j.arg.bin ELSE parts.geo = j.arg.geo

Fetch(p) ==
  /\ At(p, "fetch")
  /\ \/ Follow(p) /\ Readable /\ ~Installed(job[p]) /\ Goes
     \/ Then(p, [job[p] EXCEPT !.plan = <<>>]) /\ (~Readable \/ Installed(job[p])) /\ Goes
     \/ Then(p, [job[p] EXCEPT !.plan = <<>>]) /\ Fails
  /\ UNCHANGED <<kit, did>> /\ UNCHANGED files /\ UNCHANGED fate
  /\ UNCHANGED <<routingVars, connectionVars, upkeepVars>>

\* backup_current keeps the parts for later rollbacks, backup_assets for this command only.
Keep(p) ==
  /\ At(p, "keep") \/ At(p, "set aside")
  /\ olds' = IF At(p, "keep") THEN parts ELSE olds
  /\ Then(p, [Next1(job[p]) EXCEPT !.in = TRUE, !.kept = parts])
  /\ Enters(p)
  /\ UNCHANGED <<kit, did, mishaps, torn>> /\ UNCHANGED files /\ UNCHANGED <<routingVars, connectionVars>>
  /\ UNCHANGED <<units, saved, parts, manager, aside, copy, meant>>

\* install_candidate, install_assets, restore_backup and restore_assets.
PlacePart(p) ==
  /\ At(p, "place bin") \/ At(p, "place geo")
  /\ \/ /\ parts' = IF At(p, "place bin") THEN [parts EXCEPT !.bin = Source(job[p]).bin]
                    ELSE [parts EXCEPT !.geo = Source(job[p]).geo]
        /\ Goes1(p)
     \/ UNCHANGED parts /\ Fallback(p)
  /\ UNCHANGED <<kit, did, crossed, files, routingVars, connectionVars>>
  /\ UNCHANGED <<units, saved, olds, manager, aside, copy, meant>>

-----------------------------------------------------------------------------
(***************************************************************************)
(* xray-manager-update: source, wrappers and package, under a lock of its  *)
(* own, then the systemd units.                                            *)
(***************************************************************************)
ManagerOps == {"manager update", "manager rollback"}
Install == <<"place source", "place wrappers", "rename old", "rename new", "sync", "validate">>

Reinstall == <<"place source", "place wrappers", "rename old", "rename new", "sync">>

UpdateManager(p) ==
  Begin(p, [Unlocked("manager update", Manager(2), <<"obtain", "begin copy", "end copy">> \o Install)
              EXCEPT !.back = Reinstall])

RollbackManager(p) ==
  /\ copy # Nothing
  /\ Begin(p, [Unlocked("manager rollback", Nothing, <<"choose">> \o Install) EXCEPT !.back = <<>>])

MayUpdate(p) == ~\E q \in Procs \ {p} : job[q].op \in ManagerOps /\ job[q].in

OnlyManager ==
  /\ UNCHANGED <<kit, did, crossed, units, saved, parts, olds>> /\ UNCHANGED files
  /\ UNCHANGED <<routingVars, connectionVars>>

\* Under its lock: the archive of the release is downloaded, unpacked and looked through.
Obtain(p) ==
  /\ At(p, "obtain") /\ MayUpdate(p)
  /\ \/ Then(p, [Next1(job[p]) EXCEPT !.in = TRUE]) /\ Goes
     \/ Then(p, [job[p] EXCEPT !.plan = <<>>]) /\ Fails
  /\ UNCHANGED <<torn, manager, aside, copy, meant>> /\ OnlyManager

\* create_backup: the package last.
CopyManager(p) ==
  /\ \/ At(p, "begin copy") /\ copy' = [manager EXCEPT !.package = Nothing] /\ Follow(p)
     \/ At(p, "end copy") /\ copy' = manager /\ Then(p, [Next1(job[p]) EXCEPT !.kept = manager])
  /\ UNCHANGED <<mishaps, torn, manager, aside, meant>> /\ OnlyManager

\* choose_backup takes the newest directory, whole or not.
ChooseBackup(p) ==
  /\ At(p, "choose") /\ MayUpdate(p)
  /\ Then(p, [Next1(job[p]) EXCEPT !.in = TRUE, !.kept = copy])
  /\ UNCHANGED <<mishaps, torn, manager, aside, copy, meant>> /\ OnlyManager

UpdateRefused(p) ==
  /\ At(p, "obtain") \/ At(p, "choose")
  /\ ~MayUpdate(p) /\ Then(p, [job[p] EXCEPT !.plan = <<>>])
  /\ UNCHANGED <<mishaps, torn, manager, aside, copy, meant>> /\ OnlyManager

PlaceManager(p) ==
  /\ At(p, "place source") \/ At(p, "place wrappers")
  /\ \/ /\ manager' = IF At(p, "place source") THEN [manager EXCEPT !.source = Source(job[p]).source]
                      ELSE [manager EXCEPT !.wrappers = Source(job[p]).wrappers]
        /\ Goes1(p)
     \/ manager' = manager /\ Fallback(p)
  /\ UNCHANGED <<aside, copy, meant>> /\ OnlyManager

\* replace_directory.  What a run before left is put back first; the new tree is built
\* beside the package, which is then moved aside.
Found == IF manager.package = Nothing THEN aside ELSE manager.package

RenameOld(p) ==
  /\ At(p, "rename old")
  /\ \/ /\ Source(job[p]).package # Nothing
        /\ aside' = Found /\ manager' = [manager EXCEPT !.package = Nothing] /\ Goes1(p)
     \/ aside' = Nothing /\ manager' = [manager EXCEPT !.package = Found] /\ Fallback(p)
     \/ /\ Source(job[p]).package = Nothing
        /\ Then(p, [job[p] EXCEPT !.plan = <<>>]) /\ torn' = TRUE /\ UNCHANGED <<aside, manager, mishaps>>
  /\ UNCHANGED <<copy, meant>> /\ OnlyManager

RenameNew(p) ==
  /\ At(p, "rename new")
  /\ \/ manager' = [manager EXCEPT !.package = Source(job[p]).package] /\ Goes1(p)
     \/ manager' = [manager EXCEPT !.package = aside] /\ Fallback(p)
  /\ aside' = Nothing
  /\ UNCHANGED <<copy, meant>> /\ OnlyManager

\* The units are those of the package; while putting back, a failure is only told.
Sync(p) ==
  /\ At(p, "sync")
  /\ \/ manager' = [manager EXCEPT !.synced = manager.package] /\ Goes1(p)
     \/ /\ manager' = manager
        /\ IF PutsBack(job[p]) THEN Follow(p) /\ Fails /\ torn' = TRUE ELSE Fallback(p)
  /\ UNCHANGED <<aside, copy, meant>> /\ OnlyManager

Validate(p) ==
  /\ At(p, "validate")
  /\ \/ meant' = [meant EXCEPT !.manager = Source(job[p])] /\ Goes1(p)
     \/ meant' = meant /\ Fallback(p)
  /\ UNCHANGED <<manager, aside, copy>> /\ OnlyManager

UpkeepProgress(p) ==
  \/ ReadFiles(p) \/ ReadDb(p) \/ Halt(p) \/ CopyServer(p) \/ Place(p) \/ PlaceFails(p) \/ Restart(p) \/ Resume(p)
  \/ Ready(p) \/ Fetch(p) \/ Keep(p) \/ PlacePart(p)
  \/ Obtain(p) \/ CopyManager(p) \/ ChooseBackup(p) \/ UpdateRefused(p) \/ PlaceManager(p) \/ RenameOld(p) \/ RenameNew(p) \/ Sync(p) \/ Validate(p)

UpkeepNext ==
  \E p \in Procs :
    \/ /\ \/ Backups(p) \/ UpdateXray(p) \/ UpdateAssets(p) \/ RollbackXray(p)
          \/ UpdateManager(p) \/ RollbackManager(p)
       /\ UNCHANGED <<routingVars, connectionVars, upkeepVars>>
    \/ UpkeepProgress(p)

-----------------------------------------------------------------------------
(***************************************************************************)
(* Properties.                                                             *)
(***************************************************************************)
\* When a restore has replaced everything, or put everything back, each file and each
\* table is from one and the same archive (a block's time may run out meanwhile).
Dated(a) == [a EXCEPT !.db.blocks = {t \in Targets : @[t] # "none"}]
RestoredWhole ==
  \A p \in Procs : At(p, "resume") /\ ~torn /\ ~crossed =>
    Dated(Snapshot) = Dated(IF PutsBack(job[p]) THEN job[p].kept ELSE job[p].arg)

\* The part of ServicesFollow that is the writer units': those a restore stopped run again,
\* however it ended.
UnitsFollow == AllIdle /\ ~torn => units = "on"

\* Xray's binary and geo files, and the manager's source, wrappers, package and units, are
\* those of the last update that succeeded; a failed one leaves no mixture.  And there is
\* a whole Python package, in place or beside it, at any moment; also after a kill.
UpdatesWhole ==
  /\ Whole => parts = meant.parts /\ manager = meant.manager
  /\ manager.package # Nothing \/ aside # Nothing
=============================================================================
