------------------------------- MODULE Server -------------------------------
(***************************************************************************)
(* How a command of the manager changes the server: the file config.json,  *)
(* the Xray that runs on it, manager.lock, and the steps every command is  *)
(* made of.  A command takes the lock and loads, computes a new config in  *)
(* memory, writes it whole, tests it and restarts Xray; when that fails it *)
(* puts the previous config back and restarts once more.  A probe writes a *)
(* config with a temporary inbound, restarts, measures, and puts back the  *)
(* text it read.  A config is written beside the file and renamed; but it  *)
(* is put back in place, and that may be cut.  Some commands take no lock. *)
(* Between any two steps another process may run, and any command may be   *)
(* killed.                                                                 *)
(*                                                                         *)
(* xray/config.py, core/locks.py, core/systemd.py and the apply_config of   *)
(* commands/set_cascade.py, warp.py, set_bypass.py and                     *)
(* menu_activity_actions.py, and activity/blocklist.py.                    *)
(***************************************************************************)
EXTENDS Naturals, Sequences, FiniteSets, SequencesExt

CONSTANTS
  Procs,      \* processes of the manager that may run at once
  NoProc,     \* nobody holds manager.lock
  Kits,       \* bounds: the commands a behaviour keeps to, by whom, how many, and how
              \* many failures and kills
  Down,       \* Xray does not run
  Nothing     \* no value: no config loaded, no tag

ASSUME ServerAssumption ==
  /\ NoProc \notin Procs
  /\ \A k \in Kits : k.procs \subseteq Procs /\ k.most \in Nat /\ k.mishaps \in Nat

VARIABLES
  kit,      \* the bounds of this behaviour
  did,      \* commands begun so far
  mishaps,  \* failures and kills so far
  lock,     \* manager.lock: who holds it
  config,   \* config.json
  xray,     \* the config the running Xray was started with, or Down
  job,      \* what each process is doing
  torn,     \* history: a kill, or a failure while putting back
  crossed   \* history: a command loaded, or wrote unread, while another, one of them
            \* without the lock, was between its load and its end

serverVars == <<kit, did, mishaps, lock, config, xray, job, torn, crossed>>
files == <<config, xray>>
fate == <<torn, crossed>>

\* What a process has in hand: the command, what it was asked, whether it takes the
\* lock, the steps left, the steps a failed start leads to, whether it has loaded, the
\* config to put back and the one to write, what it will store, and files it set aside.
Idle == [op |-> "none", arg |-> Nothing, locked |-> FALSE, plan |-> <<>>, back |-> <<>>,
         in |-> FALSE, was |-> Nothing, new |-> Nothing, rows |-> Nothing, env |-> Nothing,
         kept |-> Nothing]

\* What a write in place leaves when it is cut: an empty or half file.  Xray refuses it, and
\* so does every command that loads it; nothing is in it.
Half == [outbounds |-> <<>>, rules |-> <<>>, strategy |-> Nothing, inbounds |-> <<>>]
Readable == config # Half

ServerInit(fresh) ==
  /\ kit \in Kits
  /\ did = 0 /\ mishaps = 0
  /\ lock = NoProc
  /\ config = fresh /\ xray = fresh
  /\ job = [p \in Procs |-> Idle]
  /\ torn = FALSE /\ crossed = FALSE

Busy(p) == job[p].op # "none"
At(p, step) == job[p].plan # <<>> /\ Head(job[p].plan) = step
CanFail == mishaps < kit.mishaps
Fails == CanFail /\ mishaps' = mishaps + 1
Goes == UNCHANGED mishaps

\* A start of Xray fails; on a file nobody can read it must.
StartFails == IF Readable THEN Fails ELSE Goes

\* The process goes on with j; when no step is left, it ends and releases the lock.
Then(p, j) ==
  IF j.plan = <<>>
  THEN /\ job' = [job EXCEPT ![p] = Idle]
       /\ lock' = IF lock = p THEN NoProc ELSE lock
  ELSE /\ job' = [job EXCEPT ![p] = j]
       /\ lock' = IF j.locked /\ lock = NoProc THEN p ELSE lock

Next1(j) == [j EXCEPT !.plan = Tail(@)]
Follow(p) == Then(p, Next1(job[p]))

\* A command of the kit is started: what it asks and parses before the lock.
Begin(p, j) ==
  /\ ~Busy(p) /\ p \in kit.procs /\ did < kit.most /\ j.op \in kit.ops
  /\ did' = did + 1
  /\ job' = [job EXCEPT ![p] = j]
  /\ UNCHANGED <<kit, mishaps, lock>> /\ UNCHANGED files /\ UNCHANGED fate

\* Mutant of MayEnter: the menus forget the lock.
MayEnterFromMenu(p) == job[p].locked /\ job[p].op # "menu reality" => lock \in {NoProc, p}

\* manager_lock: the lock is free, or this process already holds it.
MayEnter(p) == job[p].locked => lock \in {NoProc, p}

\* The lock is busy for 60 seconds: the command ends without a change.
Refused(p) ==
  /\ Busy(p) /\ ~MayEnter(p)
  /\ job' = [job EXCEPT ![p] = Idle]
  /\ UNCHANGED <<kit, did, mishaps, lock>> /\ UNCHANGED files /\ UNCHANGED fate

\* Every load, the probes' included, and the writes of what has loaded nothing.
Enters(p) ==
  crossed' = (crossed \/ \E q \in Procs \ {p} : job[q].in /\ ~(job[q].locked /\ job[p].locked))

-----------------------------------------------------------------------------
(***************************************************************************)
(* apply_config.                                                           *)
(***************************************************************************)
\* save_config: the set-cascade and set-bypass commands put back what they loaded, the
\* others the copy of the file made here.
Backup(p) == IF job[p].was = Nothing THEN config ELSE job[p].was

Save(p) ==
  /\ At(p, "save")
  /\ config' = job[p].new
  /\ Then(p, [Next1(job[p]) EXCEPT !.was = Backup(p)])
  /\ UNCHANGED <<kit, did, mishaps, xray>> /\ UNCHANGED fate

\* xray run -test and a verified restart. A config that fails the test leaves Xray
\* running; one that fails to start leaves none.
Try(p) ==
  /\ At(p, "try")
  /\ \/ Readable /\ xray' = config /\ Follow(p) /\ Goes
     \/ /\ xray' \in {xray, Down} /\ StartFails
        /\ Then(p, [job[p] EXCEPT !.plan = job[p].back])
  /\ UNCHANGED <<kit, did, config>> /\ UNCHANGED fate

\* Over the file itself: CutBack is the other outcome.
Undo(p) ==
  /\ At(p, "undo")
  /\ config' = job[p].was
  /\ Follow(p)
  /\ UNCHANGED <<kit, did, mishaps, xray>> /\ UNCHANGED fate

\* Mutant of Redo: nothing is restarted.
RedoSkipped(p) == At(p, "redo") /\ Follow(p) /\ UNCHANGED <<kit, did, mishaps>> /\ UNCHANGED files /\ UNCHANGED fate

\* The restart on the config put back.
Redo(p) ==
  /\ At(p, "redo")
  /\ \/ Readable /\ xray' = config /\ Follow(p) /\ Goes /\ torn' = torn
     \/ /\ xray' = Down /\ StartFails /\ torn' = TRUE
        /\ Then(p, [job[p] EXCEPT !.plan = <<>>])
  /\ UNCHANGED <<kit, did, config, crossed>>

\* The process ends there, the lock with it.
Dies(p) ==
  /\ Busy(p) /\ Fails
  /\ job' = [job EXCEPT ![p] = Idle]
  /\ lock' = IF lock = p THEN NoProc ELSE lock
  /\ torn' = TRUE
  /\ UNCHANGED <<kit, did, xray, crossed>>

Kill(p) == Dies(p) /\ UNCHANGED config

\* write_text and copy2 over config.json: a kill between the truncation and the last byte,
\* or a disk that is full.  Nothing is restarted after it.  (A failure of a restore has a
\* way back of its own, PlaceFails.)
CutBack(p) ==
  /\ At(p, "undo") \/ At(p, "unprobe") \/ At(p, "place config")
  /\ Dies(p) /\ config' = Half

Step(p) == Save(p) \/ Try(p) \/ Undo(p) \/ Redo(p) \/ Refused(p)

-----------------------------------------------------------------------------
(***************************************************************************)
(* Properties.                                                             *)
(***************************************************************************)
AllIdle == \A p \in Procs : ~Busy(p)

\* A command that takes manager.lock has it from its load to its end.
LockHeld == \A p \in Procs : job[p].in /\ job[p].locked => lock = p

\* The part of ServicesFollow that is Xray's.
XrayFollows == AllIdle /\ ~torn => xray = config
=============================================================================
