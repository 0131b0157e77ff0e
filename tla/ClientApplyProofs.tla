------------------------- MODULE ClientApplyProofs -------------------------
(***************************************************************************)
(* Theorems about ClientApply for any number of clients, connections,      *)
(* cascades and processes: type correctness, that no client command can    *)
(* meet a ConflictError or lose an update, that config.json and manager.db *)
(* agree whenever no command runs, that Xray runs with config.json then,   *)
(* and that the transaction implements ClientRegistry.                     *)
(***************************************************************************)
EXTENDS ClientApply, ClientOpsProofs, FiniteSetTheorems

-----------------------------------------------------------------------------
(***************************************************************************)
(* The inductive invariant.  StoresAgree alone is not inductive: it says   *)
(* nothing while a command works.  The holder of the lock is the only      *)
(* process past "waiting"; the stores it loaded agreed, the candidate it   *)
(* carries agrees, and what is on disk is a known mixture of the two.      *)
(***************************************************************************)

\* flock: one holder, and it is the process inside the `with` block.
LockOwner == \A p \in Procs : pc[p] \in Holding <=> lock = p

Agreed == \A c \in Clients \ suspect : AgreeIn(config, db, c)

\* The candidate fits the step and the command.
JobFits(p) ==
  /\ job[p] \in Jobs
  /\ pc[p] = "switch" => job[p].kind = "route"
  /\ pc[p] \in {"restart", "again"} => job[p].kind = "apply"
  /\ pc[p] \in {"write", "copy"} => job[p].kind # "db"
  /\ job[p].kind = "db" => job[p].cfg = job[p].oldCfg
  /\ req[p].op = "remove" => job[p].kind = "apply"

\* SnapshotFresh for one process.
Fresh(p) ==
  /\ db = job[p].oldDb
  /\ pc[p] \in {"write", "again"} => config = job[p].oldCfg
  /\ pc[p] \in {"restart", "switch", "save", "copy"} => config = job[p].cfg
  /\ Asked(p)

\* Going back and going forward both end in agreement.
BothAgree(p) ==
  /\ \A c \in Clients \ suspect : /\ AgreeIn(job[p].oldCfg, job[p].oldDb, c)
                                  /\ AgreeIn(job[p].cfg, job[p].db, c)
  /\ req[p].op = "remove" => AgreeIn(job[p].cfg, job[p].db, req[p].client)

InHand(p) ==
  /\ pc[p] \in Holding => req[p] \in Requests
  /\ pc[p] = "load" => Agreed
  /\ pc[p] \in Holding \ {"load"} => JobFits(p) /\ Fresh(p) /\ BothAgree(p)

IInv ==
  /\ TypeOK
  /\ LockOwner
  /\ \A p \in Procs : InHand(p)
  /\ lock = NoProc => Agreed


\* The parts of TypeOK that processes share.
SharedOK ==
  /\ config \in Configs
  /\ intact \in BOOLEAN
  /\ db \in Stores
  /\ xray \in XrayStates
  /\ suspect \in SUBSET Clients
  /\ unloaded \in SUBSET Clients

ProcOK ==
  /\ lock \in Procs \union {NoProc}
  /\ pc \in [Procs -> Steps]
  /\ req \in [Procs -> Requests \union {NoRequest}]
  /\ job \in [Procs -> Jobs \union {NoJob}]

LEMMA TypeParts == TypeOK <=> ProcOK /\ SharedOK
  BY DEF TypeOK, ProcOK, SharedOK

\* A process that does not hold the lock steps without touching the shared state,
\* and stays outside the lock.
Bystander(p) ==
  /\ pc[p] \in {"idle", "waiting"}
  /\ \E s \in {"idle", "waiting"} : pc' = [pc EXCEPT ![p] = s]
  /\ \E r \in Requests \union {NoRequest} : req' = [req EXCEPT ![p] = r]
  /\ \E j \in Jobs \union {NoJob} : job' = [job EXCEPT ![p] = j]
  /\ lock' = lock
  /\ UNCHANGED <<config, db, suspect>>

LEMMA BystanderKeeps ==
  ASSUME IInv, NEW p \in Procs, Bystander(p), SharedOK'
  PROVE  IInv'
<1>1. ProcOK
  BY TypeParts DEF IInv
<1>2. ProcOK'
  BY <1>1 DEF ProcOK, Bystander, Steps
<1>3. \A q \in Procs \ {p} : pc'[q] = pc[q] /\ req'[q] = req[q] /\ job'[q] = job[q]
  BY <1>1 DEF ProcOK, Bystander
<1>4. pc'[p] \in {"idle", "waiting"}
  BY <1>1 DEF ProcOK, Bystander
<1>5. LockOwner'
  BY <1>3, <1>4 DEF IInv, LockOwner, Bystander, Holding
<1>6. ASSUME NEW q \in Procs PROVE InHand(q)'
  <2>1. CASE q = p
    BY <1>4, <2>1 DEF InHand, Holding
  <2>2. CASE q # p
    BY <1>3, <2>2 DEF IInv, InHand, JobFits, Fresh, Asked, BothAgree, Agreed, Bystander
  <2> QED
    BY <2>1, <2>2
<1>7. lock' = NoProc => Agreed'
  BY DEF IInv, Agreed, Bystander
<1> QED
  BY <1>2, <1>5, <1>6, <1>7, TypeParts DEF IInv, TypeOK, ProcOK, SharedOK

\* The holder ends, leaving stores that agree.
LEMMA HolderEnds ==
  ASSUME IInv, NEW p \in Procs, pc[p] \in Holding, End(p), SharedOK', Agreed'
  PROVE  IInv'
<1>1. ProcOK /\ lock = p
  BY TypeParts DEF IInv, LockOwner
<1>2. ProcOK'
  BY <1>1 DEF ProcOK, End, Steps
<1>3. \A q \in Procs : pc'[q] \notin Holding
  BY <1>1 DEF IInv, LockOwner, End, ProcOK, Holding
<1>4. lock' = NoProc
  BY <1>1 DEF End
<1>5. LockOwner'
  BY <1>3, <1>4, ProcsAssumption DEF LockOwner
<1>6. \A q \in Procs : InHand(q)'
  BY <1>3 DEF InHand, Holding
<1> QED
  BY <1>2, <1>4, <1>5, <1>6, TypeParts DEF IInv, TypeOK, ProcOK, SharedOK

\* The holder goes on to another step of the same command.
LEMMA HolderGoesOn ==
  ASSUME IInv, NEW p \in Procs, pc[p] \in Holding,
         NEW s \in Holding \ {"load"}, Goto(p, s),
         NEW j \in Jobs, job' = [job EXCEPT ![p] = j],
         lock' = lock, req' = req,
         SharedOK', JobFits(p)', Fresh(p)', BothAgree(p)'
  PROVE  IInv'
<1>1. ProcOK /\ lock = p /\ req[p] \in Requests
  BY TypeParts DEF IInv, LockOwner, InHand
<1>2. ProcOK'
  BY <1>1 DEF ProcOK, Goto, Holding
<1>3. pc'[p] = s
  BY <1>1 DEF ProcOK, Goto
<1>4. \A q \in Procs \ {p} : pc'[q] \notin Holding
  BY <1>1 DEF IInv, LockOwner, Goto, ProcOK
<1>5. LockOwner'
  BY <1>1, <1>3, <1>4 DEF LockOwner
<1>6. \A q \in Procs : InHand(q)'
  <2>1. InHand(p)'
    BY <1>1, <1>3 DEF InHand
  <2>2. ASSUME NEW q \in Procs, q # p PROVE InHand(q)'
    BY <1>4, <2>2 DEF InHand, Holding, Steps
  <2> QED
    BY <2>1, <2>2
<1>7. lock' # NoProc
  BY <1>1, ProcsAssumption
<1> QED
  BY <1>2, <1>5, <1>6, <1>7, TypeParts DEF IInv, TypeOK, ProcOK, SharedOK


\* The same with the same job, nothing but config.json and Xray changed.
LEMMA HolderSteps ==
  ASSUME IInv, NEW p \in Procs, pc[p] \in Holding \ {"load"},
         NEW s \in Holding \ {"load"}, Goto(p, s),
         UNCHANGED <<lock, req, job, db, suspect>>, SharedOK',
         s = "switch" => job[p].kind = "route",
         s \in {"restart", "again"} => job[p].kind = "apply",
         s \in {"write", "copy"} => job[p].kind # "db",
         s \in {"write", "again"} => config' = job[p].oldCfg,
         s \in {"restart", "switch", "save", "copy"} => config' = job[p].cfg
  PROVE  IInv'
<1>1. /\ ProcOK /\ job \in [Procs -> Jobs \union {NoJob}]
      /\ JobFits(p) /\ Fresh(p) /\ BothAgree(p)
  BY TypeParts DEF IInv, InHand, ProcOK
<1>2. pc'[p] = s
  BY <1>1 DEF ProcOK, Goto
<1>3. job[p] \in Jobs /\ job' = [job EXCEPT ![p] = job[p]]
  BY <1>1 DEF JobFits
<1>4. JobFits(p)'
  BY <1>1, <1>2 DEF JobFits
<1>5. Fresh(p)'
  BY <1>1, <1>2 DEF Fresh, Asked
<1>6. BothAgree(p)'
  BY <1>1 DEF BothAgree
<1> QED
  BY <1>3, <1>4, <1>5, <1>6, HolderGoesOn

\* What the invariant says of a process at work, with its job taken apart.
LEMMA AtWork ==
  ASSUME IInv, NEW p \in Procs, pc[p] \in Holding \ {"load"}
  PROVE  /\ JobFits(p) /\ Fresh(p) /\ BothAgree(p) /\ SharedOK /\ ProcOK
         /\ req[p] \in Requests /\ lock = p
         /\ job[p].kind \in {"apply", "db", "route"}
         /\ job[p].cfg \in Configs /\ job[p].oldCfg \in Configs
         /\ job[p].db \in Stores /\ job[p].oldDb \in Stores
<1>1. JobFits(p) /\ Fresh(p) /\ BothAgree(p) /\ req[p] \in Requests
  BY DEF IInv, InHand
<1>2. lock = p
  BY DEF IInv, LockOwner
<1>3. job[p] \in Jobs
  BY <1>1 DEF JobFits
<1> QED
  BY <1>1, <1>2, <1>3, TypeParts DEF IInv, Jobs

\* Stores that are half old and half new agree on a client the job does not touch.
LEMMA TornAgree ==
  ASSUME NEW oldCfg, NEW oldDb, NEW cfg, NEW d, NEW c \in Clients,
         c \notin Changed(oldCfg, oldDb, cfg, d), AgreeIn(oldCfg, oldDb, c)
  PROVE  AgreeIn(cfg, oldDb, c)
  BY DEF Changed, AgreeIn

LEMMA ChangesAreClients == \A p \in Procs : JobChanges(p) \in SUBSET Clients
  BY DEF JobChanges, Changed

LEMMA RunningIsXray == \A cfg \in Configs : Running(cfg) \in XrayStates
  BY DEF Configs, Running, XrayStates

LEMMA CommandsAreRequests ==
  /\ Commands \subseteq Requests
  /\ \A c \in Clients, x \in Conns :
       Command("add", c, {x}, DefaultRoute, SeenNow(config, db, c)) \in Requests
<1>1. DefaultRoute \in Routes
  BY RoutesAssumption
<1>2. ASSUME NEW op \in Ops, NEW c \in Clients, NEW conns \in SUBSET Conns, NEW r \in Routes,
             NEW saw \in {"unasked", "absent", "present"}
      PROVE  Command(op, c, conns, r, saw) \in Requests
  BY DEF Command, Requests
<1>3. Commands \subseteq Requests
  BY DEF Commands
<1>4. ASSUME NEW c \in Clients, NEW x \in Conns
      PROVE  Command("add", c, {x}, DefaultRoute, SeenNow(config, db, c)) \in Requests
  <2>1. "add" \in Ops /\ {x} \in SUBSET Conns
    BY DEF Ops
  <2>2. SeenNow(config, db, c) \in {"unasked", "absent", "present"}
    BY DEF SeenNow
  <2> QED
    BY <1>1, <1>2, <2>1, <2>2
<1> QED
  BY <1>3, <1>4

-----------------------------------------------------------------------------
(***************************************************************************)
(* Every action keeps the invariant.                                       *)
(***************************************************************************)
LEMMA WaitersKeep ==
  ASSUME IInv, NEW p \in Procs, Submit(p) \/ AskTerm(p) \/ LockTimeout(p)
  PROVE  IInv'
<1>1. ProcOK /\ SharedOK /\ LockOwner /\ req[p] \in Requests \union {NoRequest}
      /\ job[p] \in Jobs \union {NoJob}
  BY TypeParts DEF IInv, ProcOK
<1>2. SharedOK'
  BY <1>1 DEF Submit, AskTerm, LockTimeout, SharedOK, files
<1>3. CASE Submit(p)
  <2>1. req' = [req EXCEPT ![p] = req[p]] /\ job' = [job EXCEPT ![p] = job[p]]
    BY <1>1, <1>3 DEF Submit, ProcOK
  <2>2. Bystander(p)
    BY <1>1, <1>3, <2>1 DEF Submit, Goto, Bystander, files
  <2> QED
    BY <1>2, <2>2, BystanderKeeps
<1>4. CASE AskTerm(p)
  <2>1. job' = [job EXCEPT ![p] = job[p]]
    BY <1>1, <1>4 DEF AskTerm, ProcOK
  <2>2. \E r \in Requests \union {NoRequest} : req' = [req EXCEPT ![p] = r]
    BY <1>4, CommandsAreRequests DEF AskTerm
  <2>3. Bystander(p)
    BY <1>1, <1>4, <2>1, <2>2 DEF AskTerm, Goto, Bystander, files
  <2> QED
    BY <1>2, <2>3, BystanderKeeps
<1>5. CASE LockTimeout(p)
  <2>1. lock # p
    BY <1>1, <1>5 DEF LockOwner, LockTimeout, Holding
  <2>2. Bystander(p)
    BY <1>5, <2>1 DEF LockTimeout, End, Bystander, files
  <2> QED
    BY <1>2, <2>2, BystanderKeeps
<1> QED
  BY <1>3, <1>4, <1>5

LEMMA AcquireKeeps ==
  ASSUME IInv, NEW p \in Procs, Acquire(p)
  PROVE  IInv'
<1>1. ProcOK /\ SharedOK /\ LockOwner /\ Agreed /\ lock = NoProc /\ lock' = p
  BY TypeParts DEF IInv, Acquire
<1>2. SharedOK' /\ Agreed'
  BY <1>1 DEF Acquire, SharedOK, files, Agreed
<1>3. PICK r \in Requests : req' = [req EXCEPT ![p] = r]
  <2>1. CASE req[p] = NoRequest
    BY <2>1, CommandsAreRequests DEF Acquire
  <2>2. CASE req[p] # NoRequest
    BY <1>1, <2>2 DEF Acquire, ProcOK
  <2> QED
    BY <2>1, <2>2
<1>4. pc' = [pc EXCEPT ![p] = "load"]
  BY DEF Acquire, Goto
<1>5. ProcOK'
  BY <1>1, <1>3, <1>4 DEF Acquire, ProcOK, Steps
<1>6. pc'[p] = "load" /\ req'[p] = r
  BY <1>1, <1>3, <1>4 DEF ProcOK
<1>7. \A q \in Procs \ {p} : pc'[q] \notin Holding
  BY <1>1, <1>4, ProcsAssumption DEF ProcOK, LockOwner
<1>8. LockOwner'
  BY <1>1, <1>6, <1>7 DEF LockOwner, Holding, Steps
<1>9. \A q \in Procs : InHand(q)'
  <2>1. InHand(p)'
    BY <1>2, <1>6 DEF InHand
  <2>2. ASSUME NEW q \in Procs, q # p PROVE InHand(q)'
    BY <1>7, <2>2 DEF InHand, Holding, Steps
  <2> QED
    BY <2>1, <2>2
<1> QED
  BY <1>1, <1>2, <1>5, <1>8, <1>9, ProcsAssumption, TypeParts DEF IInv, TypeOK, ProcOK, SharedOK

LEMMA RefuseKeeps ==
  ASSUME IInv, NEW p \in Procs, Refuse(p)
  PROVE  IInv'
<1>1. SharedOK /\ Agreed /\ pc[p] \in Holding
  BY TypeParts DEF IInv, InHand, Refuse, Holding, Steps
<1>2. SharedOK' /\ Agreed' /\ End(p)
  BY <1>1 DEF Refuse, SharedOK, Agreed, files
<1> QED
  BY <1>1, <1>2, HolderEnds

LEMMA LoadKeeps ==
  ASSUME IInv, NEW p \in Procs, Load(p)
  PROVE  IInv'
<1>1. /\ SharedOK /\ ProcOK /\ Agreed /\ pc[p] \in Holding
      /\ req[p] \in Requests /\ config \in Configs /\ db \in Stores
  BY TypeParts DEF IInv, InHand, Load, Holding, Steps, SharedOK
<1>2. PICK k \in Candidates(req[p], config, db) :
        /\ job' = [job EXCEPT ![p] =
             [kind |-> k.kind, oldCfg |-> config, oldDb |-> db, cfg |-> k.cfg, db |-> k.db]]
        /\ Goto(p, IF k.kind = "db" THEN "save" ELSE "write")
  BY DEF Load
<1> DEFINE j == [kind |-> k.kind, oldCfg |-> config, oldDb |-> db, cfg |-> k.cfg, db |-> k.db]
           s == IF k.kind = "db" THEN "save" ELSE "write"
<1>3. GoodCandidate(k, req[p], config, db)
  BY <1>1, CandidatesGood
<1>4. j \in Jobs
  BY <1>1, <1>3 DEF GoodCandidate, Jobs
<1>5. /\ s \in Holding \ {"load"} /\ lock' = lock /\ req' = req
      /\ config' = config /\ db' = db /\ suspect' = suspect
  BY DEF Load, files, Holding, Steps
<1>6. SharedOK'
  BY <1>1 DEF Load, SharedOK, files
<1>7. job'[p] = j /\ pc'[p] = s
  BY <1>1, <1>2 DEF ProcOK, Goto
<1>8. /\ j.kind = k.kind /\ j.oldCfg = config /\ j.oldDb = db
      /\ j.cfg = k.cfg /\ j.db = k.db
  OBVIOUS
<1>9. /\ k.kind \in {"apply", "db", "route"}
      /\ k.kind = "db" => k.cfg = config
      /\ \A c \in Clients : AgreeIn(config, db, c) => AgreeIn(k.cfg, k.db, c)
      /\ req[p].op = "remove" => k.kind = "apply" /\ AgreeIn(k.cfg, k.db, req[p].client)
  BY <1>3 DEF GoodCandidate
<1>10. (k.kind = "db" => s = "save") /\ (k.kind # "db" => s = "write")
  BY Zenon
<1> HIDE DEF j, s
<1>11. JobFits(p)'
  BY <1>4, <1>5, <1>7, <1>8, <1>9, <1>10 DEF JobFits
<1>12. Fresh(p)'
  <2>1. AnswerHolds(req[p])
    BY DEF Load, Refusal
  <2>2. Asked(p)'
    BY <1>5, <1>7, <1>8, <2>1 DEF Asked, AnswerHolds
  <2> QED
    BY <1>5, <1>7, <1>8, <1>9, <1>10, <2>2 DEF Fresh
<1>13. BothAgree(p)'
  BY <1>1, <1>5, <1>7, <1>8, <1>9 DEF BothAgree, Agreed
<1>14. Goto(p, s) /\ job' = [job EXCEPT ![p] = j]
  BY <1>2 DEF j, s
<1> QED
  BY <1>1, <1>4, <1>5, <1>6, <1>11, <1>12, <1>13, <1>14, HolderGoesOn


LEMMA WriteConfigKeeps ==
  ASSUME IInv, NEW p \in Procs, WriteConfig(p)
  PROVE  IInv'
<1> DEFINE s == IF job[p].kind = "route" THEN "switch" ELSE "restart"
<1>1. pc[p] \in Holding \ {"load"} /\ s \in Holding \ {"load"} /\ pc[p] = "write"
  BY DEF WriteConfig, Holding, Steps
<1>2. JobFits(p) /\ SharedOK /\ job[p].cfg \in Configs /\ job[p].kind \in {"apply", "db", "route"}
  BY <1>1, AtWork
<1>3. SharedOK'
  BY <1>2 DEF WriteConfig, SharedOK
<1>4. (s = "switch" <=> job[p].kind = "route") /\ (s = "restart" <=> job[p].kind = "apply")
      /\ s \in {"switch", "restart"}
  BY <1>1, <1>2 DEF JobFits
<1>5. /\ Goto(p, s) /\ config' = job[p].cfg
      /\ UNCHANGED <<lock, req, job, db, suspect>>
  BY DEF WriteConfig
<1> HIDE DEF s
<1> QED
  BY <1>1, <1>3, <1>4, <1>5, HolderSteps

LEMMA RestartKeeps ==
  ASSUME IInv, NEW p \in Procs, Restart(p) \/ RestartFails(p)
  PROVE  IInv'
<1>1. pc[p] \in Holding \ {"load"} /\ pc[p] = "restart"
  BY DEF Restart, RestartFails, Holding, Steps
<1>2. /\ SharedOK /\ config = job[p].cfg /\ job[p].kind = "apply"
  BY <1>1, AtWork DEF JobFits, Fresh
<1>3. PICK s \in {"save", "copy"} : Goto(p, s)
  BY DEF Restart, RestartFails
<1>4. config' = config /\ UNCHANGED <<lock, req, job, db, suspect>>
  BY DEF Restart, RestartFails, files
<1>5. SharedOK'
  <2>1. xray' \in XrayStates
    BY <1>2, RunningIsXray DEF Restart, RestartFails, SharedOK, XrayStates
  <2>2. unloaded' \in SUBSET Clients /\ intact' \in BOOLEAN
    BY <1>2 DEF Restart, RestartFails, SharedOK, files
  <2> QED
    BY <1>2, <1>4, <2>1, <2>2 DEF SharedOK
<1>6. s \in Holding \ {"load"}
  BY DEF Holding, Steps
<1> QED
  BY <1>1, <1>2, <1>3, <1>4, <1>5, <1>6, HolderSteps

\* What a live Xray is.
LEMMA LiveXray ==
  ASSUME NEW x \in XrayStates, x.up
  PROVE  x \in [up : {TRUE}, served : [Clients -> SUBSET Conns], route : [Clients -> RouteOrNone]]
<1>1. ASSUME x = Down PROVE FALSE
  <2>1. x.up = FALSE
    BY <1>1 DEF Down
  <2> QED
    BY <2>1, Zenon
<1> QED
  BY <1>1, Zenon DEF XrayStates

\* Moving one balancer of a running Xray leaves a running Xray.
LEMMA SwitchedIsXray ==
  ASSUME NEW x \in XrayStates, x.up, NEW c, NEW r \in Routes
  PROVE  [x EXCEPT !.route[c] = r] \in XrayStates
<1>1. x \in [up : {TRUE}, served : [Clients -> SUBSET Conns], route : [Clients -> RouteOrNone]]
  BY LiveXray
<1> QED
  BY <1>1 DEF XrayStates, RouteOrNone

LEMMA SwitchKeeps ==
  ASSUME IInv, NEW p \in Procs, Switch(p) \/ SwitchFails(p)
  PROVE  IInv'
<1>1. pc[p] \in Holding \ {"load"} /\ pc[p] = "switch"
  BY DEF Switch, SwitchFails, Holding, Steps
<1>2. /\ SharedOK /\ config = job[p].cfg /\ job[p].kind = "route" /\ req[p] \in Requests
  BY <1>1, AtWork DEF JobFits, Fresh
<1>3. PICK s \in {"save", "copy"} : Goto(p, s)
  BY DEF Switch, SwitchFails
<1>4. config' = config /\ UNCHANGED <<lock, req, job, db, suspect>>
  BY DEF Switch, SwitchFails, files
<1>5. SharedOK'
  <2>1. req[p].client \in Clients /\ req[p].route \in Routes
    BY <1>2 DEF Requests
  <2>2. xray' = xray \/ (xray.up /\ xray' = [xray EXCEPT !.route[req[p].client] = req[p].route])
    BY DEF Switch, SwitchFails, Switchable
  <2>3. xray' \in XrayStates
    <3>1. xray \in XrayStates
      BY <1>2 DEF SharedOK
    <3>2. xray.up => [xray EXCEPT !.route[req[p].client] = req[p].route] \in XrayStates
      BY <2>1, <3>1, SwitchedIsXray, Zenon
    <3> QED
      BY <2>2, <3>1, <3>2, Zenon
  <2>4. unloaded' \in SUBSET Clients /\ intact' \in BOOLEAN
    BY <1>2, <2>1 DEF Switch, SwitchFails, SharedOK, files
  <2> QED
    BY <1>2, <1>4, <2>3, <2>4 DEF SharedOK
<1>6. s \in Holding \ {"load"}
  BY DEF Holding, Steps
<1> QED
  BY <1>1, <1>2, <1>3, <1>4, <1>5, <1>6, HolderSteps

LEMMA WriteConfigFailsKeeps ==
  ASSUME IInv, NEW p \in Procs, WriteConfigFails(p)
  PROVE  IInv'
<1>1. pc[p] \in Holding \ {"load"} /\ pc[p] = "write"
  BY DEF WriteConfigFails, Holding, Steps
<1>2. SharedOK /\ config = job[p].oldCfg /\ db = job[p].oldDb /\ BothAgree(p)
  BY <1>1, AtWork DEF Fresh
<1>3. SharedOK' /\ Agreed' /\ End(p)
  BY <1>2 DEF WriteConfigFails, SharedOK, Agreed, BothAgree, files
<1> QED
  BY <1>1, <1>3, HolderEnds

\* Nothing else writes manager.db meanwhile, so what SaveDb commits is the whole
\* candidate, and no row can conflict.
LEMMA CommitIsCandidate ==
  ASSUME NEW p \in Procs, job[p].oldDb \in Stores, job[p].db \in Stores, db = job[p].oldDb
  PROVE  NoConflict(p) /\ Merged(p) = job[p].db
<1> DEFINE o == job[p].oldDb
           n == job[p].db
<1>1. NoConflict(p)
  BY DEF NoConflict, SameRow
<1>2. /\ SoundTable(n.known, n.on, n.route)
      /\ n = [known |-> n.known, on |-> n.on, route |-> n.route]
  BY StoresFields
<1>3. \A c \in Clients \ WrittenRows(p) :
        o.known[c] = n.known[c] /\ o.on[c] = n.on[c] /\ o.route[c] = n.route[c]
  BY DEF WrittenRows, SameRow
<1> DEFINE mk == [c \in Clients |-> IF c \in WrittenRows(p) THEN n.known[c] ELSE o.known[c]]
           mo == [c \in Clients |-> IF c \in WrittenRows(p) THEN n.on[c] ELSE o.on[c]]
           mr == [c \in Clients |-> IF c \in WrittenRows(p) THEN n.route[c] ELSE o.route[c]]
<1>4. Merged(p) = [known |-> mk, on |-> mo, route |-> mr]
  BY DEF Merged
<1> HIDE DEF o, n
<1>5. mk = n.known /\ mo = n.on /\ mr = n.route
  BY <1>2, <1>3 DEF SoundTable
<1> HIDE DEF mk, mo, mr
<1>6. Merged(p) = n
  BY <1>2, <1>4, <1>5
<1> QED
  BY <1>1, <1>6 DEF n

LEMMA SaveDbKeeps ==
  ASSUME IInv, NEW p \in Procs, SaveDb(p)
  PROVE  IInv'
<1>1. pc[p] \in Holding \ {"load"} /\ pc[p] = "save"
  BY DEF SaveDb, Holding, Steps
<1>2. /\ SharedOK /\ config = job[p].cfg /\ db = job[p].oldDb /\ BothAgree(p)
      /\ job[p].db \in Stores /\ job[p].oldDb \in Stores
  BY <1>1, AtWork DEF Fresh
<1>3. db' = job[p].db /\ config' = job[p].cfg
  BY <1>2, CommitIsCandidate DEF SaveDb
<1>4. \A c \in Clients \ suspect' : AgreeIn(job[p].cfg, job[p].db, c)
  BY <1>2 DEF SaveDb, BothAgree
<1>5. SharedOK' /\ Agreed' /\ End(p)
  BY <1>2, <1>3, <1>4 DEF SaveDb, SharedOK, Agreed
<1> QED
  BY <1>1, <1>5, HolderEnds

\* A process that leaves its new config.json behind with the old rows.
LEMMA TornEnd ==
  ASSUME IInv, NEW p \in Procs, pc[p] \in Holding \ {"load"}, config = job[p].cfg,
         UNCHANGED <<config, db>>, suspect' = suspect \union JobChanges(p)
  PROVE  Agreed'
<1>1. db = job[p].oldDb /\ BothAgree(p)
  BY AtWork DEF Fresh
<1>2. ASSUME NEW c \in Clients \ suspect' PROVE AgreeIn(config, db, c)
  <2>1. AgreeIn(job[p].oldCfg, job[p].oldDb, c)
    BY <1>1 DEF BothAgree
  <2>2. c \notin Changed(job[p].oldCfg, job[p].oldDb, job[p].cfg, job[p].db)
    BY DEF JobChanges
  <2> QED
    BY <1>1, <2>1, <2>2, TornAgree
<1> QED
  BY <1>2 DEF Agreed

LEMMA SaveDbFailsKeeps ==
  ASSUME IInv, NEW p \in Procs, SaveDbFails(p)
  PROVE  IInv'
<1>1. pc[p] \in Holding \ {"load"} /\ pc[p] = "save"
  BY DEF SaveDbFails, Holding, Steps
<1>2. /\ SharedOK /\ JobFits(p) /\ config = job[p].cfg /\ db = job[p].oldDb /\ BothAgree(p)
      /\ job[p].kind \in {"apply", "db", "route"}
  BY <1>1, AtWork DEF Fresh
<1>3. UNCHANGED <<config, db, xray, unloaded>>
  BY DEF SaveDbFails
<1>4. CASE job[p].kind = "apply"
  <2>1. Goto(p, "copy") /\ intact' = FALSE /\ UNCHANGED <<lock, req, job, suspect>>
    BY <1>4, Zenon DEF SaveDbFails
  <2>2. SharedOK'
    BY <1>2, <1>3, <2>1 DEF SharedOK
  <2>3. "copy" \in Holding \ {"load"}
    BY DEF Holding, Steps
  <2> QED
    BY <1>1, <1>2, <1>3, <1>4, <2>1, <2>2, <2>3, HolderSteps
<1>5. CASE job[p].kind = "route"
  <2>1. End(p) /\ suspect' = suspect \union JobChanges(p) /\ UNCHANGED intact
    BY <1>5, Zenon DEF SaveDbFails
  <2>2. SharedOK'
    BY <1>2, <1>3, <2>1, ChangesAreClients DEF SharedOK
  <2>3. Agreed'
    BY <1>1, <1>2, <1>3, <2>1, TornEnd
  <2> QED
    BY <1>1, <2>1, <2>2, <2>3, HolderEnds
<1>6. CASE job[p].kind = "db"
  <2>1. End(p) /\ UNCHANGED <<intact, suspect>>
    BY <1>6, Zenon DEF SaveDbFails
  <2>2. SharedOK'
    BY <1>2, <1>3, <2>1 DEF SharedOK
  <2>3. config = job[p].oldCfg
    BY <1>2, <1>6 DEF JobFits
  <2>4. Agreed'
    BY <1>2, <1>3, <2>1, <2>3 DEF Agreed, BothAgree
  <2> QED
    BY <1>1, <2>1, <2>2, <2>4, HolderEnds
<1> QED
  BY <1>2, <1>4, <1>5, <1>6

LEMMA CopyBackupKeeps ==
  ASSUME IInv, NEW p \in Procs, CopyBackup(p)
  PROVE  IInv'
<1>1. pc[p] \in Holding \ {"load"} /\ pc[p] = "copy"
  BY DEF CopyBackup, Holding, Steps
<1>2. /\ SharedOK /\ JobFits(p) /\ db = job[p].oldDb /\ BothAgree(p)
      /\ job[p].kind \in {"apply", "route"} /\ job[p].oldCfg \in Configs
  BY <1>1, AtWork DEF Fresh, JobFits
<1>3. SharedOK' /\ config' = job[p].oldCfg /\ UNCHANGED <<db, suspect>>
  BY <1>2 DEF CopyBackup, SharedOK
<1>4. CASE job[p].kind = "route"
  <2>1. End(p)
    BY <1>4 DEF CopyBackup
  <2>2. Agreed'
    BY <1>2, <1>3 DEF Agreed, BothAgree
  <2> QED
    BY <1>1, <1>3, <2>1, <2>2, HolderEnds
<1>5. CASE job[p].kind = "apply"
  <2>1. Goto(p, "again") /\ UNCHANGED <<lock, req, job>>
    BY <1>5 DEF CopyBackup
  <2>2. "again" \in Holding \ {"load"}
    BY DEF Holding, Steps
  <2> QED
    BY <1>1, <1>3, <1>5, <2>1, <2>2, HolderSteps
<1> QED
  BY <1>2, <1>4, <1>5

LEMMA CopyBackupFailsKeeps ==
  ASSUME IInv, NEW p \in Procs, CopyBackupFails(p)
  PROVE  IInv'
<1>1. pc[p] \in Holding \ {"load"} /\ pc[p] = "copy"
  BY DEF CopyBackupFails, Holding, Steps
<1>2. SharedOK /\ config = job[p].cfg
  BY <1>1, AtWork DEF Fresh
<1>3. /\ SharedOK' /\ UNCHANGED <<config, db>> /\ suspect' = suspect \union JobChanges(p)
      /\ End(p)
  BY <1>2, ChangesAreClients DEF CopyBackupFails, SharedOK, files
<1> QED
  BY <1>1, <1>2, <1>3, TornEnd, HolderEnds

LEMMA RestartAgainKeeps ==
  ASSUME IInv, NEW p \in Procs, RestartAgain(p)
  PROVE  IInv'
<1>1. pc[p] \in Holding \ {"load"} /\ pc[p] = "again"
  BY DEF RestartAgain, Holding, Steps
<1>2. SharedOK /\ config = job[p].oldCfg /\ db = job[p].oldDb /\ BothAgree(p)
  BY <1>1, AtWork DEF Fresh
<1>3. /\ UNCHANGED <<config, intact, db, suspect>> /\ End(p)
      /\ xray' \in {Running(config), Down} /\ unloaded' \in {{}, unloaded}
  BY DEF RestartAgain, files
<1>4. SharedOK'
  BY <1>2, <1>3, RunningIsXray DEF SharedOK, XrayStates
<1>5. Agreed'
  BY <1>2, <1>3 DEF Agreed, BothAgree
<1> QED
  BY <1>1, <1>3, <1>4, <1>5, HolderEnds


\* A process may be killed at any step; what it leaves behind either agrees or is
\* listed in suspect.
LEMMA CrashKeeps ==
  ASSUME IInv, NEW p \in Procs, Crash(p)
  PROVE  IInv'
<1>1. ProcOK /\ SharedOK /\ LockOwner /\ UNCHANGED <<config, intact, db, xray>> /\ End(p)
  BY TypeParts DEF IInv, Crash, files
<1>2. suspect' \in {suspect, suspect \union JobChanges(p)}
      /\ unloaded' \in {unloaded, unloaded \union JobChanges(p)}
  BY DEF Crash
<1>3. SharedOK'
  BY <1>1, <1>2, ChangesAreClients DEF SharedOK
<1>4. CASE pc[p] = "waiting"
  <2>1. suspect' = suspect
    BY <1>4 DEF Crash
  <2>2. lock # p
    BY <1>1, <1>4 DEF LockOwner, Holding
  <2>3. Bystander(p)
    BY <1>1, <1>4, <2>1, <2>2 DEF End, Bystander
  <2> QED
    BY <1>3, <2>3, BystanderKeeps
<1>5. CASE pc[p] = "load"
  <2>1. suspect' = suspect /\ Agreed /\ pc[p] \in Holding
    BY <1>5 DEF Crash, IInv, InHand, Holding, Steps
  <2>2. Agreed'
    BY <1>1, <2>1 DEF Agreed
  <2> QED
    BY <1>1, <1>3, <2>1, <2>2, HolderEnds
<1>6. CASE pc[p] \in {"write", "again"}
  <2>1. pc[p] \in Holding \ {"load"} /\ suspect' = suspect
    BY <1>6 DEF Crash, Holding, Steps
  <2>2. config = job[p].oldCfg /\ db = job[p].oldDb /\ BothAgree(p)
    BY <1>6, <2>1, AtWork DEF Fresh
  <2>3. Agreed'
    BY <1>1, <2>1, <2>2 DEF Agreed, BothAgree
  <2> QED
    BY <1>1, <1>3, <2>1, <2>3, HolderEnds
<1>7. CASE pc[p] \in {"restart", "switch", "copy"} \/ (pc[p] = "save" /\ job[p].kind # "db")
  <2>1. pc[p] \in Holding \ {"load"} /\ suspect' = suspect \union JobChanges(p)
    BY <1>7 DEF Crash, Holding, Steps
  <2>2. config = job[p].cfg
    BY <1>7, <2>1, AtWork DEF Fresh
  <2>3. Agreed'
    BY <1>1, <2>1, <2>2, TornEnd
  <2> QED
    BY <1>1, <1>3, <2>1, <2>3, HolderEnds
<1>8. CASE pc[p] = "save" /\ job[p].kind = "db"
  <2>1. pc[p] \in Holding \ {"load"} /\ suspect' = suspect
    BY <1>8 DEF Crash, Holding, Steps
  <2>2. config = job[p].oldCfg /\ db = job[p].oldDb /\ BothAgree(p)
    BY <1>8, <2>1, AtWork DEF Fresh, JobFits
  <2>3. Agreed'
    BY <1>1, <2>1, <2>2 DEF Agreed, BothAgree
  <2> QED
    BY <1>1, <1>3, <2>1, <2>3, HolderEnds
<1>9. pc[p] \in Steps \ {"idle"}
  BY <1>1 DEF ProcOK, Crash
<1> QED
  BY <1>4, <1>5, <1>6, <1>7, <1>8, <1>9 DEF Steps

LEMMA XrayKeeps ==
  ASSUME IInv, XrayExits \/ XrayStarts
  PROVE  IInv'
<1>1. /\ ProcOK /\ SharedOK
      /\ UNCHANGED <<lock, pc, req, job, config, intact, db, suspect>>
  BY TypeParts DEF IInv, XrayExits, XrayStarts, files
<1>2. SharedOK'
  <2>1. xray' \in XrayStates /\ unloaded' \in SUBSET Clients
    BY <1>1, RunningIsXray DEF XrayExits, XrayStarts, SharedOK, XrayStates
  <2> QED
    BY <1>1, <2>1 DEF SharedOK
<1>3. ProcOK'
  BY <1>1 DEF ProcOK
<1>4. LockOwner' /\ (\A p \in Procs : InHand(p)') /\ (lock' = NoProc => Agreed')
  BY <1>1 DEF IInv, LockOwner, InHand, JobFits, Fresh, Asked, BothAgree, Agreed
<1> QED
  BY <1>2, <1>3, <1>4, TypeParts DEF IInv, TypeOK, ProcOK, SharedOK

LEMMA InitHolds == Init => IInv
<1> SUFFICES ASSUME Init PROVE IInv
  OBVIOUS
<1>1. ProcOK
  BY DEF Init, ProcOK, Steps
<1>2. config \in Configs
  BY DEF Init, Configs, RouteOrNone
<1>3. db \in Stores
  <2>1. SoundTable(db.known, db.on, db.route)
    BY DEF Init, SoundTable, RouteOrNone
  <2>2. db = [known |-> db.known, on |-> db.on, route |-> db.route]
    BY DEF Init
  <2> QED
    BY <2>1, <2>2, MakeStores
<1>4. SharedOK
  BY <1>2, <1>3, RunningIsXray DEF Init, SharedOK
<1>5. LockOwner
  BY ProcsAssumption DEF Init, LockOwner, Holding
<1>6. Agreed
  BY DEF Init, Agreed, AgreeIn
<1>7. \A p \in Procs : InHand(p)
  BY DEF Init, InHand, Holding
<1> QED
  BY <1>1, <1>4, <1>5, <1>6, <1>7, TypeParts DEF IInv

LEMMA StepKeeps == IInv /\ [Next]_vars => IInv'
<1> SUFFICES ASSUME IInv, [Next]_vars PROVE IInv'
  OBVIOUS
<1>1. ASSUME NEW p \in Procs, Submit(p) \/ AskTerm(p) \/ LockTimeout(p) PROVE IInv'
  BY <1>1, WaitersKeep
<1>2. ASSUME NEW p \in Procs, Acquire(p) PROVE IInv'
  BY <1>2, AcquireKeeps
<1>3. ASSUME NEW p \in Procs, Refuse(p) PROVE IInv'
  BY <1>3, RefuseKeeps
<1>4. ASSUME NEW p \in Procs, Load(p) PROVE IInv'
  BY <1>4, LoadKeeps
<1>5. ASSUME NEW p \in Procs, WriteConfig(p) \/ WriteConfigFails(p) PROVE IInv'
  BY <1>5, WriteConfigKeeps, WriteConfigFailsKeeps
<1>6. ASSUME NEW p \in Procs, Restart(p) \/ RestartFails(p) PROVE IInv'
  BY <1>6, RestartKeeps
<1>7. ASSUME NEW p \in Procs, Switch(p) \/ SwitchFails(p) PROVE IInv'
  BY <1>7, SwitchKeeps
<1>8. ASSUME NEW p \in Procs, SaveDb(p) \/ SaveDbFails(p) PROVE IInv'
  BY <1>8, SaveDbKeeps, SaveDbFailsKeeps
<1>9. ASSUME NEW p \in Procs, CopyBackup(p) \/ CopyBackupFails(p) PROVE IInv'
  BY <1>9, CopyBackupKeeps, CopyBackupFailsKeeps
<1>10. ASSUME NEW p \in Procs, RestartAgain(p) PROVE IInv'
  BY <1>10, RestartAgainKeeps
<1>11. ASSUME NEW p \in Procs, Crash(p) PROVE IInv'
  BY <1>11, CrashKeeps
<1>12. CASE XrayExits \/ XrayStarts
  BY <1>12, XrayKeeps
<1>13. CASE UNCHANGED vars
  BY <1>13 DEF vars, IInv, TypeOK, LockOwner, InHand, JobFits, Fresh, Asked, BothAgree, Agreed
<1> QED
  BY <1>1, <1>2, <1>3, <1>4, <1>5, <1>6, <1>7, <1>8, <1>9, <1>10, <1>11, <1>12, <1>13
     DEF Next, Progress

LEMMA Inductive == Spec => []IInv
<1>1. Init => IInv
  BY InitHolds
<1>2. IInv /\ [Next]_vars => IInv'
  BY StepKeeps
<1> QED
  BY <1>1, <1>2, PTL DEF Spec

-----------------------------------------------------------------------------
(***************************************************************************)
(* What the running Xray has loaded.  XrayFollowsConfig, too, is silent    *)
(* while a command works.  Xray then runs with the old or the new          *)
(* config.json, and a file is broken only while its backup is copied back. *)
(***************************************************************************)
XrayAs(cfg) ==
  xray.up => \A c \in Clients \ unloaded :
               xray.served[c] = cfg.served[c] /\ xray.route[c] = cfg.route[c]

Quiet == (suspect = {} => intact) /\ (intact => XrayAs(config))

\* What is written is a change, so that a cut rollback has a client to name; a switch
\* changes the route of its client.
Touches(p) ==
  /\ job[p].kind # "db" => suspect \union JobChanges(p) # {}
  /\ job[p].kind = "route" =>
       /\ req[p].client \in JobChanges(p)
       /\ job[p].cfg = [served |-> job[p].oldCfg.served,
                        route |-> [job[p].oldCfg.route EXCEPT ![req[p].client] = req[p].route]]

Loaded(p) ==
  /\ pc[p] = "load" => Quiet
  /\ pc[p] # "load" => Touches(p) /\ (intact <=> pc[p] # "copy")
  /\ pc[p] \in {"write", "save"} => XrayAs(config)
  /\ pc[p] \in {"restart", "switch", "copy", "again"} =>
       XrayAs(job[p].oldCfg) \/ XrayAs(job[p].cfg)
  /\ pc[p] = "copy" /\ job[p].kind = "route" => XrayAs(job[p].oldCfg)

XInv ==
  /\ lock = NoProc => Quiet
  /\ \A p \in Procs : lock = p => Loaded(p)

\* A step beside the holder that leaves the files and Xray alone.
LEMMA BesideKeeps ==
  ASSUME XInv, NEW p \in Procs, lock # p, lock' = lock,
         UNCHANGED <<config, intact, xray, suspect, unloaded>>,
         \A q \in Procs \ {p} : pc'[q] = pc[q] /\ req'[q] = req[q] /\ job'[q] = job[q]
  PROVE  XInv'
<1>1. Quiet' <=> Quiet
  BY DEF Quiet, XrayAs
<1>2. ASSUME NEW q \in Procs, lock' = q PROVE Loaded(q)'
  <2>1. q # p /\ Loaded(q)
    BY <1>2 DEF XInv
  <2>2. pc'[q] = pc[q] /\ req'[q] = req[q] /\ job'[q] = job[q]
    BY <2>1
  <2>3. Touches(q)' <=> Touches(q)
    BY <2>2 DEF Touches, JobChanges
  <2> QED
    BY <1>1, <2>1, <2>2, <2>3 DEF Loaded, XrayAs
<1> QED
  BY <1>1, <1>2 DEF XInv

LEMMA QuietEnd ==
  ASSUME NEW p \in Procs, lock = p, End(p), Quiet'
  PROVE  XInv'
  BY ProcsAssumption DEF End, XInv

LEMMA LoadedStep ==
  ASSUME NEW p \in Procs, lock' = p, Loaded(p)'
  PROVE  XInv'
  BY ProcsAssumption DEF XInv

\* The holder at work, with what both invariants say of it.
LEMMA AtWorkLoaded ==
  ASSUME IInv, XInv, NEW p \in Procs, pc[p] \in Holding \ {"load"}
  PROVE  /\ lock = p /\ Loaded(p) /\ Touches(p) /\ JobFits(p) /\ Fresh(p)
         /\ pc \in [Procs -> Steps] /\ req[p] \in Requests /\ xray \in XrayStates
         /\ job[p].kind \in {"apply", "db", "route"}
         /\ job[p].oldCfg \in Configs /\ job[p].cfg \in Configs
<1>1. /\ JobFits(p) /\ Fresh(p) /\ SharedOK /\ ProcOK /\ lock = p /\ req[p] \in Requests
      /\ job[p].kind \in {"apply", "db", "route"}
      /\ job[p].oldCfg \in Configs /\ job[p].cfg \in Configs
  BY AtWork
<1> QED
  BY <1>1 DEF XInv, Loaded, SharedOK, ProcOK

\* The same job at another step.
LEMMA SameJob ==
  ASSUME NEW p \in Procs, UNCHANGED <<req, job, suspect>>, Touches(p)
  PROVE  Touches(p)'
  BY DEF Touches, JobChanges

LEMMA WaitersKeepX ==
  ASSUME IInv, XInv, NEW p \in Procs, Submit(p) \/ AskTerm(p) \/ LockTimeout(p)
  PROVE  XInv'
<1>1. ProcOK /\ LockOwner
  BY TypeParts DEF IInv
<1>2. pc[p] \notin Holding /\ UNCHANGED <<config, intact, xray, suspect, unloaded>>
  BY DEF Submit, AskTerm, LockTimeout, Holding, files
<1>3. lock # p
  BY <1>1, <1>2 DEF LockOwner
<1>4. lock' = lock
  BY <1>3 DEF Submit, AskTerm, LockTimeout, End
<1>5. \A q \in Procs \ {p} : pc'[q] = pc[q] /\ req'[q] = req[q] /\ job'[q] = job[q]
  BY <1>1 DEF ProcOK, Submit, AskTerm, LockTimeout, End, Goto
<1> QED
  BY <1>2, <1>3, <1>4, <1>5, BesideKeeps

LEMMA AcquireKeepsX == ASSUME IInv, XInv, NEW p \in Procs, Acquire(p) PROVE XInv'
<1>1. pc \in [Procs -> Steps] /\ Quiet /\ lock' = p
  BY DEF IInv, TypeOK, XInv, Acquire
<1>2. pc'[p] = "load" /\ UNCHANGED <<config, intact, xray, suspect, unloaded>>
  BY <1>1 DEF Acquire, Goto, files
<1>3. Quiet'
  BY <1>1, <1>2 DEF Quiet, XrayAs
<1> QED
  BY <1>1, <1>2, <1>3, LoadedStep DEF Loaded

\* Until the candidate is computed nothing has changed.
LEMMA LoadingIsQuiet ==
  ASSUME IInv, XInv, NEW p \in Procs, pc[p] = "load"
  PROVE  lock = p /\ Quiet /\ Agreed /\ pc \in [Procs -> Steps] /\ req[p] \in Requests
<1>1. pc[p] \in Holding
  BY DEF Holding, Steps
<1>2. lock = p /\ Agreed /\ req[p] \in Requests
  BY <1>1 DEF IInv, LockOwner, InHand
<1> QED
  BY <1>2 DEF IInv, TypeOK, XInv, Loaded

LEMMA RefuseKeepsX == ASSUME IInv, XInv, NEW p \in Procs, Refuse(p) PROVE XInv'
<1>1. lock = p /\ Quiet
  BY LoadingIsQuiet DEF Refuse
<1>2. Quiet'
  BY <1>1 DEF Refuse, Quiet, XrayAs, files
<1> QED
  BY <1>1, <1>2, QuietEnd DEF Refuse

LEMMA LoadKeepsX == ASSUME IInv, XInv, NEW p \in Procs, Load(p) PROVE XInv'
<1>1. /\ lock = p /\ Quiet /\ Agreed /\ pc \in [Procs -> Steps] /\ req[p] \in Requests
      /\ intact /\ XrayAs(config)
  BY LoadingIsQuiet DEF Load, Refusal, Quiet
<1>2. config \in Configs /\ db \in Stores /\ job \in [Procs -> Jobs \union {NoJob}]
  BY DEF IInv, TypeOK
<1>3. PICK k \in Candidates(req[p], config, db) :
        /\ job' = [job EXCEPT ![p] =
             [kind |-> k.kind, oldCfg |-> config, oldDb |-> db, cfg |-> k.cfg, db |-> k.db]]
        /\ Goto(p, IF k.kind = "db" THEN "save" ELSE "write")
  BY DEF Load
<1>4. /\ lock' = p /\ UNCHANGED <<req, config, intact, xray, suspect, unloaded>>
  BY <1>1 DEF Load, files
<1>5. pc'[p] \in {"save", "write"}
  BY <1>1, <1>3 DEF Goto
<1>6. /\ job'[p].kind = k.kind /\ job'[p].oldCfg = config /\ job'[p].cfg = k.cfg
      /\ job'[p].oldDb = db /\ job'[p].db = k.db
  BY <1>2, <1>3
<1>7. Effective(k, req[p], config, db)
  BY <1>1, <1>2, CandidatesEffective
<1>8. (\E c \in Clients : ~ AgreeIn(config, db, c)) => suspect # {}
  BY <1>1 DEF Agreed
<1>9. Touches(p)'
  BY <1>4, <1>6, <1>7, <1>8 DEF Effective, Touches, JobChanges
<1>10. XrayAs(config)'
  BY <1>1, <1>4 DEF XrayAs
<1> QED
  BY <1>1, <1>4, <1>5, <1>9, <1>10, LoadedStep DEF Loaded

LEMMA WriteKeepsX ==
  ASSUME IInv, XInv, NEW p \in Procs, WriteConfig(p) \/ WriteConfigFails(p) PROVE XInv'
<1>1. pc[p] = "write" /\ pc[p] \in Holding \ {"load"}
  BY DEF WriteConfig, WriteConfigFails, Holding, Steps
<1>2. /\ lock = p /\ Touches(p) /\ pc \in [Procs -> Steps]
      /\ intact /\ XrayAs(config) /\ config = job[p].oldCfg
  BY <1>1, AtWorkLoaded DEF Loaded, Fresh
<1>3. CASE WriteConfig(p)
  <2>1. /\ pc'[p] \in {"switch", "restart"} /\ lock' = p
        /\ UNCHANGED <<req, job, intact, xray, suspect, unloaded>>
    BY <1>2, <1>3 DEF WriteConfig, Goto
  <2>2. Touches(p)' /\ XrayAs(job[p].oldCfg)'
    BY <1>2, <2>1, SameJob DEF XrayAs
  <2> QED
    BY <1>2, <2>1, <2>2, LoadedStep DEF Loaded
<1>4. CASE WriteConfigFails(p)
  <2>1. Quiet'
    BY <1>2, <1>4 DEF WriteConfigFails, Quiet, XrayAs, files
  <2> QED
    BY <1>2, <1>4, <2>1, QuietEnd DEF WriteConfigFails
<1> QED
  BY <1>3, <1>4

LEMMA RunningAs == ASSUME NEW cfg, xray' = Running(cfg) PROVE XrayAs(cfg)'
  BY DEF Running, XrayAs

LEMMA DownAs == ASSUME NEW cfg, xray' = Down PROVE XrayAs(cfg)'
<1>1. ~ xray'.up
  BY DEF Down
<1> QED
  BY <1>1 DEF XrayAs

LEMMA RestartKeepsX ==
  ASSUME IInv, XInv, NEW p \in Procs, Restart(p) \/ RestartFails(p) PROVE XInv'
<1>1. pc[p] = "restart" /\ pc[p] \in Holding \ {"load"}
  BY DEF Restart, RestartFails, Holding, Steps
<1>2. /\ lock = p /\ Touches(p) /\ pc \in [Procs -> Steps] /\ job[p].kind = "apply" /\ intact
      /\ XrayAs(job[p].oldCfg) \/ XrayAs(job[p].cfg)
  BY <1>1, AtWorkLoaded DEF Loaded, JobFits
<1>3. lock' = p /\ UNCHANGED <<req, job, config, suspect>>
  BY <1>2 DEF Restart, RestartFails, files
<1>4. Touches(p)'
  BY <1>2, <1>3, SameJob
<1>5. CASE Restart(p)
  <2>1. pc'[p] = "save" /\ intact'
    BY <1>2, <1>5 DEF Restart, Goto, files
  <2>2. XrayAs(config)'
    BY <1>3, <1>5, RunningAs DEF Restart, XrayAs
  <2> QED
    BY <1>3, <1>4, <2>1, <2>2, LoadedStep DEF Loaded
<1>6. CASE RestartFails(p)
  <2>1. pc'[p] = "copy" /\ intact' = FALSE /\ unloaded' = unloaded
    BY <1>2, <1>6 DEF RestartFails, Goto
  <2>2. XrayAs(job[p].oldCfg)' \/ XrayAs(job[p].cfg)'
    <3>1. CASE xray' = xray
      BY <1>2, <1>3, <2>1, <3>1 DEF XrayAs
    <3>2. CASE xray' = Down
      <4>1. ~ xray'.up
        BY <3>2 DEF Down
      <4> QED
        BY <4>1 DEF XrayAs
    <3> QED
      BY <1>6, <3>1, <3>2 DEF RestartFails
  <2> QED
    BY <1>2, <1>3, <1>4, <2>1, <2>2, LoadedStep DEF Loaded
<1> QED
  BY <1>5, <1>6

LEMMA SwitchKeepsX ==
  ASSUME IInv, XInv, NEW p \in Procs, Switch(p) \/ SwitchFails(p) PROVE XInv'
<1> DEFINE b == req[p].client
           old == job[p].oldCfg
           new == job[p].cfg
<1>1. pc[p] = "switch" /\ pc[p] \in Holding \ {"load"}
  BY DEF Switch, SwitchFails, Holding, Steps
<1>2. /\ lock = p /\ Touches(p) /\ pc \in [Procs -> Steps] /\ job[p].kind = "route" /\ intact
      /\ XrayAs(old) \/ XrayAs(new)
      /\ req[p] \in Requests /\ xray \in XrayStates /\ old \in Configs /\ config = new
  BY <1>1, AtWorkLoaded DEF Loaded, JobFits, Fresh
<1>3. b \in Clients
  BY <1>2 DEF Requests
<1>4. /\ new.served = old.served
      /\ \A c \in Clients : new.route[c] = IF c = b THEN req[p].route ELSE old.route[c]
  BY <1>2, <1>3 DEF Touches, Configs
<1>5. lock' = p /\ UNCHANGED <<req, job, config, suspect>>
  BY <1>2 DEF Switch, SwitchFails, files
<1>6. Touches(p)'
  BY <1>2, <1>5, SameJob
<1>7. ASSUME xray.up, xray' = [xray EXCEPT !.route[b] = req[p].route]
      PROVE  /\ xray'.up /\ xray'.served = xray.served
             /\ \A c \in Clients : xray'.route[c] = IF c = b THEN req[p].route ELSE xray.route[c]
  <2>1. xray \in [up : {TRUE}, served : [Clients -> SUBSET Conns],
                  route : [Clients -> RouteOrNone]]
    BY <1>2, <1>7, LiveXray
  <2> HIDE DEF b
  <2> QED
    BY <1>3, <1>7, <2>1
<1> HIDE DEF b, old, new
<1>8. CASE Switch(p)
  <2>1. /\ pc'[p] = "save" /\ intact' /\ unloaded' = unloaded
        /\ xray.up /\ xray' = [xray EXCEPT !.route[b] = req[p].route]
    BY <1>2, <1>8 DEF Switch, Goto, files, Switchable, b
  <2>2. /\ xray'.up /\ xray'.served = xray.served
        /\ \A c \in Clients : xray'.route[c] = IF c = b THEN req[p].route ELSE xray.route[c]
    BY <1>7, <2>1
  <2>3. XrayAs(config)'
    BY <1>2, <1>4, <1>5, <2>1, <2>2 DEF XrayAs
  <2> QED
    BY <1>5, <1>6, <2>1, <2>3, LoadedStep DEF Loaded
<1>9. CASE SwitchFails(p)
  <2>1. pc'[p] = "copy" /\ intact' = FALSE /\ unloaded' = unloaded \union {b}
    BY <1>2, <1>9 DEF SwitchFails, Goto, b
  <2>2. XrayAs(job[p].oldCfg)'
    <3>1. CASE xray' = xray
      BY <1>2, <1>4, <1>5, <2>1, <3>1 DEF XrayAs, old
    <3>2. CASE xray.up /\ xray' = [xray EXCEPT !.route[b] = req[p].route]
      <4>1. /\ xray'.served = xray.served
            /\ \A c \in Clients \ {b} : xray'.route[c] = xray.route[c]
        BY <1>7, <3>2
      <4> QED
        BY <1>2, <1>4, <1>5, <2>1, <3>2, <4>1 DEF XrayAs, old
    <3> QED
      BY <1>9, <3>1, <3>2 DEF SwitchFails, Switchable, b
  <2> QED
    BY <1>2, <1>5, <1>6, <2>1, <2>2, LoadedStep DEF Loaded
<1> QED
  BY <1>8, <1>9

LEMMA SaveKeepsX ==
  ASSUME IInv, XInv, NEW p \in Procs, SaveDb(p) \/ SaveDbFails(p) PROVE XInv'
<1>1. pc[p] = "save" /\ pc[p] \in Holding \ {"load"}
  BY DEF SaveDb, SaveDbFails, Holding, Steps
<1>2. /\ lock = p /\ Touches(p) /\ pc \in [Procs -> Steps] /\ intact /\ XrayAs(config)
      /\ config = job[p].cfg /\ job[p].kind \in {"apply", "db", "route"}
  BY <1>1, AtWorkLoaded DEF Loaded, Fresh
<1>3. UNCHANGED <<config, xray, unloaded>>
  BY DEF SaveDb, SaveDbFails
<1>4. XrayAs(config)'
  BY <1>2, <1>3 DEF XrayAs
<1>5. CASE End(p) /\ intact' = intact
  <2>1. Quiet'
    BY <1>2, <1>4, <1>5 DEF Quiet
  <2> QED
    BY <1>2, <1>5, <2>1, QuietEnd
<1>6. CASE SaveDbFails(p) /\ job[p].kind = "apply"
  <2>1. Goto(p, "copy") /\ intact' = FALSE /\ UNCHANGED <<lock, req, job, suspect>>
    BY <1>6, Zenon DEF SaveDbFails
  <2>2. pc'[p] = "copy"
    BY <1>2, <2>1 DEF Goto
  <2>3. Touches(p)' /\ XrayAs(job[p].cfg)'
    BY <1>2, <1>3, <1>4, <2>1, SameJob DEF XrayAs
  <2> QED
    BY <1>2, <1>6, <2>1, <2>2, <2>3, LoadedStep DEF Loaded
<1>7. CASE SaveDbFails(p) /\ job[p].kind # "apply"
  BY <1>2, <1>5, <1>7 DEF SaveDbFails
<1>8. SaveDb(p) => End(p) /\ intact' = intact
  BY DEF SaveDb
<1> QED
  BY <1>5, <1>6, <1>7, <1>8

LEMMA CopyKeepsX ==
  ASSUME IInv, XInv, NEW p \in Procs, CopyBackup(p) \/ CopyBackupFails(p) PROVE XInv'
<1>1. pc[p] = "copy" /\ pc[p] \in Holding \ {"load"}
  BY DEF CopyBackup, CopyBackupFails, Holding, Steps
<1>2. /\ lock = p /\ Touches(p) /\ pc \in [Procs -> Steps] /\ ~ intact
      /\ XrayAs(job[p].oldCfg) \/ XrayAs(job[p].cfg)
      /\ job[p].kind = "route" => XrayAs(job[p].oldCfg)
      /\ job[p].kind \in {"apply", "route"} /\ job[p].kind # "db"
  BY <1>1, AtWorkLoaded DEF Loaded, JobFits
<1>3. UNCHANGED <<xray, unloaded>>
  BY DEF CopyBackup, CopyBackupFails, files
<1>4. CASE CopyBackup(p) /\ job[p].kind = "route"
  <2>1. config' = job[p].oldCfg /\ intact' = TRUE /\ End(p)
    BY <1>4 DEF CopyBackup
  <2>2. Quiet'
    BY <1>2, <1>3, <1>4, <2>1 DEF Quiet, XrayAs
  <2> QED
    BY <1>2, <2>1, <2>2, QuietEnd
<1>5. CASE CopyBackup(p) /\ job[p].kind = "apply"
  <2>1. /\ intact' = TRUE /\ Goto(p, "again") /\ UNCHANGED <<lock, req, job, suspect>>
    BY <1>5 DEF CopyBackup
  <2>2. pc'[p] = "again"
    BY <1>2, <2>1 DEF Goto
  <2>3. Touches(p)' /\ (XrayAs(job[p].oldCfg)' \/ XrayAs(job[p].cfg)')
    BY <1>2, <1>3, <2>1, SameJob DEF XrayAs
  <2> QED
    BY <1>2, <2>1, <2>2, <2>3, LoadedStep DEF Loaded
<1>6. CASE CopyBackupFails(p)
  <2>1. suspect' # {} /\ intact' = intact /\ End(p)
    BY <1>2, <1>6 DEF CopyBackupFails, Touches, files
  <2>2. Quiet'
    BY <1>2, <2>1 DEF Quiet
  <2> QED
    BY <1>2, <2>1, <2>2, QuietEnd
<1> QED
  BY <1>2, <1>4, <1>5, <1>6

LEMMA RestartAgainKeepsX ==
  ASSUME IInv, XInv, NEW p \in Procs, RestartAgain(p) PROVE XInv'
<1>1. pc[p] = "again" /\ pc[p] \in Holding \ {"load"}
  BY DEF RestartAgain, Holding, Steps
<1>2. lock = p /\ intact
  BY <1>1, AtWorkLoaded DEF Loaded
<1>3. XrayAs(config)' /\ intact' = intact /\ End(p)
  <2>1. UNCHANGED <<config, intact>> /\ End(p)
    BY DEF RestartAgain, files
  <2>2. CASE xray' = Running(config)
    BY <2>1, <2>2, RunningAs DEF XrayAs
  <2>3. CASE xray' = Down
    <3>1. ~ xray'.up
      BY <2>3 DEF Down
    <3> QED
      BY <2>1, <3>1 DEF XrayAs
  <2> QED
    BY <2>1, <2>2, <2>3 DEF RestartAgain
<1> QED
  BY <1>2, <1>3, QuietEnd DEF Quiet

\* A kill leaves Xray with the old or the new configuration: the same but for the
\* clients it lists in unloaded.
LEMMA CrashKeepsX == ASSUME IInv, XInv, NEW p \in Procs, Crash(p) PROVE XInv'
<1>1. ProcOK /\ LockOwner /\ UNCHANGED <<config, intact, xray>> /\ End(p)
  BY TypeParts DEF IInv, Crash, files
<1>2. CASE pc[p] = "waiting"
  <2>1. lock # p /\ UNCHANGED <<suspect, unloaded>>
    BY <1>1, <1>2 DEF LockOwner, Holding, Crash
  <2>2. lock' = lock
    BY <1>1, <2>1 DEF End
  <2>3. \A q \in Procs \ {p} : pc'[q] = pc[q] /\ req'[q] = req[q] /\ job'[q] = job[q]
    BY <1>1 DEF ProcOK, End
  <2> QED
    BY <1>1, <2>1, <2>2, <2>3, BesideKeeps
<1>3. CASE pc[p] = "load"
  <2>1. lock = p /\ Quiet /\ UNCHANGED <<suspect, unloaded>>
    BY <1>3, LoadingIsQuiet DEF Crash
  <2>2. Quiet'
    BY <1>1, <2>1 DEF Quiet, XrayAs
  <2> QED
    BY <1>1, <2>1, <2>2, QuietEnd
<1>4. CASE pc[p] \in {"write", "save"}
  <2>1. pc[p] \in Holding \ {"load"} /\ unloaded' = unloaded
    BY <1>4 DEF Holding, Steps, Crash
  <2>2. lock = p /\ intact /\ XrayAs(config)
    BY <1>4, <2>1, AtWorkLoaded DEF Loaded
  <2>3. Quiet'
    BY <1>1, <2>1, <2>2 DEF Quiet, XrayAs
  <2> QED
    BY <1>1, <2>2, <2>3, QuietEnd
<1>5. CASE pc[p] \in {"restart", "switch", "again"}
  <2>1. pc[p] \in Holding \ {"load"} /\ unloaded' = unloaded \union JobChanges(p)
    BY <1>5 DEF Holding, Steps, Crash
  <2>2. /\ lock = p /\ intact /\ config \in {job[p].oldCfg, job[p].cfg}
        /\ XrayAs(job[p].oldCfg) \/ XrayAs(job[p].cfg)
    BY <1>5, <2>1, AtWorkLoaded DEF Loaded, Fresh
  <2>3. \A c \in Clients \ JobChanges(p) :
          /\ job[p].oldCfg.served[c] = job[p].cfg.served[c]
          /\ job[p].oldCfg.route[c] = job[p].cfg.route[c]
    BY DEF JobChanges, Changed
  <2>4. Quiet'
    BY <1>1, <2>1, <2>2, <2>3 DEF Quiet, XrayAs
  <2> QED
    BY <1>1, <2>2, <2>4, QuietEnd
<1>6. CASE pc[p] = "copy"
  <2>1. pc[p] \in Holding \ {"load"} /\ suspect' = suspect \union JobChanges(p)
    BY <1>6 DEF Holding, Steps, Crash
  <2>2. lock = p /\ ~ intact /\ suspect' # {}
    BY <1>6, <2>1, AtWorkLoaded DEF Loaded, JobFits, Touches
  <2>3. Quiet'
    BY <1>1, <2>2 DEF Quiet
  <2> QED
    BY <1>1, <2>2, <2>3, QuietEnd
<1>7. pc[p] \in Steps \ {"idle"}
  BY <1>1 DEF ProcOK, Crash
<1> QED
  BY <1>2, <1>3, <1>4, <1>5, <1>6, <1>7 DEF Steps

\* Xray may end at any moment, and come back with the config.json of that moment.
LEMMA XrayKeepsX == ASSUME IInv, XInv, XrayExits \/ XrayStarts PROVE XInv'
<1>1. UNCHANGED <<lock, pc, req, job, config, intact, suspect>>
  BY DEF XrayExits, XrayStarts, files
<1>2. \A p \in Procs : Touches(p) => Touches(p)'
  BY <1>1, SameJob
<1>3. CASE XrayExits
  <2>1. ~ xray'.up
    BY <1>3 DEF XrayExits, Down
  <2>2. Quiet => Quiet'
    BY <1>1, <2>1 DEF Quiet, XrayAs
  <2>3. \A p \in Procs : Loaded(p) => Loaded(p)'
    BY <1>1, <1>2, <2>1, <2>2 DEF Loaded, XrayAs
  <2> QED
    BY <1>1, <2>2, <2>3 DEF XInv
<1>4. CASE XrayStarts
  <2>1. intact /\ XrayAs(config)'
    BY <1>1, <1>4, RunningAs DEF XrayStarts, XrayAs
  <2>2. Quiet'
    BY <1>1, <2>1 DEF Quiet
  <2>3. ASSUME NEW p \in Procs, lock' = p PROVE Loaded(p)'
    <3>1. lock = p /\ Loaded(p)
      BY <1>1, <2>3 DEF XInv
    <3>2. CASE pc[p] = "load"
      BY <1>1, <2>2, <3>2 DEF Loaded
    <3>3. CASE pc[p] # "load"
      <4>1. pc[p] \in Holding \ {"load"}
        BY <3>1, <3>3 DEF IInv, LockOwner
      <4>2. Fresh(p) /\ Touches(p) /\ pc[p] # "copy"
        BY <2>1, <3>1, <3>3, <4>1, AtWorkLoaded DEF Loaded
      <4>3. XrayAs(job[p].oldCfg)' \/ XrayAs(job[p].cfg)' \/ pc[p] \in {"write", "save"}
        BY <1>1, <2>1, <4>1, <4>2 DEF Fresh, XrayAs, Holding, Steps
      <4> QED
        BY <1>1, <1>2, <2>1, <3>3, <4>2, <4>3 DEF Loaded
    <3> QED
      BY <3>2, <3>3
  <2> QED
    BY <2>2, <2>3 DEF XInv
<1> QED
  BY <1>3, <1>4

LEMMA InitHoldsX == Init => XInv
<1> SUFFICES ASSUME Init PROVE XInv
  OBVIOUS
<1>1. Quiet
  BY DEF Init, Quiet, XrayAs, Running
<1> QED
  BY <1>1, ProcsAssumption DEF Init, XInv

LEMMA StepKeepsX == IInv /\ XInv /\ [Next]_vars => XInv'
<1> SUFFICES ASSUME IInv, XInv, [Next]_vars PROVE XInv'
  OBVIOUS
<1>1. ASSUME NEW p \in Procs, Submit(p) \/ AskTerm(p) \/ LockTimeout(p) PROVE XInv'
  BY <1>1, WaitersKeepX
<1>2. ASSUME NEW p \in Procs, Acquire(p) \/ Refuse(p) \/ Load(p) PROVE XInv'
  BY <1>2, AcquireKeepsX, RefuseKeepsX, LoadKeepsX
<1>3. ASSUME NEW p \in Procs, WriteConfig(p) \/ WriteConfigFails(p) PROVE XInv'
  BY <1>3, WriteKeepsX
<1>4. ASSUME NEW p \in Procs, Restart(p) \/ RestartFails(p) PROVE XInv'
  BY <1>4, RestartKeepsX
<1>5. ASSUME NEW p \in Procs, Switch(p) \/ SwitchFails(p) PROVE XInv'
  BY <1>5, SwitchKeepsX
<1>6. ASSUME NEW p \in Procs, SaveDb(p) \/ SaveDbFails(p) PROVE XInv'
  BY <1>6, SaveKeepsX
<1>7. ASSUME NEW p \in Procs, CopyBackup(p) \/ CopyBackupFails(p) PROVE XInv'
  BY <1>7, CopyKeepsX
<1>8. ASSUME NEW p \in Procs, RestartAgain(p) \/ Crash(p) PROVE XInv'
  BY <1>8, RestartAgainKeepsX, CrashKeepsX
<1>9. CASE XrayExits \/ XrayStarts
  BY <1>9, XrayKeepsX
<1>10. CASE UNCHANGED vars
  <2>1. \A p \in Procs : Touches(p) => Touches(p)'
    BY <1>10, SameJob DEF vars
  <2> QED
    BY <1>10, <2>1 DEF vars, XInv, Quiet, XrayAs, Loaded
<1> QED
  BY <1>1, <1>2, <1>3, <1>4, <1>5, <1>6, <1>7, <1>8, <1>9, <1>10 DEF Next, Progress

-----------------------------------------------------------------------------
(***************************************************************************)
(* The refinement of ClientRegistry.  A holder's candidate is one that its *)
(* command may decide on from the stores it loaded; Settled is the         *)
(* config.json it loaded until it commits or is cut.                       *)
(***************************************************************************)
\* An add that asks is the add of the registry, once the lock is held.
Plain(r) == [r EXCEPT !.saw = "unasked"]

Computed(p) ==
  \E k \in Candidates(req[p], job[p].oldCfg, job[p].oldDb) :
    job[p].kind = k.kind /\ job[p].cfg = k.cfg /\ job[p].db = k.db

RInv ==
  \A p \in Procs :
    /\ req[p] # NoRequest => Plain(req[p]) \in Commands
    /\ pc[p] \in Holding \ {"load"} => Computed(p)

\* The instance has operators of its own for what ClientOps defines.
LEMMA SameChanged ==
  \A c1, d1, c2, d2 : Registry!Changed(c1, d1, c2, d2) = Changed(c1, d1, c2, d2)
  BY DEF Registry!Changed, Changed

LEMMA SameCommands == Registry!Commands = Commands
  BY DEF Registry!Commands, Commands, Registry!Requests, Requests, Registry!Ops, Ops,
         Registry!Cardinality, Cardinality

LEMMA SameCandidates ==
  \A r, c, d : Registry!Candidates(r, c, d) = Candidates(r, c, d)
  BY DEF Registry!Candidates, Candidates,
         Registry!SyncCandidates, SyncCandidates, Registry!RouteCandidates, RouteCandidates,
         Registry!PolicyCandidates, PolicyCandidates,
         Registry!CommandCandidates, CommandCandidates,
         Registry!RulesFor, RulesFor, Registry!ApplyCandidate, ApplyCandidate,
         Registry!Candidate, Candidate, Registry!ViewOf, ViewOf, Registry!WithView, WithView,
         Registry!Adopt, Adopt, Registry!First, First, Registry!Absent, Absent,
         Registry!Due, Due, Registry!Reset, Reset, Registry!PolicyView, PolicyView,
         Registry!PolicyOff, PolicyOff, Registry!PolicyOn, PolicyOn,
         Registry!PolicyCandidate, PolicyCandidate, Registry!NeedsRestart, NeedsRestart,
         Registry!ViewsAfter, ViewsAfter, Registry!AddViews, AddViews,
         Registry!RemoveViews, RemoveViews, Registry!DisableViews, DisableViews,
         Registry!EnableViews, EnableViews, Registry!AccessViews, AccessViews,
         Registry!MoveViews, MoveViews, Registry!NoteViews, NoteViews,
         Registry!Selected, Selected, Registry!Cardinality, Cardinality

\* What an add read before the lock is no part of what it computes under it.
LEMMA PlainSame ==
  ASSUME NEW r \in Requests
  PROVE  /\ Plain(r) \in Requests /\ Plain(r).op = r.op /\ Plain(r).client = r.client
         /\ \A c, d : Candidates(Plain(r), c, d) = Candidates(r, c, d)
<1> DEFINE q == Plain(r)
<1>1. /\ q \in Requests /\ q.op = r.op /\ q.client = r.client /\ q.conns = r.conns
      /\ q.route = r.route
  BY DEF Plain, Requests
<1> HIDE DEF q
<1>2. \A v : ViewsAfter(q, v) = ViewsAfter(r, v)
  BY <1>1, Zenon DEF ViewsAfter
<1>3. \A v, w : NeedsRestart(q, v, w) <=> NeedsRestart(r, v, w)
  BY <1>1 DEF NeedsRestart
<1>4. ASSUME NEW c, NEW d PROVE CommandCandidates(q, c, d) = CommandCandidates(r, c, d)
  BY <1>1, <1>2, <1>3 DEF CommandCandidates
<1>5. ASSUME NEW c, NEW d PROVE RouteCandidates(q, c, d) = RouteCandidates(r, c, d)
  BY <1>1, Zenon DEF RouteCandidates
<1>6. ASSUME NEW c, NEW d PROVE Candidates(q, c, d) = Candidates(r, c, d)
  BY <1>1, <1>4, <1>5, Zenon DEF Candidates
<1> QED
  BY <1>1, <1>6 DEF q

LEMMA NoRequestIsNone == NoRequest \notin Requests
<1>1. ASSUME NEW r \in Requests, r = NoRequest PROVE FALSE
  <2>1. r.op \in Ops
    BY DEF Requests
  <2>2. r.op = "none"
    BY <1>1 DEF NoRequest
  <2> QED
    BY <2>1, <2>2 DEF Ops
<1> QED
  BY <1>1

\* Both kinds of beginning bring a command line.
LEMMA PlainCommands ==
  /\ \A r \in Commands : Plain(r) \in Commands
  /\ \A c \in Clients, x \in Conns :
       Plain(Command("add", c, {x}, DefaultRoute, SeenNow(config, db, c))) \in Commands
<1>1. ASSUME NEW r \in Commands PROVE Plain(r) \in Commands
  <2>1. r \in Requests /\ r.saw = "unasked"
    BY DEF Commands
  <2>2. Plain(r) = r
    BY <2>1 DEF Plain, Requests
  <2> QED
    BY <2>2
<1>2. ASSUME NEW c \in Clients, NEW x \in Conns
      PROVE  Plain(Command("add", c, {x}, DefaultRoute, SeenNow(config, db, c))) \in Commands
  <2> DEFINE q == Plain(Command("add", c, {x}, DefaultRoute, SeenNow(config, db, c)))
  <2>1. /\ q = [op |-> "add", client |-> c, conns |-> {x}, route |-> DefaultRoute,
                saw |-> "unasked"]
    BY DEF Plain, Command
  <2>2. Cardinality({x}) = 1
    BY FS_Singleton
  <2>3. q \in Requests
    BY <2>1, RoutesAssumption DEF Requests, Ops
  <2>4. q.op = "add" /\ q.conns = {x} /\ q.saw = "unasked" /\ q.route = DefaultRoute
    BY <2>1
  <2> HIDE DEF q
  <2>5. Cardinality(q.conns) \in
          (CASE q.op \in {"add", "move"} -> {1} [] q.op \in {"disable", "enable"} -> {0, 1}
             [] OTHER -> {0})
    BY <2>2, <2>4
  <2>6. q \in Commands
    BY <2>3, <2>4, <2>5 DEF Commands
  <2> QED
    BY <2>6 DEF q
<1> QED
  BY <1>1, <1>2

\* A process that begins no command and computes no candidate.
LEMMA RKept ==
  ASSUME RInv,
         \A q \in Procs : req'[q] \in {req[q], NoRequest},
         \A q \in Procs : pc'[q] \in Holding \ {"load"} =>
           pc[q] \in Holding \ {"load"} /\ req'[q] = req[q] /\ job'[q] = job[q]
  PROVE  RInv'
<1>1. ASSUME NEW q \in Procs, pc'[q] \in Holding \ {"load"} PROVE Computed(q)'
  <2>1. Computed(q) /\ req'[q] = req[q] /\ job'[q] = job[q]
    BY <1>1 DEF RInv
  <2> QED
    BY <2>1 DEF Computed
<1>2. ASSUME NEW q \in Procs, req'[q] # NoRequest PROVE Plain(req'[q]) \in Commands
  BY <1>2 DEF RInv
<1> QED
  BY <1>1, <1>2 DEF RInv

LEMMA StepKeepsR == ASSUME IInv, RInv, [Next]_vars PROVE RInv'
<1>1. ProcOK
  BY TypeParts DEF IInv
<1>2. ASSUME NEW p \in Procs, End(p) PROVE RInv'
  <2>1. \A q \in Procs \ {p} : pc'[q] = pc[q] /\ req'[q] = req[q] /\ job'[q] = job[q]
    BY <1>1, <1>2 DEF End, ProcOK
  <2>2. pc'[p] = "idle" /\ req'[p] = NoRequest
    BY <1>1, <1>2 DEF End, ProcOK
  <2> QED
    BY <2>1, <2>2, RKept DEF Holding
<1>3. ASSUME NEW p \in Procs, NEW s \in Steps, Goto(p, s), UNCHANGED <<req, job>>,
             s \in Holding \ {"load"} => pc[p] \in Holding \ {"load"}
      PROVE  RInv'
  <2>1. \A q \in Procs \ {p} : pc'[q] = pc[q]
    BY <1>1, <1>3 DEF Goto, ProcOK
  <2>2. pc'[p] = s
    BY <1>1, <1>3 DEF Goto, ProcOK
  <2> QED
    BY <1>3, <2>1, <2>2, RKept
<1>4. ASSUME NEW p \in Procs, NEW r, NEW s \in {"waiting", "load"}, Goto(p, s), UNCHANGED job,
             req' = [req EXCEPT ![p] = r], r # NoRequest => Plain(r) \in Commands
      PROVE  RInv'
  <2>1. \A q \in Procs \ {p} : pc'[q] = pc[q] /\ req'[q] = req[q] /\ job'[q] = job[q]
    BY <1>1, <1>4 DEF Goto, ProcOK
  <2>2. pc'[p] = s /\ req'[p] = r
    BY <1>1, <1>4 DEF Goto, ProcOK
  <2>3. ASSUME NEW q \in Procs, pc'[q] \in Holding \ {"load"} PROVE Computed(q)'
    <3>1. q # p
      BY <2>2, <2>3 DEF Holding
    <3>2. Computed(q)
      BY <2>1, <2>3, <3>1 DEF RInv
    <3> QED
      BY <2>1, <3>1, <3>2 DEF Computed
  <2>4. ASSUME NEW q \in Procs, req'[q] # NoRequest PROVE Plain(req'[q]) \in Commands
    <3>1. CASE q = p
      BY <1>4, <2>2, <2>4, <3>1
    <3>2. CASE q # p
      BY <2>1, <2>4, <3>2 DEF RInv
    <3> QED
      BY <3>1, <3>2
  <2> QED
    BY <2>3, <2>4 DEF RInv
<1>5. ASSUME NEW p \in Procs, Submit(p) PROVE RInv'
  <2>1. "waiting" \in Steps \ Holding
    BY DEF Holding, Steps
  <2> QED
    BY <1>3, <1>5, <2>1 DEF Submit
<1>6. ASSUME NEW p \in Procs, AskTerm(p) PROVE RInv'
  BY <1>4, <1>6, PlainCommands DEF AskTerm
<1>7. ASSUME NEW p \in Procs, Acquire(p) PROVE RInv'
  <2>1. CASE req[p] = NoRequest
    <3>1. PICK r \in Commands : req' = [req EXCEPT ![p] = r]
      BY <1>7, <2>1 DEF Acquire
    <3> QED
      BY <1>4, <1>7, <3>1, PlainCommands DEF Acquire
  <2>2. CASE req[p] # NoRequest
    <3>1. req' = [req EXCEPT ![p] = req[p]]
      BY <1>1, <1>7, <2>2 DEF Acquire, ProcOK
    <3>2. Plain(req[p]) \in Commands
      BY <2>2 DEF RInv
    <3> QED
      BY <1>4, <1>7, <3>1, <3>2 DEF Acquire
  <2> QED
    BY <2>1, <2>2
<1>8. ASSUME NEW p \in Procs, Load(p) PROVE RInv'
  <2>1. PICK k \in Candidates(req[p], config, db) :
          /\ job' = [job EXCEPT ![p] =
               [kind |-> k.kind, oldCfg |-> config, oldDb |-> db, cfg |-> k.cfg, db |-> k.db]]
          /\ Goto(p, IF k.kind = "db" THEN "save" ELSE "write")
    BY <1>8 DEF Load
  <2>2. req' = req
    BY <1>8 DEF Load
  <2>3. \A q \in Procs \ {p} : pc'[q] = pc[q] /\ job'[q] = job[q]
    BY <1>1, <2>1 DEF Goto, ProcOK
  <2>4. /\ job'[p].kind = k.kind /\ job'[p].oldCfg = config /\ job'[p].oldDb = db
        /\ job'[p].cfg = k.cfg /\ job'[p].db = k.db
    BY <1>1, <2>1 DEF ProcOK
  <2>5. Computed(p)'
    BY <2>2, <2>4 DEF Computed
  <2>6. \A q \in Procs : pc'[q] \in Holding \ {"load"} => Computed(q)'
    BY <2>2, <2>3, <2>5 DEF RInv, Computed
  <2> QED
    BY <2>2, <2>6 DEF RInv
<1>9. ASSUME NEW p \in Procs,
             \/ WriteConfig(p) \/ Restart(p) \/ RestartFails(p) \/ Switch(p) \/ SwitchFails(p)
      PROVE  RInv'
  <2>1. PICK s \in {"restart", "switch", "save", "copy"} : Goto(p, s)
    BY <1>9 DEF WriteConfig, Restart, RestartFails, Switch, SwitchFails
  <2>2. UNCHANGED <<req, job>> /\ pc[p] \in {"write", "restart", "switch"}
    BY <1>9 DEF WriteConfig, Restart, RestartFails, Switch, SwitchFails
  <2>3. s \in Steps /\ pc[p] \in Holding \ {"load"}
    BY <2>2 DEF Holding, Steps
  <2> QED
    BY <1>3, <2>1, <2>2, <2>3
<1>10. ASSUME NEW p \in Procs, SaveDbFails(p) \/ CopyBackup(p) PROVE RInv'
  <2>1. End(p) \/ (\E s \in {"copy", "again"} : Goto(p, s) /\ UNCHANGED <<req, job>>)
    <3>1. CASE SaveDbFails(p)
      <4>1. pc[p] \in Holding \ {"load"}
        BY <3>1 DEF SaveDbFails, Holding, Steps
      <4>2. job[p].kind \in {"apply", "db", "route"}
        BY <4>1, AtWork
      <4> QED
        BY <3>1, <4>2 DEF SaveDbFails
    <3>2. CASE CopyBackup(p)
      BY <3>2 DEF CopyBackup
    <3> QED
      BY <1>10, <3>1, <3>2
  <2>2. pc[p] \in Holding \ {"load"} /\ {"copy", "again"} \subseteq Steps
    BY <1>10 DEF SaveDbFails, CopyBackup, Holding, Steps
  <2> QED
    BY <1>2, <1>3, <2>1, <2>2
<1>11. ASSUME NEW p \in Procs,
              \/ LockTimeout(p) \/ Refuse(p) \/ WriteConfigFails(p) \/ SaveDb(p)
              \/ CopyBackupFails(p) \/ RestartAgain(p) \/ Crash(p)
       PROVE  RInv'
  BY <1>2, <1>11 DEF LockTimeout, Refuse, WriteConfigFails, SaveDb, CopyBackupFails,
     RestartAgain, Crash
<1>12. CASE XrayExits \/ XrayStarts \/ UNCHANGED vars
  BY <1>12, RKept DEF XrayExits, XrayStarts, vars
<1> QED
  BY <1>5, <1>6, <1>7, <1>8, <1>9, <1>10, <1>11, <1>12 DEF Next, Progress

LEMMA InitHoldsR == Init => RInv
  BY DEF Init, RInv, Holding

\* A process between its rename of config.json and its commit or its rollback.
InDoubt(p) ==
  \/ pc[p] \in {"restart", "switch", "copy"}
  \/ pc[p] = "save" /\ job[p].kind # "db"

LEMMA SettledNow ==
  ASSUME IInv
  PROVE  /\ (\A p \in Procs : ~ InDoubt(p)) => Settled = config
         /\ \A p \in Procs : InDoubt(p) => Settled = job[p].oldCfg
<1> DEFINE open == {p \in Procs : InDoubt(p)}
<1>1. Settled = IF open = {} THEN config ELSE job[CHOOSE p \in open : TRUE].oldCfg
  BY DEF Settled, InDoubt
<1>2. \A p \in open : lock = p
  BY DEF IInv, LockOwner, InDoubt, Holding, Steps
<1>3. \A p \in open : (CHOOSE q \in open : TRUE) = p
  BY <1>2
<1> QED
  BY <1>1, <1>3

LEMMA SettledNext ==
  ASSUME IInv'
  PROVE  /\ (\A p \in Procs : ~ InDoubt(p)') => Settled' = config'
         /\ \A p \in Procs : InDoubt(p)' => Settled' = job'[p].oldCfg
<1> DEFINE open == {p \in Procs : InDoubt(p)'}
<1>1. Settled' = IF open = {} THEN config' ELSE job'[CHOOSE p \in open : TRUE].oldCfg
  BY DEF Settled, InDoubt
<1>2. \A p \in open : lock' = p
  BY DEF IInv, LockOwner, InDoubt, Holding, Steps
<1>3. \A p \in open : (CHOOSE q \in open : TRUE) = p
  BY <1>2
<1> QED
  BY <1>1, <1>3

\* A step that leaves the processes in doubt as they are.
LEMMA SameDoubt ==
  ASSUME IInv, IInv', config' = config,
         \A q \in Procs : InDoubt(q)' <=> InDoubt(q),
         \A q \in Procs : InDoubt(q) => job'[q].oldCfg = job[q].oldCfg
  PROVE  Settled' = Settled
<1>1. CASE \E q \in Procs : InDoubt(q)
  BY <1>1, SettledNow, SettledNext
<1>2. CASE \A q \in Procs : ~ InDoubt(q)
  BY <1>2, SettledNow, SettledNext
<1> QED
  BY <1>1, <1>2

\* Only the holder of the lock can be in doubt.
LEMMA HolderDoubts ==
  ASSUME IInv, NEW p \in Procs, pc[p] \in Holding, NEW q \in Procs, q # p
  PROVE  ~ InDoubt(q) /\ pc[q] \notin Holding
  BY DEF IInv, LockOwner, InDoubt, Holding, Steps

\* A process that ends is not in doubt, and the others are as they were.
LEMMA EndedDoubts ==
  ASSUME IInv, NEW p \in Procs, End(p)
  PROVE  /\ ~ InDoubt(p)'
         /\ \A q \in Procs \ {p} : (InDoubt(q)' <=> InDoubt(q)) /\ job'[q] = job[q]
<1>1. ProcOK
  BY TypeParts DEF IInv
<1> QED
  BY <1>1 DEF End, ProcOK, InDoubt

\* So is a process that goes on with its job.
LEMMA MovedDoubts ==
  ASSUME IInv, NEW p \in Procs, NEW s \in Steps, Goto(p, s), job' = job
  PROVE  /\ InDoubt(p)' <=> \/ s \in {"restart", "switch", "copy"}
                            \/ s = "save" /\ job[p].kind # "db"
         /\ \A q \in Procs \ {p} : InDoubt(q)' <=> InDoubt(q)
<1>1. ProcOK
  BY TypeParts DEF IInv
<1> QED
  BY <1>1 DEF Goto, ProcOK, InDoubt

Still == UNCHANGED <<Settled, db, suspect>>

\* The end of a process that was not in doubt is no step of the registry.
LEMMA EndIsStill ==
  ASSUME IInv, IInv', NEW p \in Procs, End(p), ~ InDoubt(p), UNCHANGED <<config, db, suspect>>
  PROVE  Still
  BY EndedDoubts, SameDoubt DEF Still

\* Nor is the step of a process that stays in doubt, or stays out of it.
LEMMA MoveIsStill ==
  ASSUME IInv, IInv', NEW p \in Procs, NEW s \in Steps, Goto(p, s),
         UNCHANGED <<job, config, db, suspect>>,
         InDoubt(p) <=> \/ s \in {"restart", "switch", "copy"}
                        \/ s = "save" /\ job[p].kind # "db"
  PROVE  Still
  BY MovedDoubts, SameDoubt DEF Still

LEMMA WaitersStill ==
  ASSUME IInv, IInv', NEW p \in Procs,
         Submit(p) \/ AskTerm(p) \/ Acquire(p) \/ LockTimeout(p) \/ Refuse(p) \/ WriteConfigFails(p)
  PROVE  Still
<1>1. ~ InDoubt(p)
  BY DEF Submit, AskTerm, Acquire, LockTimeout, Refuse, WriteConfigFails, InDoubt
<1>2. {"waiting", "load"} \subseteq Steps
  BY DEF Steps
<1>3. CASE Submit(p) \/ AskTerm(p) \/ Acquire(p)
  BY <1>1, <1>2, <1>3, MoveIsStill DEF Submit, AskTerm, Acquire, files
<1>4. CASE LockTimeout(p) \/ Refuse(p) \/ WriteConfigFails(p)
  BY <1>1, <1>4, EndIsStill DEF LockTimeout, Refuse, WriteConfigFails, files
<1> QED
  BY <1>3, <1>4

LEMMA LoadStill == ASSUME IInv, IInv', NEW p \in Procs, Load(p) PROVE Still
<1>1. ProcOK /\ pc[p] \in Holding
  BY TypeParts DEF IInv, Load, Holding, Steps
<1>2. PICK k \in Candidates(req[p], config, db) :
        /\ job' = [job EXCEPT ![p] =
             [kind |-> k.kind, oldCfg |-> config, oldDb |-> db, cfg |-> k.cfg, db |-> k.db]]
        /\ Goto(p, IF k.kind = "db" THEN "save" ELSE "write")
  BY DEF Load
<1>3. pc'[p] = (IF k.kind = "db" THEN "save" ELSE "write") /\ job'[p].kind = k.kind
  BY <1>1, <1>2 DEF Goto, ProcOK
<1>4. ~ InDoubt(p)' /\ ~ InDoubt(p)
  BY <1>3 DEF InDoubt, Load
<1>5. ASSUME NEW q \in Procs \ {p} PROVE (InDoubt(q)' <=> InDoubt(q)) /\ job'[q] = job[q]
  BY <1>1, <1>2 DEF Goto, ProcOK, InDoubt
<1> QED
  BY <1>4, <1>5, SameDoubt DEF Still, Load, files

\* The rename of config.json: its author is in doubt from then on.
LEMMA WriteStill == ASSUME IInv, IInv', NEW p \in Procs, WriteConfig(p) PROVE Still
<1>1. pc[p] \in Holding \ {"load"} /\ {"restart", "switch"} \subseteq Steps
  BY DEF WriteConfig, Holding, Steps
<1>2. config = job[p].oldCfg
  BY <1>1, AtWork DEF Fresh, WriteConfig
<1>3. ~ InDoubt(p) /\ \A q \in Procs \ {p} : ~ InDoubt(q)
  BY <1>1, HolderDoubts DEF WriteConfig, InDoubt
<1>4. InDoubt(p)'
  BY <1>1, MovedDoubts DEF WriteConfig
<1> QED
  BY <1>2, <1>3, <1>4, SettledNow, SettledNext DEF Still, WriteConfig

\* Restarts and switches decide nothing.
LEMMA RestartStill ==
  ASSUME IInv, IInv', NEW p \in Procs,
         Restart(p) \/ RestartFails(p) \/ Switch(p) \/ SwitchFails(p)
  PROVE  Still
<1>1. pc[p] \in Holding \ {"load"} /\ {"save", "copy"} \subseteq Steps
  BY DEF Restart, RestartFails, Switch, SwitchFails, Holding, Steps
<1>2. InDoubt(p) /\ job[p].kind # "db"
  BY <1>1, AtWork DEF JobFits, InDoubt, Restart, RestartFails, Switch, SwitchFails
<1> QED
  BY <1>1, <1>2, MoveIsStill DEF Restart, RestartFails, Switch, SwitchFails, files

\* The rollback: config.json is again the file the command loaded.
LEMMA CopyStill == ASSUME IInv, IInv', NEW p \in Procs, CopyBackup(p) PROVE Still
<1>1. pc[p] \in Holding \ {"load"} /\ "again" \in Steps /\ InDoubt(p)
  BY DEF CopyBackup, Holding, Steps, InDoubt
<1>2. \A q \in Procs \ {p} : ~ InDoubt(q)
  BY <1>1, HolderDoubts
<1>3. ~ InDoubt(p)' /\ \A q \in Procs \ {p} : ~ InDoubt(q)'
  <2>1. CASE job[p].kind = "route"
    BY <1>2, <2>1, EndedDoubts DEF CopyBackup
  <2>2. CASE job[p].kind # "route"
    BY <1>1, <1>2, <2>2, MovedDoubts DEF CopyBackup
  <2> QED
    BY <2>1, <2>2
<1> QED
  BY <1>1, <1>3, SettledNow, SettledNext DEF Still, CopyBackup

LEMMA RestartAgainStill == ASSUME IInv, IInv', NEW p \in Procs, RestartAgain(p) PROVE Still
  BY EndIsStill DEF RestartAgain, InDoubt, files

LEMMA XrayStill ==
  ASSUME IInv, IInv', XrayExits \/ XrayStarts \/ UNCHANGED vars PROVE Still
  BY SameDoubt DEF Still, XrayExits, XrayStarts, vars, files, InDoubt

\* What a process at work may decide on is what the registry may, now.
LEMMA Decided ==
  ASSUME IInv, RInv, NEW p \in Procs, pc[p] \in Holding \ {"load"},
         InDoubt(p) \/ pc[p] = "save"
  PROVE  /\ Plain(req[p]) \in Registry!Commands
         /\ Plain(req[p]).op = req[p].op /\ Plain(req[p]).client = req[p].client
         /\ \E k \in Registry!Candidates(Plain(req[p]), Settled, db) :
              job[p].kind = k.kind /\ job[p].cfg = k.cfg /\ job[p].db = k.db
<1>1. /\ Fresh(p) /\ JobFits(p) /\ req[p] \in Requests
  BY AtWork
<1>2. Settled = job[p].oldCfg
  <2>1. CASE InDoubt(p)
    BY <2>1, SettledNow
  <2>2. CASE ~ InDoubt(p)
    <3>1. pc[p] = "save" /\ job[p].kind = "db" /\ config = job[p].cfg
      BY <1>1, <2>2 DEF InDoubt, Fresh
    <3>2. Settled = config
      BY <2>2, HolderDoubts, SettledNow
    <3> QED
      BY <1>1, <3>1, <3>2 DEF JobFits
  <2> QED
    BY <2>1, <2>2
<1>3. db = job[p].oldDb
  BY <1>1 DEF Fresh
<1>4. Plain(req[p]) \in Commands /\ Computed(p)
  BY <1>1, NoRequestIsNone DEF RInv
<1>5. /\ Plain(req[p]).op = req[p].op /\ Plain(req[p]).client = req[p].client
      /\ Candidates(Plain(req[p]), Settled, db) = Candidates(req[p], job[p].oldCfg, job[p].oldDb)
  BY <1>1, <1>2, <1>3, PlainSame
<1>6. Registry!Candidates(Plain(req[p]), Settled, db)
        = Candidates(req[p], job[p].oldCfg, job[p].oldDb)
  BY <1>5, SameCandidates
<1> QED
  BY <1>4, <1>5, <1>6, SameCommands DEF Computed

\* The commit executes the command on both stores at once.
LEMMA CommitExecutes ==
  ASSUME IInv, IInv', RInv, NEW p \in Procs, SaveDb(p)
  PROVE  \E r \in Registry!Commands : Registry!Execute(r)
<1>1. pc[p] \in Holding \ {"load"} /\ pc[p] = "save" /\ End(p)
  BY DEF SaveDb, Holding, Steps
<1>2. config = job[p].cfg /\ db' = job[p].db
  BY <1>1, AtWork, CommitIsCandidate DEF SaveDb, Fresh
<1>3. Settled' = job[p].cfg
  <2>1. \A q \in Procs : ~ InDoubt(q)'
    BY <1>1, EndedDoubts, HolderDoubts
  <2> QED
    BY <1>2, <2>1, SettledNext DEF SaveDb
<1>4. PICK k \in Registry!Candidates(Plain(req[p]), Settled, db) :
        job[p].kind = k.kind /\ job[p].cfg = k.cfg /\ job[p].db = k.db
  BY <1>1, Decided
<1>5. /\ Plain(req[p]) \in Registry!Commands
      /\ Plain(req[p]).op = req[p].op /\ Plain(req[p]).client = req[p].client
  BY <1>1, Decided
<1>6. suspect' = IF Plain(req[p]).op = "remove" THEN suspect \ {Plain(req[p]).client} ELSE suspect
  BY <1>5 DEF SaveDb
<1>7. Registry!Execute(Plain(req[p]))
  BY <1>2, <1>3, <1>4, <1>6 DEF Registry!Execute
<1> QED
  BY <1>5, <1>7

\* A command cut in doubt leaves its candidate in config.json alone.
LEMMA CutTears ==
  ASSUME IInv, IInv', RInv, NEW p \in Procs, InDoubt(p), End(p),
         UNCHANGED <<config, db>>, suspect' = suspect \union JobChanges(p)
  PROVE  \E r \in Registry!Commands : Registry!Tear(r)
<1>1. pc[p] \in Holding \ {"load"}
  BY DEF InDoubt, Holding, Steps
<1>2. /\ config = job[p].cfg /\ db = job[p].oldDb
      /\ job[p].kind # "db"
  BY <1>1, AtWork DEF Fresh, JobFits, InDoubt
<1>3. Settled = job[p].oldCfg
  BY SettledNow
<1>4. Settled' = job[p].cfg
  <2>1. \A q \in Procs : ~ InDoubt(q)'
    BY <1>1, EndedDoubts, HolderDoubts
  <2> QED
    BY <1>2, <2>1, SettledNext
<1>5. PICK k \in Registry!Candidates(Plain(req[p]), Settled, db) :
        job[p].kind = k.kind /\ job[p].cfg = k.cfg /\ job[p].db = k.db
  BY <1>1, Decided
<1>6. Plain(req[p]) \in Registry!Commands
  BY <1>1, Decided
<1>7. JobChanges(p) = Registry!Changed(Settled, db, k.cfg, k.db)
  BY <1>2, <1>3, <1>5, SameChanged DEF JobChanges
<1>8. Registry!Tear(Plain(req[p]))
  BY <1>2, <1>4, <1>5, <1>7 DEF Registry!Tear
<1> QED
  BY <1>6, <1>8

LEMMA SaveDbFailsTears ==
  ASSUME IInv, IInv', RInv, NEW p \in Procs, SaveDbFails(p)
  PROVE  Still \/ \E r \in Registry!Commands : Registry!Tear(r)
<1>1. /\ pc[p] \in Holding \ {"load"} /\ pc[p] = "save" /\ "copy" \in Steps
      /\ job[p].kind \in {"apply", "db", "route"}
  BY AtWork DEF SaveDbFails, Holding, Steps
<1>2. CASE job[p].kind = "apply"
  BY <1>1, <1>2, MoveIsStill DEF SaveDbFails, InDoubt
<1>3. CASE job[p].kind = "route"
  BY <1>1, <1>3, CutTears DEF SaveDbFails, InDoubt
<1>4. CASE job[p].kind = "db"
  BY <1>1, <1>4, EndIsStill DEF SaveDbFails, InDoubt
<1> QED
  BY <1>1, <1>2, <1>3, <1>4

LEMMA CopyFailsTears ==
  ASSUME IInv, IInv', RInv, NEW p \in Procs, CopyBackupFails(p)
  PROVE  \E r \in Registry!Commands : Registry!Tear(r)
  BY CutTears DEF CopyBackupFails, InDoubt, files

LEMMA CrashTears ==
  ASSUME IInv, IInv', RInv, NEW p \in Procs, Crash(p)
  PROVE  Still \/ \E r \in Registry!Commands : Registry!Tear(r)
<1>1. CASE InDoubt(p)
  BY <1>1, CutTears DEF Crash, InDoubt, files
<1>2. CASE ~ InDoubt(p)
  BY <1>2, EndIsStill DEF Crash, InDoubt, files
<1> QED
  BY <1>1, <1>2

LEMMA StepRefines ==
  ASSUME IInv, IInv', RInv, [Next]_vars
  PROVE  Still \/ \E r \in Registry!Commands : Registry!Execute(r) \/ Registry!Tear(r)
<1> DEFINE Visible == \E r \in Registry!Commands : Registry!Execute(r) \/ Registry!Tear(r)
<1>1. ASSUME NEW p \in Procs,
             Submit(p) \/ AskTerm(p) \/ Acquire(p) \/ LockTimeout(p) \/ Refuse(p)
               \/ WriteConfigFails(p) \/ Load(p) \/ WriteConfig(p)
      PROVE  Still
  BY <1>1, WaitersStill, LoadStill, WriteStill
<1>2. ASSUME NEW p \in Procs,
             Restart(p) \/ RestartFails(p) \/ Switch(p) \/ SwitchFails(p) \/ CopyBackup(p)
               \/ RestartAgain(p)
      PROVE  Still
  BY <1>2, RestartStill, CopyStill, RestartAgainStill
<1>3. ASSUME NEW p \in Procs, SaveDb(p) PROVE Visible
  BY <1>3, CommitExecutes
<1>4. ASSUME NEW p \in Procs, SaveDbFails(p) \/ CopyBackupFails(p) \/ Crash(p)
      PROVE  Still \/ Visible
  BY <1>4, SaveDbFailsTears, CopyFailsTears, CrashTears
<1>5. ASSUME XrayExits \/ XrayStarts \/ UNCHANGED vars PROVE Still
  BY <1>5, XrayStill
<1>6. Still \/ Visible
  <2> HIDE DEF Visible
  <2> QED
    BY <1>1, <1>2, <1>3, <1>4, <1>5 DEF Next, Progress
<1> QED
  BY <1>6

-----------------------------------------------------------------------------
(***************************************************************************)
(* The theorems.                                                           *)
(***************************************************************************)

\* Type correctness of ClientApply: the rows of manager.db stay well formed (only
\* stored credentials are enabled, only a row selects a route) whatever is torn.
THEOREM TypeCorrect == Spec => []TypeOK
<1>1. IInv => TypeOK
  BY DEF IInv
<1> QED
  BY <1>1, Inductive, PTL

\* No client command works on stores another one changed after it loaded them, nor with
\* a term that was asked for before they changed.
THEOREM NoLostUpdate == Spec => []SnapshotFresh
<1>1. IInv => SnapshotFresh
  <2> SUFFICES ASSUME IInv, NEW p \in Procs
      PROVE  /\ pc[p] \in Holding \ {"load"} => Asked(p)
             /\ pc[p] \in Holding \ {"load"} => db = job[p].oldDb
             /\ pc[p] \in {"write", "again"} => config = job[p].oldCfg
             /\ pc[p] \in {"restart", "switch", "save", "copy"} => config = job[p].cfg
    BY DEF SnapshotFresh
  <2>1. pc[p] \in Holding \ {"load"} => Fresh(p)
    BY DEF IInv, InHand
  <2> QED
    BY <2>1 DEF Fresh, Holding, Steps
<1> QED
  BY <1>1, Inductive, PTL

\* Between client commands config.json and manager.db agree on every client that
\* no torn command meant to change.
THEOREM StoresAlwaysAgree == Spec => []StoresAgree
<1>1. IInv => StoresAgree
  BY DEF IInv, StoresAgree, Agreed
<1> QED
  BY <1>1, Inductive, PTL

\* The ConflictError of the row writer cannot be raised between client commands: a
\* commit always finds the rows it loaded.
THEOREM CommitNeverConflicts ==
  Spec => [](\A p \in Procs : pc[p] = "save" => NoConflict(p))
<1>1. IInv => \A p \in Procs : pc[p] = "save" => NoConflict(p)
  <2> SUFFICES ASSUME IInv, NEW p \in Procs, pc[p] = "save" PROVE NoConflict(p)
    OBVIOUS
  <2>1. pc[p] \in Holding \ {"load"}
    BY DEF Holding, Steps
  <2> QED
    BY <2>1, AtWork, CommitIsCandidate DEF Fresh
<1> QED
  BY <1>1, Inductive, PTL

\* manager.db never runs ahead of config.json: a commit that changes who is enabled
\* finds config.json already serving exactly those credentials.
THEOREM CommitsFollow == Spec => CommitFollowsConfig
<1> DEFINE Follows == \A c \in Clients \ suspect :
                        db'.on[c] # db.on[c] => config.served[c] = db'.on[c]
<1>1. ASSUME NEW p \in Procs, IInv, SaveDb(p) PROVE Follows
  <2>1. pc[p] \in Holding \ {"load"} /\ pc[p] = "save"
    BY <1>1 DEF SaveDb, Holding, Steps
  <2>2. config = job[p].cfg /\ BothAgree(p) /\ db' = job[p].db
    BY <1>1, <2>1, AtWork, CommitIsCandidate DEF SaveDb, Fresh
  <2> QED
    BY <2>2 DEF BothAgree, AgreeIn
<1>2. ASSUME NEW p \in Procs, Progress(p), ~ SaveDb(p) PROVE db' = db
  BY <1>2 DEF Progress, Acquire, LockTimeout, Refuse, Load, WriteConfig, WriteConfigFails,
       Restart, RestartFails, Switch, SwitchFails, SaveDbFails, CopyBackup,
       CopyBackupFails, RestartAgain, files
<1>3. ASSUME NEW p \in Procs, Submit(p) \/ AskTerm(p) \/ Crash(p) PROVE db' = db
  BY <1>3 DEF Submit, AskTerm, Crash, files
<1>4. ASSUME XrayExits \/ XrayStarts \/ UNCHANGED vars PROVE db' = db
  BY <1>4 DEF XrayExits, XrayStarts, vars, files
<1>5. IInv /\ [Next]_vars => [Follows]_vars
  BY <1>1, <1>2, <1>3, <1>4 DEF Next
<1> QED
  BY <1>5, Inductive, PTL DEF Spec, CommitFollowsConfig

\* Between client commands a running Xray has loaded config.json, but for a switch of
\* unknown outcome or a command killed before its restart; and config.json is half a
\* file only after a rollback that was cut, whose clients are then in suspect.
THEOREM XrayKeepsUp == Spec => []XrayFollowsConfig
<1>1. Init => XInv
  BY InitHoldsX
<1>2. IInv /\ XInv /\ [Next]_vars => XInv'
  BY StepKeepsX
<1>3. XInv => XrayFollowsConfig
  BY DEF XInv, Quiet, XrayAs, XrayFollowsConfig
<1> QED
  BY <1>1, <1>2, <1>3, Inductive, PTL DEF Spec

\* The transaction implements ClientRegistry: whatever the processes do and wherever
\* they are killed, the client commands take effect one at a time, each on both stores
\* at once and computed from what the previous ones left, or leave their candidate in
\* config.json alone with the clients they meant to change suspect.
THEOREM TransactionIsAtomic == Spec => CommandsAreAtomic
<1>1. Init => Registry!NobodyServed
  <2> SUFFICES ASSUME Init PROVE Registry!NobodyServed
    OBVIOUS
  <2>1. Settled = config
    BY DEF Init, Settled
  <2> QED
    BY <2>1 DEF Init, Registry!NobodyServed
<1>2. Init => RInv
  BY InitHoldsR
<1>3. IInv /\ RInv /\ [Next]_vars => RInv'
  BY StepKeepsR
<1>4. IInv /\ IInv' /\ RInv /\ [Next]_vars
        => [\E r \in Registry!Commands : Registry!Execute(r) \/ Registry!Tear(r)]_<<Settled, db, suspect>>
  BY StepRefines DEF Still
<1> QED
  BY <1>1, <1>2, <1>3, <1>4, Inductive, PTL DEF Spec, CommandsAreAtomic, Registry!Served
=============================================================================
