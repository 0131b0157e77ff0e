----------------------------- MODULE ClientOps -----------------------------
(***************************************************************************)
(* What one client command computes from config.json and manager.db.       *)
(* Pure operators: no state.  clients/crud.py and clients/status.py change *)
(* two Python dictionaries in memory; here they map one pair of stores to  *)
(* the pair the command is going to write.                                 *)
(*                                                                         *)
(*   config.json   [served, route]      served[c]: the connections that    *)
(*                                      carry c; route[c]: the cascade of  *)
(*                                      c's routing rule, NoRoute if none  *)
(*   manager.db    [known, on, route]   known[c]: c's stored credentials;  *)
(*                                      on[c]: those with enabled # False; *)
(*                                      route[c]: selectedCascadeTag       *)
(*                                                                         *)
(* A client has a row in manager.db iff known[c] is not empty (the code    *)
(* refuses to delete the last credential), and is enabled iff on[c] is not *)
(* empty (sync_legacy_fields).                                             *)
(***************************************************************************)
EXTENDS FiniteSets

CONSTANTS
  Clients,        \* client names
  Conns,          \* tags of the managed inbounds; one credential per tag
  Routes,         \* tags of the configured cascade outbounds
  DefaultRoute,   \* the cascade of the catch-all rule
  NoRoute,        \* no selected cascade, or no rule for the client
  CascadeOn       \* the catch-all rule leads to a cascade (not WARP, not direct)

ASSUME RoutesAssumption ==
  /\ DefaultRoute \in Routes
  /\ NoRoute \notin Routes
  /\ CascadeOn \in BOOLEAN

RouteOrNone == Routes \union {NoRoute}

Configs == [served : [Clients -> SUBSET Conns], route : [Clients -> RouteOrNone]]

Tables == [known : [Clients -> SUBSET Conns],
           on    : [Clients -> SUBSET Conns],
           route : [Clients -> RouteOrNone]]

\* Every enabled credential is a stored one, and only a row selects a route.
SoundRow(d, c) == d.on[c] \subseteq d.known[c] /\ (d.known[c] = {} => d.route[c] = NoRoute)

Stores == {d \in Tables : \A c \in Clients : SoundRow(d, c)}

(***************************************************************************)
(* One client as a command sees it: the connections that serve it, its     *)
(* stored credentials, and the enabled ones among them.                    *)
(***************************************************************************)
View == [sv : SUBSET Conns, kn : SUBSET Conns, on : SUBSET Conns]

ViewOf(cfg, db, c) ==
  [sv |-> cfg.served[c], kn |-> db.known[c], on |-> db.on[c]]

Absent(v) == v.sv = {} /\ v.kn = {}

\* active_client_any returns the first inbound of the file: a fixed choice.
First(S) == CHOOSE x \in S : TRUE

\* db_entry_for_existing_client: a client found only in config.json gets a row
\* with the one credential of the first inbound that carries it.
Adopt(v) ==
  IF v.kn = {} /\ v.sv # {}
    THEN [sv |-> v.sv, kn |-> {First(v.sv)}, on |-> {First(v.sv)}]
    ELSE v

-----------------------------------------------------------------------------
(***************************************************************************)
(* The commands, each as the set of views it may leave; the empty set is   *)
(* the command's refusal (ValueError, die).                                *)
(***************************************************************************)

\* The credential goes to config.json only when the client is enabled and its
\* term has not passed; the term is not part of the state, so an enabled client
\* has both outcomes.
AddViews(v, x) ==
  LET a    == Adopt(v)
      live == [sv |-> v.sv \union {x}, kn |-> a.kn \union {x}, on |-> a.on \union {x}]
      kept == [sv |-> v.sv, kn |-> a.kn \union {x}, on |-> a.on]
  IN  IF x \in a.kn \union v.sv THEN {}
      ELSE IF Absent(v) THEN {live}
      ELSE IF a.on = {} THEN {kept}
      ELSE {live, kept}

RemoveViews(v) ==
  IF Absent(v) THEN {} ELSE {[sv |-> {}, kn |-> {}, on |-> {}]}

\* S = {} stands for the command without --connection: every credential.
Selected(v, S) == IF S = {} THEN v.kn ELSE S

DisableViews(v, S) ==
  LET a   == Adopt(v)
      sel == Selected(a, S)
  IN  IF sel \subseteq a.kn /\ sel \intersect (v.sv \union a.on) # {}
        THEN {[sv |-> v.sv \ sel, kn |-> a.kn, on |-> a.on \ sel]}
        ELSE {}

\* Mutant of EnableViews: the check that the client has a row is lost.
EnableViewsNoRow(v, S) ==
  LET sel == Selected(v, S)
  IN  IF ~ sel \subseteq (v.sv \intersect v.on)
        THEN {[sv |-> v.sv \union sel, kn |-> v.kn, on |-> v.on \union sel]}
        ELSE {}

\* enable needs a row and never adopts.
EnableViews(v, S) ==
  LET sel == Selected(v, S)
  IN  IF sel \subseteq v.kn /\ ~ sel \subseteq (v.sv \intersect v.on)
        THEN {[sv |-> v.sv \union sel, kn |-> v.kn, on |-> v.on \union sel]}
        ELSE {}

\* disabled_entry_for_policy and enable_db_client: all stored credentials.
PolicyOff(v) == [sv |-> v.sv \ v.kn, kn |-> v.kn, on |-> {}]
PolicyOn(v)  == [sv |-> v.sv \union v.kn, kn |-> v.kn, on |-> v.kn]

\* set-days, extend-days: the new term and the limit decide which.
AccessViews(v) ==
  IF Absent(v) THEN {} ELSE {PolicyOff(Adopt(v)), PolicyOn(Adopt(v))}

\* The source is the inbound that serves the client, not its stored credential.
MoveViews(v, y) ==
  LET a   == Adopt(v)
      src == IF v.sv # {} THEN First(v.sv) ELSE First(a.kn)
      moved == [sv |-> IF v.sv = {} THEN {} ELSE (v.sv \ {src}) \union {y},
                kn |-> (a.kn \ {src}) \union {y},
                on |-> IF v.sv = {} THEN {} ELSE (a.on \ {src}) \union {y}]
  IN  IF /\ Cardinality(a.kn) = 1
         /\ y \notin a.kn \union v.sv
         /\ v.sv = {} => a.on = {}
        THEN {moved}
        ELSE {}

\* set-payment, set-limit, clear-limit: the row is adopted, its policy fields
\* (not modelled here) change.
NoteViews(v) == IF Absent(v) THEN {} ELSE {Adopt(v)}

-----------------------------------------------------------------------------
Ops == {"add", "remove", "disable", "enable", "access", "move", "note",
        "sync", "route", "policy"}

\* saw: what an add that asks for the term read before it took the lock.
Requests == [op : Ops, client : Clients, conns : SUBSET Conns,
             route : Routes, saw : {"unasked", "absent", "present"}]

\* The command lines; policy is expire-due or enforce-limits, of any client.
Command(op, c, conns, r, saw) ==
  [op |-> op, client |-> c, conns |-> conns, route |-> r, saw |-> saw]

Commands ==
  {r \in Requests :
     /\ r.saw = "unasked"
     /\ r.op # "route" => r.route = DefaultRoute
     /\ Cardinality(r.conns) \in (CASE r.op \in {"add", "move"}       -> {1}
                                     [] r.op \in {"disable", "enable"} -> {0, 1}
                                     [] OTHER                          -> {0})}

\* What a reader of both stores finds of a client.
SeenNow(cfg, db, c) == IF Absent(ViewOf(cfg, db, c)) THEN "absent" ELSE "present"

\* What the command may leave of its client.
ViewsAfter(r, v) ==
  CASE r.op = "add"     -> UNION {AddViews(v, x) : x \in r.conns}
    [] r.op = "remove"  -> RemoveViews(v)
    [] r.op = "disable" -> DisableViews(v, r.conns)
    [] r.op = "enable"  -> EnableViews(v, r.conns)
    [] r.op = "access"  -> AccessViews(v)
    [] r.op = "move"    -> UNION {MoveViews(v, y) : y \in r.conns}
    [] r.op = "note"    -> NoteViews(v)
    [] OTHER            -> {}

\* ensure_all_client_route_config: while the catch-all leads to a cascade every
\* client with a row has a rule, for its selected cascade or else the default;
\* rules of other clients go.  Otherwise no client has one.
RulesFor(db) ==
  [c \in Clients |->
     IF ~ CascadeOn \/ db.known[c] = {} THEN NoRoute
     ELSE IF db.route[c] = NoRoute THEN DefaultRoute
     ELSE db.route[c]]

\* A candidate: the pair the command will write.  "apply" restarts Xray with
\* the new config.json before manager.db is saved, "db" saves manager.db only,
\* "route" switches one client's balancer in the running Xray.
Candidate(kind, cfg, db) == [kind |-> kind, cfg |-> cfg, db |-> db]

ApplyCandidate(served, db) ==
  LET rules == RulesFor(db)
  IN  Candidate("apply", [served |-> served, route |-> rules],
                [known |-> db.known, on |-> db.on,
                 route |-> [c \in Clients |->
                   IF rules[c] # NoRoute THEN rules[c] ELSE db.route[c]]])

WithView(db, c, w) ==
  [known |-> [db.known EXCEPT ![c] = w.kn],
   on    |-> [db.on EXCEPT ![c] = w.on],
   route |-> [db.route EXCEPT ![c] = IF w.kn = {} THEN NoRoute ELSE @]]

\* Mutant of NeedsRestart: enable only saves manager.db.
NeedsRestartNotEnable(r, v, w) ==
  \/ r.op \in {"add", "remove", "disable"}
  \/ r.op \in {"move", "access"} /\ w.sv # v.sv
  \/ r.op = "access" /\ w.on # {} /\ w.on # Adopt(v).on

\* move and set-days restart Xray only for a changed config.json.
NeedsRestart(r, v, w) ==
  \/ r.op \in {"add", "remove", "disable", "enable"}
  \/ r.op \in {"move", "access"} /\ w.sv # v.sv
  \/ r.op = "access" /\ w.on # {} /\ w.on # Adopt(v).on

CommandCandidates(r, cfg, db) ==
  LET v == ViewOf(cfg, db, r.client)
  IN  {IF NeedsRestart(r, v, w)
         THEN ApplyCandidate([cfg.served EXCEPT ![r.client] = w.sv],
                             WithView(db, r.client, w))
         ELSE Candidate("db", cfg, WithView(db, r.client, w))
       : w \in ViewsAfter(r, v)}

SyncCandidates(cfg, db) ==
  {IF RulesFor(db) # cfg.route THEN ApplyCandidate(cfg.served, db)
                               ELSE Candidate("db", cfg, db)}

RouteCandidates(r, cfg, db) ==
  LET v    == ViewOf(cfg, db, r.client)
      rows == WithView(db, r.client, Adopt(v))
  IN  IF Absent(v) THEN {}
      ELSE IF db.route[r.client] = r.route THEN {Candidate("db", cfg, rows)}
      ELSE IF ~ CascadeOn THEN {}
      ELSE {Candidate("route",
                      [served |-> cfg.served,
                       route |-> [cfg.route EXCEPT ![r.client] = r.route]],
                      [known |-> rows.known, on |-> rows.on,
                       route |-> [rows.route EXCEPT ![r.client] = r.route]])}

\* expire-due and enforce-limits: the clock and the counters are not part of
\* this state, so any served client with a row may be due and any disabled one
\* may be past its reset.  A client without a row is never due.
Due(cfg, db)   == {c \in Clients : cfg.served[c] # {} /\ db.known[c] # {}}
Reset(db)      == {c \in Clients : db.known[c] # {} /\ db.on[c] = {}}

PolicyView(cfg, db, off, back, c) ==
  LET v == ViewOf(cfg, db, c)
  IN  IF c \in off THEN PolicyOff(v) ELSE IF c \in back THEN PolicyOn(v) ELSE v

PolicyCandidate(cfg, db, off, back) ==
  ApplyCandidate([c \in Clients |-> PolicyView(cfg, db, off, back, c).sv],
                 [known |-> db.known,
                  on |-> [c \in Clients |-> PolicyView(cfg, db, off, back, c).on],
                  route |-> db.route])

\* Nobody due and nobody to bring back: the command returns without writing.
PolicyCandidates(cfg, db) ==
  {PolicyCandidate(cfg, db, pair[1], pair[2]) :
     pair \in {p \in (SUBSET Due(cfg, db)) \X (SUBSET Reset(db)) :
                 /\ p[1] \union p[2] # {}
                 /\ p[1] \intersect p[2] = {}}}

\* Everything the command may decide to write; empty when it refuses.
Candidates(r, cfg, db) ==
  CASE r.op = "sync"   -> SyncCandidates(cfg, db)
    [] r.op = "route"  -> RouteCandidates(r, cfg, db)
    [] r.op = "policy" -> PolicyCandidates(cfg, db)
    [] OTHER           -> CommandCandidates(r, cfg, db)

\* The two stores tell the same story of client c: Xray is told to serve exactly
\* the enabled credentials, and a routing rule is the one selected in manager.db.
AgreeIn(cfg, d, c) ==
  /\ cfg.served[c] = d.on[c]
  /\ cfg.route[c] # NoRoute => cfg.route[c] = d.route[c]

\* The clients whose entries differ between two pairs of stores.
Changed(cfg1, db1, cfg2, db2) ==
  {c \in Clients : \/ cfg1.served[c] # cfg2.served[c]
                   \/ cfg1.route[c] # cfg2.route[c]
                   \/ db1.known[c] # db2.known[c]
                   \/ db1.on[c] # db2.on[c]
                   \/ db1.route[c] # db2.route[c]}
=============================================================================
