--------------------------- MODULE ClientRegistry ---------------------------
(***************************************************************************)
(* What the transaction of ClientApply promises: the client commands take  *)
(* effect one at a time, each on both stores at once and computed from     *)
(* what the previous ones left.  The one exception is a torn command, cut  *)
(* after it wrote config.json: it leaves its candidate in config.json and  *)
(* not in manager.db, and only the clients it meant to change are suspect. *)
(* Only removing a suspect client settles it for certain.                  *)
(***************************************************************************)
EXTENDS ClientOps

VARIABLES cfg, db, suspect

NobodyServed ==
  /\ cfg = [served |-> [c \in Clients |-> {}], route |-> [c \in Clients |-> NoRoute]]
  /\ db = [known |-> [c \in Clients |-> {}], on |-> [c \in Clients |-> {}],
           route |-> [c \in Clients |-> NoRoute]]
  /\ suspect = {}

Execute(r) ==
  \E k \in Candidates(r, cfg, db) :
    /\ cfg' = k.cfg
    /\ db' = k.db
    /\ suspect' = IF r.op = "remove" THEN suspect \ {r.client} ELSE suspect

Tear(r) ==
  \E k \in Candidates(r, cfg, db) :
    /\ k.kind # "db"
    /\ cfg' = k.cfg
    /\ suspect' = suspect \union Changed(cfg, db, k.cfg, k.db)
    /\ UNCHANGED db

Served == NobodyServed /\ [][\E r \in Commands : Execute(r) \/ Tear(r)]_<<cfg, db, suspect>>
=============================================================================
