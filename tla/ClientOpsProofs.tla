-------------------------- MODULE ClientOpsProofs --------------------------
(***************************************************************************)
(* What the client commands preserve, for any clients, connections and     *)
(* cascades: from well-formed stores every command makes well-formed       *)
(* stores, which agree on every client they agreed on before.  The proofs  *)
(* about ClientApply and TrafficSync rest on these lemmas.                 *)
(***************************************************************************)
EXTENDS ClientOps, FiniteSetTheorems, TLAPS

\* A view whose enabled credentials are stored ones.
Sound(v) == v \in View /\ v.on \subseteq v.kn

\* config.json serves what manager.db enables.
Even(v) == v.sv = v.on

\* active_client_any finds a connection that carries the client.
LEMMA FirstIn == ASSUME NEW S, S # {} PROVE First(S) \in S
  BY DEF First

\* Adopting a client keeps its view sound, and changes nothing in an even one.
LEMMA AdoptKeeps ==
  ASSUME NEW v, Sound(v)
  PROVE  /\ Sound(Adopt(v))
         /\ Adopt(v).sv = v.sv
         /\ Even(v) => Adopt(v) = v
<1>1. CASE v.kn = {} /\ v.sv # {}
  <2>1. First(v.sv) \in v.sv
    BY <1>1, FirstIn
  <2>2. Adopt(v) = [sv |-> v.sv, kn |-> {First(v.sv)}, on |-> {First(v.sv)}]
    BY <1>1 DEF Adopt
  <2>3. v \in View /\ v.on \subseteq v.kn
    BY DEF Sound
  <2>4. Sound(Adopt(v)) /\ Adopt(v).sv = v.sv
    BY <2>1, <2>2, <2>3 DEF Sound, View
  <2>5. ~ Even(v)
    BY <1>1, <2>3 DEF Even
  <2> QED
    BY <2>4, <2>5
<1>2. CASE ~ (v.kn = {} /\ v.sv # {})
  BY <1>2 DEF Adopt, Sound
<1> QED
  BY <1>1, <1>2

\* Every command leaves a sound view, an even one if it met an even one, and a
\* removal leaves nothing.
LEMMA ViewsAfterKeep ==
  ASSUME NEW r \in Requests, NEW v, Sound(v), NEW w \in ViewsAfter(r, v)
  PROVE  /\ Sound(w)
         /\ Even(v) => Even(w)
         /\ r.op = "remove" => w.sv = {} /\ w.on = {} /\ w.kn = {}
<1> DEFINE a == Adopt(v)
<1>1. v \in View /\ v.on \subseteq v.kn
  BY DEF Sound
<1>2. a \in View /\ a.on \subseteq a.kn /\ a.sv = v.sv /\ (Even(v) => a = v)
  BY AdoptKeeps DEF Sound
<1>3. r.conns \subseteq Conns
  BY DEF Requests
<1>a. CASE r.op = "add"
  <2>1. ViewsAfter(r, v) = UNION {AddViews(v, x) : x \in r.conns}
    BY <1>a, Zenon DEF ViewsAfter
  <2>2. PICK x \in r.conns : w \in AddViews(v, x)
    BY <2>1
  <2>3. x \in Conns
    BY <1>3
  <2>4. \/ w = [sv |-> v.sv \union {x}, kn |-> a.kn \union {x}, on |-> a.on \union {x}]
        \/ /\ w = [sv |-> v.sv, kn |-> a.kn \union {x}, on |-> a.on]
    BY <2>2 DEF AddViews
  <2> HIDE DEF a
  <2> QED
    BY <1>1, <1>2, <2>3, <2>4, <1>a DEF Sound, Even, View
<1>b. CASE r.op = "remove"
  <2>1. ViewsAfter(r, v) = RemoveViews(v)
    BY <1>b, Zenon DEF ViewsAfter
  <2>2. w = [sv |-> {}, kn |-> {}, on |-> {}]
    BY <2>1 DEF RemoveViews
  <2> QED
    BY <2>2 DEF Sound, Even, View
<1>c. CASE r.op = "disable"
  <2>1. ViewsAfter(r, v) = DisableViews(v, r.conns)
    BY <1>c, Zenon DEF ViewsAfter
  <2>2. PICK sel : w = [sv |-> v.sv \ sel, kn |-> a.kn, on |-> a.on \ sel]
    BY <2>1 DEF DisableViews
  <2> HIDE DEF a
  <2> QED
    BY <1>1, <1>2, <2>2, <1>c DEF Sound, Even, View
<1>d. CASE r.op = "enable"
  <2>1. ViewsAfter(r, v) = EnableViews(v, r.conns)
    BY <1>d, Zenon DEF ViewsAfter
  <2>2. PICK sel : /\ sel \subseteq v.kn
                   /\ w = [sv |-> v.sv \union sel, kn |-> v.kn, on |-> v.on \union sel]
    BY <2>1 DEF EnableViews
  <2> QED
    BY <1>1, <2>2, <1>d DEF Sound, Even, View
<1>e. CASE r.op = "access"
  <2>1. ViewsAfter(r, v) = AccessViews(v)
    BY <1>e, Zenon DEF ViewsAfter
  <2>2. w = PolicyOff(a) \/ w = PolicyOn(a)
    BY <2>1 DEF AccessViews
  <2> HIDE DEF a
  <2> QED
    BY <1>1, <1>2, <2>2, <1>e DEF PolicyOff, PolicyOn, Sound, Even, View
<1>f. CASE r.op = "move"
  <2>1. ViewsAfter(r, v) = UNION {MoveViews(v, y) : y \in r.conns}
    BY <1>f, Zenon DEF ViewsAfter
  <2>2. PICK y \in r.conns : w \in MoveViews(v, y)
    BY <2>1
  <2>3. y \in Conns
    BY <1>3
  <2>4. PICK src : w = [sv |-> IF v.sv = {} THEN {} ELSE (v.sv \ {src}) \union {y},
                        kn |-> (a.kn \ {src}) \union {y},
                        on |-> IF v.sv = {} THEN {} ELSE (a.on \ {src}) \union {y}]
    BY <2>2 DEF MoveViews
  <2> HIDE DEF a
  <2>5. CASE v.sv = {}
    BY <1>1, <1>2, <2>3, <2>4, <2>5, <1>f DEF Sound, Even, View
  <2>6. CASE v.sv # {}
    BY <1>1, <1>2, <2>3, <2>4, <2>6, <1>f DEF Sound, Even, View
  <2> QED
    BY <2>5, <2>6
<1>g. CASE r.op = "note"
  <2>1. ViewsAfter(r, v) = NoteViews(v)
    BY <1>g, Zenon DEF ViewsAfter
  <2>2. w = a
    BY <2>1 DEF NoteViews
  <2> HIDE DEF a
  <2> QED
    BY <1>1, <1>2, <2>2, <1>g DEF Sound, Even
<1>h. CASE r.op \notin {"add", "remove", "disable", "enable", "access", "move", "note"}
  <2>1. ViewsAfter(r, v) = {}
    BY <1>h, Zenon DEF ViewsAfter
  <2> QED
    BY <2>1
<1> QED
  BY <1>a, <1>b, <1>c, <1>d, <1>e, <1>f, <1>g, <1>h

\* A command that does not restart Xray leaves config.json right for its client,
\* and the client keeps a row.
LEMMA WithoutRestart ==
  ASSUME NEW r \in Requests, NEW v, Sound(v), NEW w \in ViewsAfter(r, v),
         ~ NeedsRestart(r, v, w)
  PROVE  w.sv = v.sv /\ w.kn # {}
<1> DEFINE a == Adopt(v)
<1>1. r.op \notin {"add", "remove", "disable", "enable"}
  BY DEF NeedsRestart
<1>2. ~ Absent(v) => a.kn # {}
  <2>1. CASE v.kn = {} /\ v.sv # {}
    BY <2>1 DEF Adopt
  <2>2. CASE v.kn # {}
    BY <2>2 DEF Adopt
  <2> QED
    BY <2>1, <2>2 DEF Absent
<1>3. a.sv = v.sv
  BY AdoptKeeps
<1>a. CASE r.op = "access"
  <2>1. ViewsAfter(r, v) = AccessViews(v)
    BY <1>a, Zenon DEF ViewsAfter
  <2>2. ~ Absent(v) /\ (w = PolicyOff(a) \/ w = PolicyOn(a))
    BY <2>1 DEF AccessViews
  <2>3. w.sv = v.sv
    BY <1>a DEF NeedsRestart
  <2>4. w.kn = a.kn
    BY <2>2 DEF PolicyOff, PolicyOn
  <2> QED
    BY <1>2, <2>2, <2>3, <2>4
<1>b. CASE r.op = "move"
  <2>1. ViewsAfter(r, v) = UNION {MoveViews(v, y) : y \in r.conns}
    BY <1>b, Zenon DEF ViewsAfter
  <2>2. PICK y \in r.conns : w \in MoveViews(v, y)
    BY <2>1
  <2>3. y \in w.kn
    BY <2>2 DEF MoveViews
  <2>4. w.sv = v.sv
    BY <1>b DEF NeedsRestart
  <2> QED
    BY <2>3, <2>4
<1>c. CASE r.op = "note"
  <2>1. ViewsAfter(r, v) = NoteViews(v)
    BY <1>c, Zenon DEF ViewsAfter
  <2>2. ~ Absent(v) /\ w = a
    BY <2>1 DEF NoteViews
  <2> QED
    BY <1>2, <1>3, <2>2
<1>d. CASE r.op \notin {"add", "remove", "disable", "enable", "access", "move", "note"}
  <2>1. ViewsAfter(r, v) = {}
    BY <1>d, Zenon DEF ViewsAfter
  <2> QED
    BY <2>1
<1> QED
  BY <1>1, <1>a, <1>b, <1>c, <1>d

\* What a table of sound rows is, field by field.
SoundTable(known, on, route) ==
  /\ known \in [Clients -> SUBSET Conns]
  /\ on \in [Clients -> SUBSET Conns]
  /\ route \in [Clients -> RouteOrNone]
  /\ \A c \in Clients : on[c] \subseteq known[c] /\ (known[c] = {} => route[c] = NoRoute)

LEMMA StoresFields ==
  \A d \in Stores : /\ SoundTable(d.known, d.on, d.route)
                    /\ d = [known |-> d.known, on |-> d.on, route |-> d.route]
<1> TAKE d \in Stores
<1>1. d \in Tables /\ \A c \in Clients : SoundRow(d, c)
  BY Zenon DEF Stores
<1> QED
  BY <1>1 DEF Tables, SoundRow, SoundTable

\* And conversely.
LEMMA MakeStores ==
  ASSUME NEW d, SoundTable(d.known, d.on, d.route),
         d = [known |-> d.known, on |-> d.on, route |-> d.route]
  PROVE  d \in Stores
<1>1. d \in Tables
  BY DEF Tables, SoundTable
<1>2. \A c \in Clients : SoundRow(d, c)
  BY DEF SoundTable, SoundRow
<1> QED
  BY <1>1, <1>2, Zenon DEF Stores

\* Rules are made from the rows, and the rows then select what the rules say.
LEMMA ApplyCandidateKeeps ==
  ASSUME NEW served \in [Clients -> SUBSET Conns], NEW d \in Stores
  PROVE  LET k == ApplyCandidate(served, d)
         IN  /\ k.kind = "apply"
             /\ k.cfg \in Configs
             /\ k.cfg.served = served
             /\ k.db \in Stores
             /\ k.db.known = d.known
             /\ k.db.on = d.on
             /\ \A c \in Clients : k.cfg.route[c] # NoRoute => k.cfg.route[c] = k.db.route[c]
<1> DEFINE rules == RulesFor(d)
           sel   == [c \in Clients |-> IF rules[c] # NoRoute THEN rules[c] ELSE d.route[c]]
           k     == ApplyCandidate(served, d)
<1>1. /\ d.route \in [Clients -> RouteOrNone]
      /\ d.known \in [Clients -> SUBSET Conns] /\ d.on \in [Clients -> SUBSET Conns]
      /\ \A c \in Clients : d.on[c] \subseteq d.known[c] /\ (d.known[c] = {} => d.route[c] = NoRoute)
  <2>1. SoundTable(d.known, d.on, d.route)
    BY StoresFields
  <2> QED
    BY <2>1, Zenon DEF SoundTable
<1>2. rules \in [Clients -> RouteOrNone]
  BY <1>1, RoutesAssumption DEF RulesFor, RouteOrNone
<1>3. \A c \in Clients : d.known[c] = {} => rules[c] = NoRoute
  BY DEF RulesFor
<1>4. k.kind = "apply" /\ k.cfg = [served |-> served, route |-> rules]
      /\ k.db = [known |-> d.known, on |-> d.on, route |-> sel]
  BY DEF ApplyCandidate, Candidate
<1> HIDE DEF k, rules
<1>5. sel \in [Clients -> RouteOrNone]
  BY <1>1, <1>2
<1>6. k.db = [known |-> d.known, on |-> d.on, route |-> sel]
  BY <1>4
<1>7. k.cfg \in Configs
  BY <1>2, <1>4 DEF Configs
<1>8. \A c \in Clients : d.known[c] = {} => sel[c] = NoRoute
  BY <1>1, <1>3
<1> HIDE DEF sel
<1>9. k.db \in Stores
  <2>1. SoundTable(k.db.known, k.db.on, k.db.route)
    BY <1>1, <1>5, <1>6, <1>8 DEF SoundTable
  <2>2. k.db = [known |-> k.db.known, on |-> k.db.on, route |-> k.db.route]
    BY <1>6
  <2> QED
    BY <2>1, <2>2, MakeStores
<1> USE DEF sel
<1>10. \A c \in Clients : rules[c] # NoRoute => rules[c] = sel[c]
  OBVIOUS
<1> HIDE DEF sel
<1>11. /\ k.cfg.served = served /\ k.db.known = d.known /\ k.db.on = d.on
       /\ \A c \in Clients : k.cfg.route[c] # NoRoute => k.cfg.route[c] = k.db.route[c]
  BY <1>4, <1>6, <1>10
<1> QED
  BY <1>4, <1>7, <1>9, <1>11 DEF k

\* Writing a sound view into one client's row gives a table of sound rows.
RowWritten(e, d, c, w) ==
  /\ e \in Stores
  /\ e.known = [d.known EXCEPT ![c] = w.kn]
  /\ e.on = [d.on EXCEPT ![c] = w.on]
  /\ e.route = [d.route EXCEPT ![c] = IF w.kn = {} THEN NoRoute ELSE d.route[c]]

LEMMA WithViewKeeps ==
  ASSUME NEW d \in Stores, NEW c \in Clients, NEW w, Sound(w)
  PROVE  RowWritten(WithView(d, c, w), d, c, w)
<1> DEFINE e == WithView(d, c, w)
<1>1. w.kn \in SUBSET Conns /\ w.on \in SUBSET Conns /\ w.on \subseteq w.kn
  BY DEF Sound, View
<1>2. /\ d.route \in [Clients -> RouteOrNone]
      /\ d.known \in [Clients -> SUBSET Conns]
      /\ d.on \in [Clients -> SUBSET Conns]
      /\ \A b \in Clients : d.on[b] \subseteq d.known[b] /\ (d.known[b] = {} => d.route[b] = NoRoute)
  <2>1. SoundTable(d.known, d.on, d.route)
    BY StoresFields
  <2> QED
    BY <2>1, Zenon DEF SoundTable
<1>3. /\ e.known = [d.known EXCEPT ![c] = w.kn]
      /\ e.on = [d.on EXCEPT ![c] = w.on]
      /\ e.route = [d.route EXCEPT ![c] = IF w.kn = {} THEN NoRoute ELSE d.route[c]]
      /\ e = [known |-> e.known, on |-> e.on, route |-> e.route]
  BY DEF WithView
<1> HIDE DEF e
<1>4. /\ e.known \in [Clients -> SUBSET Conns] /\ e.on \in [Clients -> SUBSET Conns]
      /\ e.route \in [Clients -> RouteOrNone]
  BY <1>1, <1>2, <1>3 DEF RouteOrNone
<1>5. ASSUME NEW b \in Clients
      PROVE  e.on[b] \subseteq e.known[b] /\ (e.known[b] = {} => e.route[b] = NoRoute)
  <2>1. CASE b = c
    BY <1>1, <1>2, <1>3, <2>1
  <2>2. CASE b # c
    BY <1>2, <1>3, <2>2
  <2> QED
    BY <2>1, <2>2
<1>6. e \in Stores
  <2>1. SoundTable(e.known, e.on, e.route)
    BY <1>4, <1>5 DEF SoundTable
  <2> QED
    BY <1>3, <2>1, MakeStores
<1> QED
  BY <1>3, <1>6 DEF e, RowWritten

\* What a process may carry from Load to SaveDb: well-formed files, which agree on
\* every client the loaded ones agreed on; a removal makes its client agree.
GoodCandidate(k, r, cfg, d) ==
  /\ k.kind \in {"apply", "db", "route"}
  /\ k.cfg \in Configs
  /\ k.db \in Stores
  /\ k.kind = "db" => k.cfg = cfg
  /\ \A c \in Clients : AgreeIn(cfg, d, c) => AgreeIn(k.cfg, k.db, c)
  /\ r.op = "remove" => k.kind = "apply" /\ AgreeIn(k.cfg, k.db, r.client)

\* The client of a command, read from well-formed files.
LEMMA ViewOfSound ==
  ASSUME NEW cfg \in Configs, NEW d \in Stores, NEW c \in Clients
  PROVE  /\ Sound(ViewOf(cfg, d, c))
         /\ AgreeIn(cfg, d, c) => Even(ViewOf(cfg, d, c))
<1>1. SoundTable(d.known, d.on, d.route)
  BY StoresFields
<1>2. d.known[c] \in SUBSET Conns /\ d.on[c] \in SUBSET Conns /\ d.on[c] \subseteq d.known[c]
  BY <1>1 DEF SoundTable
<1>3. cfg.served[c] \in SUBSET Conns
  BY DEF Configs
<1> QED
  BY <1>2, <1>3 DEF ViewOf, Sound, View, AgreeIn, Even

\* Files written by an apply agree wherever they serve the enabled credentials.
LEMMA ApplyGood ==
  ASSUME NEW r, NEW cfg, NEW d0, NEW served \in [Clients -> SUBSET Conns], NEW d \in Stores,
         \A c \in Clients : AgreeIn(cfg, d0, c) => served[c] = d.on[c],
         r.op = "remove" => r.client \in Clients /\ served[r.client] = d.on[r.client]
  PROVE  GoodCandidate(ApplyCandidate(served, d), r, cfg, d0)
<1> DEFINE k == ApplyCandidate(served, d)
<1>1. /\ k.kind = "apply" /\ k.cfg \in Configs /\ k.cfg.served = served
      /\ k.db \in Stores /\ k.db.on = d.on
      /\ \A c \in Clients : k.cfg.route[c] # NoRoute => k.cfg.route[c] = k.db.route[c]
  BY ApplyCandidateKeeps
<1> HIDE DEF k
<1>2. \A c \in Clients : served[c] = d.on[c] => AgreeIn(k.cfg, k.db, c)
  BY <1>1 DEF AgreeIn
<1>3. GoodCandidate(k, r, cfg, d0)
  BY <1>1, <1>2 DEF GoodCandidate
<1> QED
  BY <1>3 DEF k

LEMMA CommandGood ==
  ASSUME NEW r \in Requests, NEW cfg \in Configs, NEW d \in Stores,
         NEW k \in CommandCandidates(r, cfg, d)
  PROVE  GoodCandidate(k, r, cfg, d)
<1> DEFINE b == r.client
           v == ViewOf(cfg, d, b)
<1>1. b \in Clients
  BY DEF Requests
<1>2. Sound(v) /\ (AgreeIn(cfg, d, b) => Even(v)) /\ v.sv = cfg.served[b]
  BY <1>1, ViewOfSound DEF ViewOf
<1>3. PICK w \in ViewsAfter(r, v) :
        k = IF NeedsRestart(r, v, w)
              THEN ApplyCandidate([cfg.served EXCEPT ![b] = w.sv], WithView(d, b, w))
              ELSE Candidate("db", cfg, WithView(d, b, w))
  BY DEF CommandCandidates
<1> HIDE DEF b, v
<1>4. Sound(w) /\ (Even(v) => Even(w)) /\ (r.op = "remove" => w.sv = {} /\ w.on = {})
  BY <1>2, ViewsAfterKeep
<1> DEFINE e == WithView(d, b, w)
<1>5. /\ e \in Stores
      /\ e.on = [d.on EXCEPT ![b] = w.on]
      /\ e.route = [d.route EXCEPT ![b] = IF w.kn = {} THEN NoRoute ELSE d.route[b]]
  <2>1. Sound(w)
    BY <1>4
  <2>2. RowWritten(e, d, b, w)
    BY <1>1, <2>1, WithViewKeeps
  <2> HIDE DEF e
  <2> QED
    BY <2>2, Zenon DEF RowWritten
<1>6. /\ cfg.served \in [Clients -> SUBSET Conns]
      /\ d.on \in [Clients -> SUBSET Conns] /\ d.route \in [Clients -> RouteOrNone]
  <2>1. SoundTable(d.known, d.on, d.route)
    BY StoresFields
  <2> QED
    BY <2>1 DEF SoundTable, Configs
<1> HIDE DEF e
<1>7. \A c \in Clients : AgreeIn(cfg, d, c) =>
         cfg.served[c] = d.on[c] /\ (cfg.route[c] # NoRoute => cfg.route[c] = d.route[c])
  BY DEF AgreeIn
<1>8. CASE NeedsRestart(r, v, w)
  <2> DEFINE served == [cfg.served EXCEPT ![b] = w.sv]
  <2>1. k = ApplyCandidate(served, e)
    BY <1>3, <1>8 DEF e
  <2>2. served \in [Clients -> SUBSET Conns]
    BY <1>1, <1>4, <1>6 DEF Sound, View
  <2>3. \A c \in Clients : AgreeIn(cfg, d, c) => served[c] = e.on[c]
    BY <1>1, <1>2, <1>4, <1>5, <1>6, <1>7 DEF Even
  <2>4. r.op = "remove" => b \in Clients /\ served[b] = e.on[b]
    BY <1>1, <1>4, <1>5, <1>6
  <2> HIDE DEF served
  <2> QED
    BY <2>1, <2>2, <2>3, <2>4, <1>5, ApplyGood DEF b
<1>9. CASE ~ NeedsRestart(r, v, w)
  <2>1. k = [kind |-> "db", cfg |-> cfg, db |-> e]
    BY <1>3, <1>9 DEF e, Candidate
  <2>2. w.sv = v.sv /\ w.kn # {}
    BY <1>2, <1>9, WithoutRestart
  <2>3. \A c \in Clients : AgreeIn(cfg, d, c) => AgreeIn(cfg, e, c)
    BY <1>1, <1>2, <1>4, <1>5, <1>6, <1>7, <2>2 DEF AgreeIn, Even
  <2>4. r.op # "remove"
    BY <1>9 DEF NeedsRestart
  <2> QED
    BY <1>5, <2>1, <2>3, <2>4 DEF GoodCandidate
<1> QED
  BY <1>8, <1>9

LEMMA SyncGood ==
  ASSUME NEW r \in Requests, r.op = "sync", NEW cfg \in Configs, NEW d \in Stores,
         NEW k \in SyncCandidates(cfg, d)
  PROVE  GoodCandidate(k, r, cfg, d)
<1>1. CASE RulesFor(d) # cfg.route
  <2>1. k = ApplyCandidate(cfg.served, d)
    BY <1>1 DEF SyncCandidates
  <2>2. cfg.served \in [Clients -> SUBSET Conns]
    BY DEF Configs
  <2>3. \A c \in Clients : AgreeIn(cfg, d, c) => cfg.served[c] = d.on[c]
    BY DEF AgreeIn
  <2> QED
    BY <2>1, <2>2, <2>3, ApplyGood
<1>2. CASE RulesFor(d) = cfg.route
  <2>1. k = [kind |-> "db", cfg |-> cfg, db |-> d]
    BY <1>2 DEF SyncCandidates, Candidate
  <2> QED
    BY <2>1 DEF GoodCandidate
<1> QED
  BY <1>1, <1>2

LEMMA PolicyGood ==
  ASSUME NEW r \in Requests, r.op = "policy", NEW cfg \in Configs, NEW d \in Stores,
         NEW k \in PolicyCandidates(cfg, d)
  PROVE  GoodCandidate(k, r, cfg, d)
<1>1. PICK off, back : k = PolicyCandidate(cfg, d, off, back)
  BY DEF PolicyCandidates
<1> DEFINE pv(c)  == PolicyView(cfg, d, off, back, c)
           served == [c \in Clients |-> pv(c).sv]
           e      == [known |-> d.known, on |-> [c \in Clients |-> pv(c).on],
                      route |-> d.route]
<1>2. k = ApplyCandidate(served, e)
  BY <1>1 DEF PolicyCandidate
<1>3. ASSUME NEW c \in Clients
      PROVE  /\ Sound(pv(c)) /\ (AgreeIn(cfg, d, c) => Even(pv(c)))
             /\ pv(c).kn = d.known[c]
  <2> DEFINE v == ViewOf(cfg, d, c)
  <2>1. Sound(v) /\ (AgreeIn(cfg, d, c) => Even(v)) /\ v.kn = d.known[c]
    BY ViewOfSound DEF ViewOf
  <2>2. pv(c) \in {v, PolicyOff(v), PolicyOn(v)}
    BY DEF PolicyView
  <2> HIDE DEF v, pv
  <2> QED
    BY <2>1, <2>2 DEF PolicyOff, PolicyOn, Sound, View, Even
<1> HIDE DEF pv
<1>4. served \in [Clients -> SUBSET Conns]
  BY <1>3 DEF Sound, View
<1>5. e \in Stores
  <2>1. SoundTable(d.known, d.on, d.route)
    BY StoresFields
  <2>2. \A c \in Clients : pv(c).on \in SUBSET Conns /\ pv(c).on \subseteq d.known[c]
    BY <1>3 DEF Sound, View
  <2>3. SoundTable(e.known, e.on, e.route)
    BY <2>1, <2>2 DEF SoundTable
  <2>4. e = [known |-> e.known, on |-> e.on, route |-> e.route]
    OBVIOUS
  <2> HIDE DEF e
  <2> QED
    BY <2>3, <2>4, MakeStores
<1>6. \A c \in Clients : AgreeIn(cfg, d, c) => served[c] = e.on[c]
  BY <1>3 DEF Even
<1> HIDE DEF served, e
<1> QED
  BY <1>2, <1>4, <1>5, <1>6, ApplyGood

LEMMA RouteGood ==
  ASSUME NEW r \in Requests, r.op = "route", NEW cfg \in Configs, NEW d \in Stores,
         NEW k \in RouteCandidates(r, cfg, d)
  PROVE  GoodCandidate(k, r, cfg, d)
<1> DEFINE b == r.client
           v == ViewOf(cfg, d, b)
           e == WithView(d, b, Adopt(v))
<1>1. b \in Clients /\ r.route \in Routes
  BY DEF Requests
<1>2. Sound(v) /\ (AgreeIn(cfg, d, b) => Even(v)) /\ v.kn = d.known[b] /\ v.on = d.on[b]
  BY <1>1, ViewOfSound DEF ViewOf
<1>3. ~ Absent(v)
  BY DEF RouteCandidates
<1>4. \/ k = [kind |-> "db", cfg |-> cfg, db |-> e]
      \/ k = [kind |-> "route",
              cfg |-> [served |-> cfg.served, route |-> [cfg.route EXCEPT ![b] = r.route]],
              db |-> [known |-> e.known, on |-> e.on,
                      route |-> [e.route EXCEPT ![b] = r.route]]]
  BY <1>3 DEF RouteCandidates, Candidate
<1> HIDE DEF b, v
<1>5. Sound(Adopt(v)) /\ (Even(v) => Adopt(v) = v)
  BY <1>2, AdoptKeeps
<1>6. Adopt(v).kn # {}
  BY <1>3 DEF Adopt, Absent
<1>7. /\ e \in Stores
      /\ e.known = [d.known EXCEPT ![b] = Adopt(v).kn]
      /\ e.on = [d.on EXCEPT ![b] = Adopt(v).on]
      /\ e.route = [d.route EXCEPT ![b] = IF Adopt(v).kn = {} THEN NoRoute ELSE d.route[b]]
  <2>1. RowWritten(e, d, b, Adopt(v))
    BY <1>1, <1>5, WithViewKeeps
  <2> HIDE DEF e
  <2> QED
    BY <2>1, Zenon DEF RowWritten
<1> HIDE DEF e
<1>8. SoundTable(d.known, d.on, d.route) /\ SoundTable(e.known, e.on, e.route)
  BY <1>7, StoresFields
<1>9. \A c \in Clients : AgreeIn(cfg, d, c) => AgreeIn(cfg, e, c)
  BY <1>1, <1>2, <1>5, <1>6, <1>7, <1>8 DEF AgreeIn, SoundTable
<1>10. CASE k = [kind |-> "db", cfg |-> cfg, db |-> e]
  BY <1>7, <1>9, <1>10 DEF GoodCandidate
<1>11. CASE k = [kind |-> "route",
                 cfg |-> [served |-> cfg.served, route |-> [cfg.route EXCEPT ![b] = r.route]],
                 db |-> [known |-> e.known, on |-> e.on,
                         route |-> [e.route EXCEPT ![b] = r.route]]]
  <2> DEFINE f == [known |-> e.known, on |-> e.on, route |-> [e.route EXCEPT ![b] = r.route]]
             g == [served |-> cfg.served, route |-> [cfg.route EXCEPT ![b] = r.route]]
  <2>1. e.known[b] # {}
    BY <1>1, <1>6, <1>7, <1>8 DEF SoundTable
  <2>2. SoundTable(f.known, f.on, f.route)
    BY <1>1, <1>8, <2>1 DEF SoundTable, RouteOrNone
  <2>3. f = [known |-> f.known, on |-> f.on, route |-> f.route]
    OBVIOUS
  <2>4. g \in Configs
    BY <1>1 DEF Configs, RouteOrNone
  <2>5. \A c \in Clients : AgreeIn(cfg, d, c) => AgreeIn(g, f, c)
    BY <1>1, <1>8, <1>9 DEF AgreeIn, SoundTable, Configs
  <2>6. k = [kind |-> "route", cfg |-> g, db |-> f]
    BY <1>11
  <2> HIDE DEF f, g
  <2>7. f \in Stores
    BY <2>2, <2>3, MakeStores
  <2> QED
    BY <2>4, <2>5, <2>6, <2>7 DEF GoodCandidate
<1> QED
  BY <1>4, <1>10, <1>11

\* Every candidate of every command is good.
LEMMA CandidatesGood ==
  ASSUME NEW r \in Requests, NEW cfg \in Configs, NEW d \in Stores,
         NEW k \in Candidates(r, cfg, d)
  PROVE  GoodCandidate(k, r, cfg, d)
<1>1. CASE r.op = "sync"
  <2>1. k \in SyncCandidates(cfg, d)
    BY <1>1, Zenon DEF Candidates
  <2> QED
    BY <1>1, <2>1, SyncGood
<1>2. CASE r.op = "route"
  <2>1. k \in RouteCandidates(r, cfg, d)
    BY <1>2, Zenon DEF Candidates
  <2> QED
    BY <1>2, <2>1, RouteGood
<1>3. CASE r.op = "policy"
  <2>1. k \in PolicyCandidates(cfg, d)
    BY <1>3, Zenon DEF Candidates
  <2> QED
    BY <1>3, <2>1, PolicyGood
<1>4. CASE r.op \notin {"sync", "route", "policy"}
  <2>1. k \in CommandCandidates(r, cfg, d)
    BY <1>4, Zenon DEF Candidates
  <2> QED
    BY <2>1, CommandGood
<1> QED
  BY <1>1, <1>2, <1>3, <1>4

-----------------------------------------------------------------------------
(***************************************************************************)
(* A command that restarts Xray or switches a balancer has something to    *)
(* change.                                                                 *)
(***************************************************************************)
LEMMA AdoptChanges ==
  ASSUME NEW v PROVE Adopt(v) = v \/ (v.kn = {} /\ Adopt(v).kn # {})
<1>1. CASE v.kn = {} /\ v.sv # {}
  <2>1. Adopt(v).kn = {First(v.sv)}
    BY <1>1 DEF Adopt
  <2> QED
    BY <1>1, <2>1
<1>2. CASE ~ (v.kn = {} /\ v.sv # {})
  BY <1>2 DEF Adopt
<1> QED
  BY <1>1, <1>2

LEMMA RestartChanges ==
  ASSUME NEW r \in Requests, NEW v, NEW w \in ViewsAfter(r, v), NeedsRestart(r, v, w)
  PROVE  w.sv # v.sv \/ w.kn # v.kn \/ w.on # v.on
<1> DEFINE a == Adopt(v)
<1>1. a = v \/ (v.kn = {} /\ a.kn # {})
  BY AdoptChanges
<1>2. w.sv # v.sv => w.sv # v.sv \/ w.kn # v.kn \/ w.on # v.on
  OBVIOUS
<1>a. CASE r.op = "add"
  <2>1. ViewsAfter(r, v) = UNION {AddViews(v, x) : x \in r.conns}
    BY <1>a, Zenon DEF ViewsAfter
  <2>2. PICK x \in r.conns : w \in AddViews(v, x)
    BY <2>1
  <2>3. x \notin a.kn \union v.sv /\ x \in w.kn
    BY <2>2 DEF AddViews
  <2> QED
    BY <1>1, <2>3
<1>b. CASE r.op = "remove"
  <2>1. ViewsAfter(r, v) = RemoveViews(v)
    BY <1>b, Zenon DEF ViewsAfter
  <2>2. ~ Absent(v) /\ w = [sv |-> {}, kn |-> {}, on |-> {}]
    BY <2>1 DEF RemoveViews
  <2> QED
    BY <2>2 DEF Absent
<1>c. CASE r.op = "disable"
  <2>1. ViewsAfter(r, v) = DisableViews(v, r.conns)
    BY <1>c, Zenon DEF ViewsAfter
  <2>2. PICK sel : /\ sel \intersect (v.sv \union a.on) # {}
                   /\ w = [sv |-> v.sv \ sel, kn |-> a.kn, on |-> a.on \ sel]
    BY <2>1 DEF DisableViews
  <2> HIDE DEF a
  <2> QED
    BY <1>1, <2>2
<1>d. CASE r.op = "enable"
  <2>1. ViewsAfter(r, v) = EnableViews(v, r.conns)
    BY <1>d, Zenon DEF ViewsAfter
  <2>2. PICK sel : /\ ~ sel \subseteq (v.sv \intersect v.on)
                   /\ w = [sv |-> v.sv \union sel, kn |-> v.kn, on |-> v.on \union sel]
    BY <2>1 DEF EnableViews
  <2> QED
    BY <2>2
<1>e. CASE r.op = "access"
  <2>1. ViewsAfter(r, v) = AccessViews(v)
    BY <1>e, Zenon DEF ViewsAfter
  <2>2. w = PolicyOff(a) \/ w = PolicyOn(a)
    BY <2>1 DEF AccessViews
  <2>3. w.kn = a.kn
    BY <2>2 DEF PolicyOff, PolicyOn
  <2>4. w.sv # v.sv \/ w.on # a.on
    BY <1>e DEF NeedsRestart
  <2> HIDE DEF a
  <2> QED
    BY <1>1, <2>3, <2>4
<1>f. CASE r.op = "move"
  BY <1>f DEF NeedsRestart
<1> QED
  BY <1>a, <1>b, <1>c, <1>d, <1>e, <1>f DEF NeedsRestart

\* A candidate that is not a mere save changes some client, if only one whose stores did
\* not agree; a switch changes the route of its client and nothing else in config.json.
Effective(k, r, cfg, d) ==
  /\ k.kind # "db" => \/ Changed(cfg, d, k.cfg, k.db) # {}
                      \/ \E c \in Clients : ~ AgreeIn(cfg, d, c)
  /\ k.kind = "route" =>
       /\ r.client \in Changed(cfg, d, k.cfg, k.db)
       /\ k.cfg = [served |-> cfg.served,
                   route |-> [cfg.route EXCEPT ![r.client] = r.route]]

LEMMA CommandEffective ==
  ASSUME NEW r \in Requests, NEW cfg \in Configs, NEW d \in Stores,
         NEW k \in CommandCandidates(r, cfg, d)
  PROVE  Effective(k, r, cfg, d)
<1> DEFINE b == r.client
           v == ViewOf(cfg, d, b)
<1>1. b \in Clients
  BY DEF Requests
<1>2. /\ Sound(v) /\ v.sv = cfg.served[b] /\ v.kn = d.known[b] /\ v.on = d.on[b]
  BY <1>1, ViewOfSound DEF ViewOf
<1>3. PICK w \in ViewsAfter(r, v) :
        k = IF NeedsRestart(r, v, w)
              THEN ApplyCandidate([cfg.served EXCEPT ![b] = w.sv], WithView(d, b, w))
              ELSE Candidate("db", cfg, WithView(d, b, w))
  BY DEF CommandCandidates
<1> HIDE DEF b, v
<1>4. Sound(w)
  BY <1>2, ViewsAfterKeep
<1> DEFINE e == WithView(d, b, w)
<1>5. /\ e \in Stores
      /\ e.known = [d.known EXCEPT ![b] = w.kn] /\ e.on = [d.on EXCEPT ![b] = w.on]
  <2>1. RowWritten(e, d, b, w)
    BY <1>1, <1>4, WithViewKeeps
  <2> HIDE DEF e
  <2> QED
    BY <2>1, Zenon DEF RowWritten
<1>6. /\ cfg.served \in [Clients -> SUBSET Conns]
      /\ d.known \in [Clients -> SUBSET Conns] /\ d.on \in [Clients -> SUBSET Conns]
  <2>1. SoundTable(d.known, d.on, d.route)
    BY StoresFields
  <2> QED
    BY <2>1 DEF SoundTable, Configs
<1>7. CASE NeedsRestart(r, v, w)
  <2> DEFINE served == [cfg.served EXCEPT ![b] = w.sv]
  <2>1. k = ApplyCandidate(served, e)
    BY <1>3, <1>7
  <2>2. served \in [Clients -> SUBSET Conns] /\ served[b] = w.sv
    BY <1>1, <1>4, <1>6 DEF Sound, View
  <2> HIDE DEF served, e
  <2>3. /\ k.kind = "apply" /\ k.cfg.served = served
        /\ k.db.known = e.known /\ k.db.on = e.on
    BY <1>5, <2>1, <2>2, ApplyCandidateKeeps
  <2>4. k.cfg.served[b] = w.sv /\ k.db.known[b] = w.kn /\ k.db.on[b] = w.on
    BY <1>1, <1>5, <1>6, <2>2, <2>3
  <2>5. w.sv # v.sv \/ w.kn # v.kn \/ w.on # v.on
    BY <1>7, RestartChanges
  <2>6. b \in Changed(cfg, d, k.cfg, k.db)
    BY <1>1, <1>2, <2>4, <2>5 DEF Changed
  <2> QED
    BY <2>3, <2>6 DEF Effective
<1>8. CASE ~ NeedsRestart(r, v, w)
  <2>1. k.kind = "db"
    BY <1>3, <1>8 DEF Candidate
  <2> QED
    BY <2>1 DEF Effective
<1> QED
  BY <1>7, <1>8

LEMMA SyncEffective ==
  ASSUME NEW r \in Requests, NEW cfg \in Configs, NEW d \in Stores,
         NEW k \in SyncCandidates(cfg, d)
  PROVE  Effective(k, r, cfg, d)
<1>1. CASE RulesFor(d) # cfg.route
  <2>1. k = ApplyCandidate(cfg.served, d)
    BY <1>1 DEF SyncCandidates
  <2>2. k.kind = "apply" /\ k.cfg.route = RulesFor(d)
    BY <2>1 DEF ApplyCandidate, Candidate
  <2>3. cfg.route \in [Clients -> RouteOrNone]
    BY DEF Configs
  <2>4. PICK c \in Clients : RulesFor(d)[c] # cfg.route[c]
    BY <1>1, <2>3 DEF RulesFor
  <2>5. c \in Changed(cfg, d, k.cfg, k.db)
    BY <2>2, <2>4 DEF Changed
  <2> QED
    BY <2>2, <2>5 DEF Effective
<1>2. CASE RulesFor(d) = cfg.route
  <2>1. k.kind = "db"
    BY <1>2 DEF SyncCandidates, Candidate
  <2> QED
    BY <2>1 DEF Effective
<1> QED
  BY <1>1, <1>2

\* A client is due although none of its stored credentials is served and none enabled
\* only where the stores disagree.
LEMMA PolicyEffective ==
  ASSUME NEW r \in Requests, NEW cfg \in Configs, NEW d \in Stores,
         NEW k \in PolicyCandidates(cfg, d)
  PROVE  Effective(k, r, cfg, d)
<1>1. PICK off \in SUBSET Due(cfg, d), back \in SUBSET Reset(d) :
        off \union back # {} /\ k = PolicyCandidate(cfg, d, off, back)
  BY DEF PolicyCandidates
<1> DEFINE pv(c)  == PolicyView(cfg, d, off, back, c)
           served == [c \in Clients |-> pv(c).sv]
           on     == [c \in Clients |-> pv(c).on]
           rules  == RulesFor([known |-> d.known, on |-> on, route |-> d.route])
<1>2. k.kind = "apply" /\ k.cfg.served = served /\ k.db.on = on
  BY <1>1 DEF PolicyCandidate, ApplyCandidate, Candidate
<1>3. PICK c \in Clients : c \in off \union back
  BY <1>1 DEF Due, Reset
<1>4. k.cfg.served[c] = pv(c).sv /\ k.db.on[c] = pv(c).on
  BY <1>2
<1>5. CASE c \in off
  <2>1. pv(c).on = {}
    BY <1>5 DEF PolicyView, PolicyOff
  <2>2. cfg.served[c] # {}
    BY <1>5 DEF Due
  <2>3. CASE d.on[c] = {}
    <3>1. ~ AgreeIn(cfg, d, c)
      BY <2>2, <2>3 DEF AgreeIn
    <3> QED
      BY <1>2, <3>1 DEF Effective
  <2>4. CASE d.on[c] # {}
    <3>1. c \in Changed(cfg, d, k.cfg, k.db)
      BY <1>4, <2>1, <2>4 DEF Changed
    <3> QED
      BY <1>2, <3>1 DEF Effective
  <2> QED
    BY <2>3, <2>4
<1>6. CASE c \notin off
  <2>1. pv(c).on = d.known[c]
    BY <1>3, <1>6 DEF PolicyView, PolicyOn, ViewOf
  <2>2. d.known[c] # {} /\ d.on[c] = {}
    BY <1>3, <1>6 DEF Reset
  <2>3. c \in Changed(cfg, d, k.cfg, k.db)
    BY <1>4, <2>1, <2>2 DEF Changed
  <2> QED
    BY <1>2, <2>3 DEF Effective
<1> QED
  BY <1>5, <1>6

LEMMA RouteEffective ==
  ASSUME NEW r \in Requests, NEW cfg \in Configs, NEW d \in Stores,
         NEW k \in RouteCandidates(r, cfg, d)
  PROVE  Effective(k, r, cfg, d)
<1> DEFINE b == r.client
           e == WithView(d, b, Adopt(ViewOf(cfg, d, b)))
<1>1. b \in Clients
  BY DEF Requests
<1>2. \/ k.kind = "db"
      \/ /\ d.route[b] # r.route
         /\ k = [kind |-> "route",
                 cfg |-> [served |-> cfg.served, route |-> [cfg.route EXCEPT ![b] = r.route]],
                 db |-> [known |-> e.known, on |-> e.on,
                         route |-> [e.route EXCEPT ![b] = r.route]]]
  BY DEF RouteCandidates, Candidate
<1>3. DOMAIN e.route = Clients
  <2>1. DOMAIN d.route = Clients
    BY StoresFields DEF SoundTable
  <2> QED
    BY <2>1 DEF WithView
<1> HIDE DEF e
<1>4. CASE k.kind = "db"
  BY <1>4 DEF Effective
<1>5. CASE k.kind # "db"
  <2>1. k.db.route[b] = r.route /\ d.route[b] # r.route
    BY <1>1, <1>2, <1>3, <1>5
  <2>2. b \in Changed(cfg, d, k.cfg, k.db)
    BY <1>1, <2>1 DEF Changed
  <2> QED
    BY <1>2, <1>5, <2>2 DEF Effective
<1> QED
  BY <1>4, <1>5

LEMMA CandidatesEffective ==
  ASSUME NEW r \in Requests, NEW cfg \in Configs, NEW d \in Stores,
         NEW k \in Candidates(r, cfg, d)
  PROVE  Effective(k, r, cfg, d)
<1>1. CASE r.op = "sync"
  <2>1. k \in SyncCandidates(cfg, d)
    BY <1>1, Zenon DEF Candidates
  <2> QED
    BY <2>1, SyncEffective
<1>2. CASE r.op = "route"
  <2>1. k \in RouteCandidates(r, cfg, d)
    BY <1>2, Zenon DEF Candidates
  <2> QED
    BY <2>1, RouteEffective
<1>3. CASE r.op = "policy"
  <2>1. k \in PolicyCandidates(cfg, d)
    BY <1>3, Zenon DEF Candidates
  <2> QED
    BY <2>1, PolicyEffective
<1>4. CASE r.op \notin {"sync", "route", "policy"}
  <2>1. k \in CommandCandidates(r, cfg, d)
    BY <1>4, Zenon DEF Candidates
  <2> QED
    BY <2>1, CommandEffective
<1> QED
  BY <1>1, <1>2, <1>3, <1>4

-----------------------------------------------------------------------------
(***************************************************************************)
(* What a command does to the stored credentials of a client: it keeps     *)
(* them all, or deletes the client from both files, or (move-connection)   *)
(* puts another in the place of the only one.                              *)
(***************************************************************************)
LEMMA ViewsAfterKnown ==
  ASSUME NEW r \in Requests, NEW v, IsFiniteSet(v.kn), NEW w \in ViewsAfter(r, v)
  PROVE  /\ \/ v.kn \subseteq w.kn
            \/ r.op = "remove" /\ w.kn = {} /\ w.sv = {}
            \/ w.kn # {} /\ v.kn \intersect w.kn = {}
         /\ r.op # "add" /\ v.kn = {} /\ w.kn # {} => v.sv # {}
<1> DEFINE a == Adopt(v)
<1>1. /\ v.kn \subseteq a.kn /\ (v.kn = {} /\ a.kn # {} => v.sv # {})
      /\ v.kn # {} => a.kn = v.kn
  <2>1. CASE v.kn = {} /\ v.sv # {}
    BY <2>1
  <2>2. CASE ~ (v.kn = {} /\ v.sv # {})
    BY <2>2 DEF Adopt
  <2> QED
    BY <2>1, <2>2
<1>a. CASE r.op = "add"
  <2>1. ViewsAfter(r, v) = UNION {AddViews(v, x) : x \in r.conns}
    BY <1>a, Zenon DEF ViewsAfter
  <2>2. PICK x \in r.conns : w \in AddViews(v, x)
    BY <2>1
  <2>3. w.kn = a.kn \union {x}
    BY <2>2 DEF AddViews
  <2> QED
    BY <1>a, <1>1, <2>3
<1>b. CASE r.op = "remove"
  <2>1. ViewsAfter(r, v) = RemoveViews(v)
    BY <1>b, Zenon DEF ViewsAfter
  <2>2. w = [sv |-> {}, kn |-> {}, on |-> {}]
    BY <2>1 DEF RemoveViews
  <2> QED
    BY <1>b, <2>2
<1>c. CASE r.op = "disable"
  <2>1. ViewsAfter(r, v) = DisableViews(v, r.conns)
    BY <1>c, Zenon DEF ViewsAfter
  <2>2. w.kn = a.kn
    BY <2>1 DEF DisableViews
  <2> QED
    BY <1>1, <2>2
<1>d. CASE r.op = "enable"
  <2>1. ViewsAfter(r, v) = EnableViews(v, r.conns)
    BY <1>d, Zenon DEF ViewsAfter
  <2>2. w.kn = v.kn
    BY <2>1 DEF EnableViews
  <2> QED
    BY <2>2
<1>e. CASE r.op = "access"
  <2>1. ViewsAfter(r, v) = AccessViews(v)
    BY <1>e, Zenon DEF ViewsAfter
  <2>2. w.kn = a.kn
    BY <2>1 DEF AccessViews, PolicyOff, PolicyOn
  <2> QED
    BY <1>1, <2>2
<1>f. CASE r.op = "move"
  <2>1. ViewsAfter(r, v) = UNION {MoveViews(v, y) : y \in r.conns}
    BY <1>f, Zenon DEF ViewsAfter
  <2>2. PICK y \in r.conns : w \in MoveViews(v, y)
    BY <2>1
  <2> DEFINE src == IF v.sv # {} THEN First(v.sv) ELSE First(a.kn)
  <2>3. /\ Cardinality(a.kn) = 1 /\ y \notin a.kn
        /\ w.kn = (a.kn \ {src}) \union {y}
    <3> HIDE DEF a
    <3> QED
      BY <2>2 DEF MoveViews, a
  <2> HIDE DEF a, src
  <2>4. PICK e : a.kn = {e}
    <3>1. IsFiniteSet(a.kn)
      BY FS_Singleton DEF a, Adopt
    <3> QED
      BY <2>3, <3>1, FS_Singleton
  <2> QED
    BY <1>f, <1>1, <2>3, <2>4
<1>g. CASE r.op = "note"
  <2>1. ViewsAfter(r, v) = NoteViews(v)
    BY <1>g, Zenon DEF ViewsAfter
  <2>2. w = a
    BY <2>1 DEF NoteViews
  <2> QED
    BY <1>1, <2>2
<1>h. CASE r.op \notin {"add", "remove", "disable", "enable", "access", "move", "note"}
  <2>1. ViewsAfter(r, v) = {}
    BY <1>h, Zenon DEF ViewsAfter
  <2> QED
    BY <2>1
<1> QED
  BY <1>a, <1>b, <1>c, <1>d, <1>e, <1>f, <1>g, <1>h

\* The same of both files: a client whose stored credentials are all gone is gone from
\* config.json, which Xray is restarted on; without a restart config.json serves
\* whom it served, and a client that gets a row was served.
KnownStep(k, cfg, d) ==
  \A c \in Clients :
    /\ \/ d.known[c] \subseteq k.db.known[c]
       \/ k.kind = "apply" /\ k.db.known[c] = {} /\ k.cfg.served[c] = {}
       \/ k.db.known[c] # {} /\ d.known[c] \intersect k.db.known[c] = {}
    /\ k.kind # "apply" =>
         /\ k.cfg.served[c] = cfg.served[c]
         /\ d.known[c] = {} /\ k.db.known[c] # {} => cfg.served[c] # {}

LEMMA CommandKnown ==
  ASSUME NEW r \in Requests, NEW cfg \in Configs, NEW d \in Stores, IsFiniteSet(Conns),
         NEW k \in CommandCandidates(r, cfg, d)
  PROVE  KnownStep(k, cfg, d)
<1> DEFINE b == r.client
           v == ViewOf(cfg, d, b)
<1>1. b \in Clients
  BY DEF Requests
<1>2. Sound(v) /\ v.sv = cfg.served[b] /\ v.kn = d.known[b]
  BY <1>1, ViewOfSound DEF ViewOf
<1>3. PICK w \in ViewsAfter(r, v) :
        k = IF NeedsRestart(r, v, w)
              THEN ApplyCandidate([cfg.served EXCEPT ![b] = w.sv], WithView(d, b, w))
              ELSE Candidate("db", cfg, WithView(d, b, w))
  BY DEF CommandCandidates
<1> HIDE DEF b, v
<1>4. Sound(w)
  BY <1>2, ViewsAfterKeep
<1> DEFINE e == WithView(d, b, w)
<1>5. e \in Stores /\ e.known = [d.known EXCEPT ![b] = w.kn]
  <2>1. RowWritten(e, d, b, w)
    BY <1>1, <1>4, WithViewKeeps
  <2> HIDE DEF e
  <2> QED
    BY <2>1, Zenon DEF RowWritten
<1>6. cfg.served \in [Clients -> SUBSET Conns] /\ d.known \in [Clients -> SUBSET Conns]
  <2>1. SoundTable(d.known, d.on, d.route)
    BY StoresFields
  <2> QED
    BY <2>1 DEF SoundTable, Configs
<1>7. IsFiniteSet(v.kn)
  <2>1. v.kn \in SUBSET Conns
    BY <1>1, <1>2, <1>6
  <2> QED
    BY <2>1, FS_Subset
<1>8. /\ \/ v.kn \subseteq w.kn
         \/ r.op = "remove" /\ w.kn = {} /\ w.sv = {}
         \/ w.kn # {} /\ v.kn \intersect w.kn = {}
      /\ r.op # "add" /\ v.kn = {} /\ w.kn # {} => v.sv # {}
  BY <1>7, ViewsAfterKnown
<1>9. \A c \in Clients \ {b} : e.known[c] = d.known[c]
  BY <1>5, <1>6
<1>10. e.known[b] = w.kn
  BY <1>1, <1>5, <1>6
<1>11. CASE NeedsRestart(r, v, w)
  <2> DEFINE served == [cfg.served EXCEPT ![b] = w.sv]
  <2>1. k = ApplyCandidate(served, e)
    BY <1>3, <1>11
  <2>2. served \in [Clients -> SUBSET Conns] /\ served[b] = w.sv
    BY <1>1, <1>4, <1>6 DEF Sound, View
  <2> HIDE DEF served, e
  <2>3. k.kind = "apply" /\ k.cfg.served = served /\ k.db.known = e.known
    BY <1>5, <2>1, <2>2, ApplyCandidateKeeps
  <2> QED
    BY <1>2, <1>8, <1>9, <1>10, <2>2, <2>3 DEF KnownStep
<1>12. CASE ~ NeedsRestart(r, v, w)
  <2>1. k = Candidate("db", cfg, e)
    BY <1>3, <1>12
  <2> HIDE DEF e
  <2>2. k.kind = "db" /\ k.cfg = cfg /\ k.db = e
    BY <2>1 DEF Candidate
  <2>3. r.op \notin {"add", "remove"}
    BY <1>12 DEF NeedsRestart
  <2> QED
    BY <1>2, <1>8, <1>9, <1>10, <2>2, <2>3 DEF KnownStep
<1> QED
  BY <1>11, <1>12

LEMMA SyncKnown ==
  ASSUME NEW r \in Requests, NEW cfg \in Configs, NEW d \in Stores,
         NEW k \in SyncCandidates(cfg, d)
  PROVE  KnownStep(k, cfg, d)
<1>1. k = ApplyCandidate(cfg.served, d) \/ k = Candidate("db", cfg, d)
  BY DEF SyncCandidates
<1>2. k.db.known = d.known /\ k.cfg.served = cfg.served
  BY <1>1 DEF ApplyCandidate, Candidate
<1> QED
  BY <1>2 DEF KnownStep

LEMMA PolicyKnown ==
  ASSUME NEW r \in Requests, NEW cfg \in Configs, NEW d \in Stores,
         NEW k \in PolicyCandidates(cfg, d)
  PROVE  KnownStep(k, cfg, d)
<1>1. PICK off, back : k = PolicyCandidate(cfg, d, off, back)
  BY DEF PolicyCandidates
<1>2. k.kind = "apply" /\ k.db.known = d.known
  BY <1>1 DEF PolicyCandidate, ApplyCandidate, Candidate
<1> QED
  BY <1>2 DEF KnownStep

LEMMA RouteKnown ==
  ASSUME NEW r \in Requests, NEW cfg \in Configs, NEW d \in Stores,
         NEW k \in RouteCandidates(r, cfg, d)
  PROVE  KnownStep(k, cfg, d)
<1> DEFINE b == r.client
           a == Adopt(ViewOf(cfg, d, b))
<1>1. b \in Clients
  BY DEF Requests
<1>2. k.cfg.served = cfg.served /\ k.db.known = [d.known EXCEPT ![b] = a.kn]
  BY DEF RouteCandidates, Candidate, WithView
<1>3. d.known \in [Clients -> SUBSET Conns]
  <2>1. SoundTable(d.known, d.on, d.route)
    BY StoresFields
  <2> QED
    BY <2>1 DEF SoundTable
<1>4. d.known[b] \subseteq a.kn /\ (d.known[b] = {} /\ a.kn # {} => cfg.served[b] # {})
  BY DEF Adopt, ViewOf
<1> HIDE DEF a, b
<1>5. k.db.known[b] = a.kn /\ \A c \in Clients \ {b} : k.db.known[c] = d.known[c]
  BY <1>1, <1>2, <1>3
<1> QED
  BY <1>2, <1>4, <1>5 DEF KnownStep

LEMMA CandidatesKnown ==
  ASSUME NEW r \in Requests, NEW cfg \in Configs, NEW d \in Stores, IsFiniteSet(Conns),
         NEW k \in Candidates(r, cfg, d)
  PROVE  KnownStep(k, cfg, d)
<1>1. CASE r.op = "sync"
  <2>1. k \in SyncCandidates(cfg, d)
    BY <1>1, Zenon DEF Candidates
  <2> QED
    BY <2>1, SyncKnown
<1>2. CASE r.op = "route"
  <2>1. k \in RouteCandidates(r, cfg, d)
    BY <1>2, Zenon DEF Candidates
  <2> QED
    BY <2>1, RouteKnown
<1>3. CASE r.op = "policy"
  <2>1. k \in PolicyCandidates(cfg, d)
    BY <1>3, Zenon DEF Candidates
  <2> QED
    BY <2>1, PolicyKnown
<1>4. CASE r.op \notin {"sync", "route", "policy"}
  <2>1. k \in CommandCandidates(r, cfg, d)
    BY <1>4, Zenon DEF Candidates
  <2> QED
    BY <2>1, CommandKnown
<1> QED
  BY <1>1, <1>2, <1>3, <1>4
=============================================================================
