---------------------------- MODULE Connections -----------------------------
(***************************************************************************)
(* The connections clients come in by.  A connection is an inbound of      *)
(* config.json and a record of manager.db; the default one is also written *)
(* down in server.env; one behind Caddy is also the site file of a domain. *)
(* The xray-client commands and the Reality menu change them under         *)
(* manager.lock; the Caddy menu edits site files without it, and the       *)
(* random-TLS timer rewrites a site under a lock of its own.               *)
(*                                                                         *)
(* commands/client.py (connection commands), clients/connections.py,       *)
(* commands/menu_reality_actions.py, commands/menu_caddy_actions.py and    *)
(* xray/caddy.py.                                                          *)
(*                                                                         *)
(* The data is a port and a look, which stands for SNI, transport or path. *)
(* A tag of Fronts is a Trojan WebSocket connection.                       *)
(***************************************************************************)
EXTENDS Routing

CONSTANTS
  Default,  \* INBOUND_TAG
  Reals,    \* tags of Reality inbounds, Default among them
  Fronts,   \* tags of inbounds meant to stand behind Caddy
  Ports, Looks,
  Domains   \* domains Caddy can serve

ASSUME ConnectionsAssumption ==
  /\ Default \in Reals
  /\ Reals \intersect Fronts = {} /\ Fronts # {}
  /\ \E p, q \in Ports : p # q
  /\ Looks # {} /\ Domains # {}
  /\ Nothing \notin Reals \union Fronts \union Ports \union Looks \union Domains

VARIABLES
  records,  \* connections of manager.db by tag
  sites,    \* /etc/caddy/conf.d: the site of each domain
  caddy,    \* the sites Caddy was last told to serve, or Down
  archive   \* the Caddy backup the admin made last

connectionVars == <<records, sites, caddy, archive>>

NoRecord == [port |-> Nothing, look |-> Nothing, host |-> Nothing, caddy |-> FALSE]
Record(port, look, host, behind) == [port |-> port, look |-> look, host |-> host, caddy |-> behind]
NoSite == [port |-> Nothing, look |-> Nothing, tls |-> "tls1.2"]
Site(port, look) == [port |-> port, look |-> look, tls |-> "tls1.2"]
Inbound(tag, port, look) == [tag |-> tag, port |-> port, look |-> look]

\* A server with the connection it was installed with and one Trojan connection.
Start == Inbound(Default, CHOOSE p \in Ports : TRUE, CHOOSE l \in Looks : TRUE)
StartFront == Inbound(CHOOSE t \in Fronts : TRUE, CHOOSE p \in Ports \ {Start.port} : TRUE, Start.look)
StartHost == CHOOSE d \in Domains : TRUE
FreshServer ==
  [outbounds |-> FreshRouting.outbounds, rules |-> FreshRouting.rules,
   strategy |-> FreshRouting.strategy, inbounds |-> <<Start, StartFront>>]

ConnectionsInit ==
  /\ records = [t \in Reals \union Fronts |->
                  CASE t = Default -> Record(Start.port, Start.look, Nothing, FALSE)
                    [] t = StartFront.tag -> Record(StartFront.port, StartFront.look, StartHost, TRUE)
                    [] OTHER -> NoRecord]
  /\ sites = [d \in Domains |-> IF d = StartHost THEN Site(StartFront.port, StartFront.look) ELSE NoSite]
  /\ caddy = sites /\ archive = sites

-----------------------------------------------------------------------------
(***************************************************************************)
(* clients/connections.py: what a command makes of the config and records. *)
(***************************************************************************)
In(c) == {c.inbounds[i].tag : i \in DOMAIN c.inbounds}
InboundOf(c, tag) == c.inbounds[Min({i \in DOMAIN c.inbounds : c.inbounds[i].tag = tag})]
RealsIn(c) == {i \in DOMAIN c.inbounds : c.inbounds[i].tag \in Reals}
PortsBeside(c, tag) == {c.inbounds[i].port : i \in {k \in DOMAIN c.inbounds : c.inbounds[k].tag # tag}}
Replaced(c, x) ==
  [c EXCEPT !.inbounds = [i \in DOMAIN @ |-> IF @[i].tag = x.tag THEN x ELSE @[i]]]

\* next_connection_tag and its siblings.
FreeTags(c, kind) == kind \ In(c)
NextTag(c, kind) == IF Default \in FreeTags(c, kind) THEN Default ELSE CHOOSE t \in FreeTags(c, kind) : TRUE

\* ensure_connections: every command first makes the records of the inbounds that are
\* there tell of them as they are; one without a record is taken to stand behind Caddy.
Ensured(c) ==
  [t \in DOMAIN records |->
     IF t \notin In(c) THEN records[t]
     ELSE Record(InboundOf(c, t).port, InboundOf(c, t).look, records[t].host,
                 records[t].caddy \/ (t \in Fronts /\ records[t] = NoRecord))]

\* What a command yields: the config, the records, and the connection that server.env is
\* to describe, when it is to be written.
Yields(c, recs, described) == [config |-> c, records |-> recs, described |-> described]

\* add_connection and its siblings for TLS and Trojan.
Added(a) ==
  LET tag == NextTag(config, a.kind)
  IN Yields([config EXCEPT !.inbounds = Append(@, Inbound(tag, a.port, a.look))],
            [Ensured(config) EXCEPT ![tag] = Record(a.port, a.look, a.host, a.caddy)], Nothing)

\* The domain a command leaves the connection with.
HostOf(a) == IF a.host = Nothing THEN records[a.tag].host ELSE a.host

\* The connection a command leaves, where it was asked to change it.
Becomes(a) ==
  LET x == InboundOf(config, a.tag)
  IN Inbound(a.tag, IF a.port = Nothing THEN x.port ELSE a.port, IF a.look = Nothing THEN x.look ELSE a.look)

Recorded(a) ==
  [Ensured(config) EXCEPT ![a.tag] = Record(Becomes(a).port, Becomes(a).look, HostOf(a), @.caddy)]

\* update_connection_transport, and the port and SNI of the Reality menu.
Changed(a) ==
  Yields(Replaced(config, Becomes(a)), Recorded(a), IF a.tag = Default THEN Becomes(a) ELSE Nothing)

\* update_trojan_connection.
TrojanChanged(a) == Yields(Replaced(config, Becomes(a)), Recorded(a), Nothing)

\* When the default connection goes, server.env describes the first that remains.
Removed(a) ==
  LET c == [config EXCEPT !.inbounds = Only(@, {x \in ToSet(@) : x.tag # a.tag})]
  IN Yields(c, [Ensured(config) EXCEPT ![a.tag] = NoRecord],
            IF a.tag = Default THEN c.inbounds[Min(RealsIn(c))] ELSE Nothing)

Result(j) ==
  CASE j.op = "connection add" -> Added(j.arg)
    [] j.op = "connection remove" -> Removed(j.arg)
    [] j.op = "trojan update" -> TrojanChanged(j.arg)
    [] OTHER -> Changed(j.arg)

\* Mutant of Permitted: the Reality menu relies on the check it made before the lock.
PermittedBefore(j) ==
  LET a == j.arg
  IN CASE j.op = "connection add" ->
            /\ a.port \notin PortsBeside(config, Nothing)
            /\ FreeTags(config, a.kind) # {}
            /\ a.caddy => sites[a.host] = NoSite
       [] j.op = "connection remove" ->
            a.tag \in In(config) /\ (a.tag \in Reals => Cardinality(RealsIn(config)) > 1)
       [] OTHER -> a.tag \in In(config)

\* What a command refuses under the lock.
Permitted(j) ==
  LET a == j.arg
      Absent == records[a.tag].caddy /\ HostOf(a) # records[a.tag].host => sites[HostOf(a)] = NoSite
  IN CASE j.op = "connection add" ->
            /\ a.port \notin PortsBeside(config, Nothing)
            /\ FreeTags(config, a.kind) # {}
            /\ a.caddy => sites[a.host] = NoSite
       [] j.op = "connection remove" ->
            a.tag \in In(config) /\ (a.tag \in Reals => Cardinality(RealsIn(config)) > 1)
       [] j.op = "trojan update" ->
            a.tag \in In(config) /\ a.port \notin PortsBeside(config, a.tag) /\ HostOf(a) # Nothing /\ Absent
       [] OTHER -> a.tag \in In(config) /\ a.port \notin PortsBeside(config, a.tag)

-----------------------------------------------------------------------------
(***************************************************************************)
(* The commands and menu items.                                            *)
(***************************************************************************)
Ask(tag, port, look, host) == [tag |-> tag, port |-> port, look |-> look, host |-> host]
AskNew(kind, port, look, host, behind) ==
  [kind |-> kind, port |-> port, look |-> look, host |-> host, caddy |-> behind]

\* parse_trojan_connection_add_args: a path behind Caddy, or behind another proxy.
AskFront(port, look, host, behind) == AskNew(Fronts, port, look, host, behind)

Stored == <<"load", "save", "try", "commit">>
Served == <<"put", "serve">>

AddReality(p) ==
  \E port \in Ports, look \in Looks :
    Begin(p, Command("connection add", AskNew(Reals, port, look, Nothing, FALSE), Stored))

\* With Caddy or with another proxy before it; the same steps for a TLS connection.
AddTrojan(p) ==
  \E port \in Ports, look \in Looks, host \in Domains, behind \in BOOLEAN :
    Begin(p, Command("connection add", AskFront(port, look, host, behind),
                     Stored \o IF behind THEN <<"absent">> \o Served ELSE <<>>))

Transport(p) ==
  \E tag \in Reals, look \in Looks :
    Begin(p, Command("connection transport", Ask(tag, Nothing, look, Nothing), Stored \o <<"env">>))

RemoveConnection(p) ==
  \E tag \in Reals \union Fronts :
    Begin(p, Command("connection remove", Ask(tag, Nothing, Nothing, Nothing), Stored \o <<"env">>))

UpdateTrojan(p) ==
  \E tag \in Fronts, port \in Ports \union {Nothing}, look \in Looks \union {Nothing}, host \in Domains \union {Nothing} :
    /\ tag \in In(config) /\ <<port, look, host>> # <<Nothing, Nothing, Nothing>>
    /\ Begin(p, Command("trojan update", Ask(tag, port, look, host), Stored \o Served))

\* The Reality menu: the answers are checked when given, and again under the lock.
Reality(p) ==
  \E tag \in Reals \intersect In(config), port \in Ports \union {Nothing}, look \in Looks \union {Nothing} :
    /\ port \notin PortsBeside(config, tag)
    /\ port # Nothing \/ look # Nothing
    /\ Begin(p, Command("menu reality", Ask(tag, port, look, Nothing),
         <<"load", "save", "try", "record">> \o IF tag = Default THEN <<"describe">> ELSE <<>>))

\* The Caddy menu takes no lock; what it writes is what it read when the site was chosen.
CreateSite(p) ==
  \E d \in Domains, port \in Ports, look \in Looks :
    Begin(p, Unlocked("site create", [at |-> d, text |-> Site(port, look)], Served))

SiteUpstream(p) ==
  \E d \in Domains, port \in Ports :
    sites[d] # NoSite /\ Begin(p, Unlocked("site upstream",
                                 [at |-> d, text |-> [sites[d] EXCEPT !.port = port]], Served))

SiteTls(p) ==
  \E d \in Domains : sites[d] # NoSite /\ Begin(p, Unlocked("site tls", [at |-> d, text |-> Nothing], Served))

SiteDomain(p) ==
  \E d \in Domains : \E to \in Domains \ {d} :
    sites[d] # NoSite /\ Begin(p, Unlocked("site domain", [at |-> d, to |-> to, text |-> sites[d]], Served))

DeleteSite(p) ==
  \E d \in Domains : sites[d] # NoSite /\ Begin(p, Unlocked("site delete", [at |-> d, text |-> NoSite], Served))

CaddyBackups(p) ==
  \/ Begin(p, Unlocked("caddy backup", Nothing, <<"archive">>))
  \/ Begin(p, Unlocked("caddy restore", Nothing, <<"extract", "serve">>))

\* The timer of a site, or the admin, switches its TLS version.
RandomTls(p) ==
  \E d \in Domains : Begin(p, Unlocked("tls switch", [at |-> d, text |-> Nothing], <<"seek">> \o Served))

ConnectionOps == {"connection add", "connection transport", "connection remove", "trojan update", "menu reality"}
SiteEdits == {"site create", "site upstream", "site domain", "site delete", "caddy restore"}

-----------------------------------------------------------------------------
(***************************************************************************)
(* Their steps.  save_config_restart_xray_and_db puts every client's rule  *)
(* right again and stores the choices with the records.                    *)
(***************************************************************************)
Settled(c) == IF Active(c) = Nothing THEN c ELSE ClientRules(c, Defaults(c, choice))

LoadConnection(p) ==
  /\ At(p, "load") /\ MayEnter(p) /\ job[p].op \in ConnectionOps
  /\ LET j == job[p]
         g == Result(j)
         menu == j.op = "menu reality"
         only == \/ j.op \in {"connection transport", "connection remove"} /\ g.described = Nothing
                 \/ j.op = "trojan update" /\ ~records[j.arg.tag].caddy
         rest == IF only THEN Tail(Stored) ELSE Tail(j.plan)
     IN IF ~Readable \/ ~Permitted(j) THEN Then(p, [j EXCEPT !.plan = <<>>])
        ELSE Then(p, [j EXCEPT !.plan = rest, !.in = TRUE,
                        !.new = IF menu THEN g.config ELSE Settled(g.config),
                        !.rows = [records |-> g.records, old |-> records,
                                  choice |-> IF menu THEN choice ELSE Defaults(g.config, choice)],
                        !.env = [env EXCEPT !.described = g.described]])
  /\ Enters(p)
  /\ UNCHANGED <<kit, did, mishaps, torn>> /\ UNCHANGED files /\ UNCHANGED routingVars /\ UNCHANGED connectionVars

\* save_db; a failure leads to the same rollback as a failed start.
Commit(p) ==
  /\ At(p, "commit")
  /\ \/ /\ records' = job[p].rows.records /\ choice' = job[p].rows.choice
        /\ Follow(p) /\ Goes
     \/ /\ Fails /\ UNCHANGED <<records, choice>>
        /\ Then(p, [job[p] EXCEPT !.plan = job[p].back])
  /\ UNCHANGED <<kit, did, routes, blocks, env, sites, caddy, archive>> /\ UNCHANGED files /\ UNCHANGED fate

\* update_connection_db and write_server_env of the menu: nothing undoes the config.
NoteRecord(p) ==
  /\ At(p, "record")
  /\ \/ records' = job[p].rows.records /\ Follow(p) /\ Goes /\ torn' = torn
     \/ Fails /\ torn' = TRUE /\ UNCHANGED records /\ Then(p, [job[p] EXCEPT !.plan = <<>>])
  /\ UNCHANGED <<kit, did, crossed, sites, caddy, archive>> /\ UNCHANGED files /\ UNCHANGED routingVars

Describe(p) ==
  /\ At(p, "describe")
  /\ \/ env' = [env EXCEPT !.described = job[p].env.described] /\ Follow(p) /\ Goes /\ torn' = torn
     \/ Fails /\ torn' = TRUE /\ UNCHANGED env /\ Then(p, [job[p] EXCEPT !.plan = <<>>])
  /\ UNCHANGED <<kit, did, crossed, choice, routes, blocks>> /\ UNCHANGED files /\ UNCHANGED connectionVars

-----------------------------------------------------------------------------
(***************************************************************************)
(* Site files and Caddy.                                                   *)
(***************************************************************************)
\* The site files after a command has written its own; the menu's TLS item edits the
\* text that is there, the timer writes again what it read.
Flipped(site) == [site EXCEPT !.tls = IF @ = "tls1.2" THEN "tls1.3" ELSE "tls1.2"]

\* update_trojan_caddy_site.
TrojanSites(from, now) == [sites EXCEPT ![from] = NoSite, ![now.host] = Site(now.port, now.look)]

Written(j) ==
  CASE j.op = "site tls" -> [sites EXCEPT ![j.arg.at] = Flipped(@)]
    [] j.op = "owner tls" -> [sites EXCEPT ![j.arg.at].tls = j.arg.tls]
    [] j.op = "tls switch" -> [sites EXCEPT ![j.arg.at] = Flipped(j.kept)]
    [] j.op = "site domain" -> [sites EXCEPT ![j.arg.at] = NoSite, ![j.arg.to] = j.arg.text]
    [] j.op = "connection add" -> [sites EXCEPT ![j.arg.host] = Site(j.arg.port, j.arg.look)]
    [] j.op = "trojan update" -> TrojanSites(j.rows.old[j.arg.tag].host, j.rows.records[j.arg.tag])
    [] OTHER -> [sites EXCEPT ![j.arg.at] = j.arg.text]

\* The files a command wrote.
Touched(j) ==
  CASE j.op = "caddy restore" -> Domains
    [] j.op = "connection add" -> {j.arg.host}
    [] j.op = "trojan update" -> {j.rows.old[j.arg.tag].host, j.rows.records[j.arg.tag].host}
    [] j.op = "site domain" -> {j.arg.at, j.arg.to}
    [] OTHER -> {j.arg.at}

\* Mutant of Refusal: the record of a refused update stays.
RefusalKeepsRecord(j) ==
  CASE j.op = "connection add" -> <<>>
    [] j.op = "trojan update" -> <<"take back", "reload", "undo", "redo">>
    [] OTHER -> <<"take back", "reload">>

\* What follows when Caddy refuses: a new connection stays, an update of a Trojan one is
\* undone with its config and record, the others put their files back.
Refusal(j) ==
  CASE j.op = "connection add" -> <<>>
    [] j.op = "trojan update" -> <<"take back", "reload", "undo", "redo", "uncommit">>
    [] j.op = "owner tls" -> <<"take back", "reload", "reply">>
    [] OTHER -> <<"take back", "reload">>

\* setup_caddy_for_trojan_ws looks for the site once more.
Absent(p) ==
  /\ At(p, "absent")
  /\ IF sites[job[p].arg.host] = NoSite THEN Follow(p) /\ torn' = torn
     ELSE Then(p, [job[p] EXCEPT !.plan = <<>>]) /\ torn' = TRUE
  /\ UNCHANGED <<kit, did, mishaps, crossed>> /\ UNCHANGED files /\ UNCHANGED routingVars /\ UNCHANGED connectionVars

\* apply_random_tls_switch waits for the lock of its own and reads the site.
Seek(p) ==
  /\ At(p, "seek")
  /\ ~\E q \in Procs : job[q].op = "tls switch" /\ job[q].in
  /\ LET site == sites[job[p].arg.at]
     IN IF site = NoSite THEN Then(p, [job[p] EXCEPT !.plan = <<>>])
        ELSE Then(p, [Next1(job[p]) EXCEPT !.in = TRUE, !.kept = site])
  /\ Enters(p)
  /\ UNCHANGED <<kit, did, mishaps, torn>> /\ UNCHANGED files /\ UNCHANGED routingVars /\ UNCHANGED connectionVars

\* Backups beside the files, then the files.  What takes no lock enters here at the latest.
Put(p) ==
  /\ At(p, "put")
  /\ IF job[p].op \in {"site tls", "owner tls"} /\ sites[job[p].arg.at] = NoSite
     THEN Then(p, [job[p] EXCEPT !.plan = IF job[p].op = "owner tls" THEN <<"reply">> ELSE <<>>]) /\ UNCHANGED sites
     ELSE /\ sites' = Written(job[p])
          /\ Then(p, [Next1(job[p]) EXCEPT !.in = TRUE, !.kept = sites])
  /\ Enters(p)
  /\ UNCHANGED <<kit, did, mishaps, torn, records, caddy, archive>> /\ UNCHANGED files
  /\ UNCHANGED routingVars

\* restore_config_backup of the Caddy menu.
Extract(p) ==
  /\ At(p, "extract")
  /\ sites' = archive
  /\ Then(p, [Next1(job[p]) EXCEPT !.in = TRUE, !.kept = sites])
  /\ Enters(p)
  /\ UNCHANGED <<kit, did, mishaps, torn, records, caddy, archive>> /\ UNCHANGED files
  /\ UNCHANGED routingVars

\* validate_and_reload_caddy: a refused text leaves Caddy as it was, a failed restart
\* leaves none.
Serve(p) ==
  /\ At(p, "serve")
  /\ \/ caddy' = sites /\ Follow(p) /\ Goes /\ torn' = torn
     \/ /\ caddy' \in {caddy, Down} /\ Fails
        /\ Then(p, [job[p] EXCEPT !.plan = Refusal(job[p])])
        /\ torn' = (torn \/ job[p].op = "connection add")
  /\ UNCHANGED <<kit, did, crossed, records, sites, archive>> /\ UNCHANGED files /\ UNCHANGED routingVars

TakeBack(p) ==
  /\ At(p, "take back")
  /\ sites' = [d \in Domains |-> IF d \in Touched(job[p]) THEN job[p].kept[d] ELSE sites[d]]
  /\ Follow(p)
  /\ UNCHANGED <<kit, did, mishaps, records, caddy, archive>> /\ UNCHANGED files /\ UNCHANGED fate
  /\ UNCHANGED routingVars

\* The files are back; a Caddy that refuses them too is only ignored.
Reload(p) ==
  /\ At(p, "reload")
  /\ \/ caddy' = sites /\ Goes /\ torn' = torn
     \/ caddy' \in {caddy, Down} /\ Fails /\ torn' = TRUE
  /\ Follow(p)
  /\ UNCHANGED <<kit, did, crossed, records, sites, archive>> /\ UNCHANGED files /\ UNCHANGED routingVars

\* restore_after_update: the records as they were before the command.
Uncommit(p) ==
  /\ At(p, "uncommit")
  /\ \/ records' = job[p].rows.old /\ Goes /\ torn' = torn
     \/ Fails /\ torn' = TRUE /\ UNCHANGED records
  /\ Follow(p)
  /\ UNCHANGED <<kit, did, crossed, sites, caddy, archive>> /\ UNCHANGED files /\ UNCHANGED routingVars

Archive(p) ==
  /\ At(p, "archive") /\ archive' = sites /\ Follow(p)
  /\ UNCHANGED <<kit, did, mishaps, records, sites, caddy>> /\ UNCHANGED files /\ UNCHANGED fate
  /\ UNCHANGED routingVars

ConnectionsProgress(p) ==
  \/ LoadConnection(p) \/ Commit(p) \/ NoteRecord(p) \/ Describe(p) \/ Absent(p) \/ Seek(p) \/ Put(p) \/ Extract(p)
  \/ Serve(p) \/ TakeBack(p) \/ Reload(p) \/ Uncommit(p) \/ Archive(p)

ConnectionsNext ==
  \E p \in Procs :
    \/ /\ \/ AddReality(p) \/ AddTrojan(p) \/ Transport(p) \/ RemoveConnection(p) \/ UpdateTrojan(p) \/ Reality(p)
          \/ CreateSite(p) \/ SiteUpstream(p) \/ SiteTls(p) \/ SiteDomain(p) \/ DeleteSite(p)
          \/ CaddyBackups(p) \/ RandomTls(p)
       /\ UNCHANGED routingVars /\ UNCHANGED connectionVars
    \/ ConnectionsProgress(p)

-----------------------------------------------------------------------------
(***************************************************************************)
(* Properties.                                                             *)
(***************************************************************************)
\* A config.json that can be read has sound routes, keeps a Reality connection, and no two
\* of its connections share a tag or a port, whatever was checked before the lock; and half
\* a file is left only where a command was killed or failed while putting one back.
InboundsSound(c) ==
  /\ RealsIn(c) # {}
  /\ \A i, k \in DOMAIN c.inbounds :
       i # k => c.inbounds[i].tag # c.inbounds[k].tag /\ c.inbounds[i].port # c.inbounds[k].port
ConfigSound ==
  /\ Readable => RoutesSound(config) /\ InboundsSound(config)
  /\ AllIdle /\ ~torn => Readable

\* manager.db and config.json tell of the same connections, server.env of the default
\* one as it is, and the domain of a connection behind Caddy leads to that connection as
\* long as the admin edits no site by hand; after a command that failed half-way too.
LeadsTo(t) ==
  records[t].caddy =>
    sites[records[t].host].port = records[t].port /\ sites[records[t].host].look = records[t].look
StoresMatch ==
  Whole =>
    /\ \A t \in Reals \union Fronts :
         IF t \in In(config)
         THEN records[t].port = InboundOf(config, t).port /\ records[t].look = InboundOf(config, t).look
         ELSE records[t] = NoRecord
    /\ env.described.tag = Default => Default \in In(config) /\ env.described = InboundOf(config, Default)
    /\ kit.ops \intersect SiteEdits = {} => \A t \in Fronts : LeadsTo(t)

\* The part of ServicesFollow that is Caddy's.
CaddyFollows == AllIdle /\ ~torn => caddy = sites
=============================================================================
