------------------------------ MODULE Routing -------------------------------
(***************************************************************************)
(* Where traffic leaves the server: cascades, WARP, GeoIP bypass routes,   *)
(* the blocklist and the watched GeoIP region all live in one list of      *)
(* outbounds and one ordered list of rules in config.json, and each keeps  *)
(* rows of its own in manager.db and keys of its own in server.env.        *)
(*                                                                         *)
(* commands/set_cascade.py, warp.py, set_bypass.py, xray/cascade.py,       *)
(* xray/bypass.py, xray/client_routes.py, xray/blocklist.py,               *)
(* activity/blocklist.py, the region items of                              *)
(* commands/menu_activity_actions.py and the torrent items of              *)
(* commands/menu_xray_actions.py.                                          *)
(*                                                                         *)
(* An outbound is its tag and whose settings it carries; the tag of the    *)
(* outbound geoip-warning-REGION is the region.  A rule is its kind, whom  *)
(* it is of, and the tag it leads to; a client's rule and balancer are     *)
(* one; a temporary inbound and its rule are one rule of kind probe.       *)
(***************************************************************************)
EXTENDS Server

CONSTANTS
  Clients,   \* clients of manager.db
  Cascades,  \* tags cascade-NAME
  Bypasses,  \* tags bypass-NAME
  Regions,   \* GeoIP regions
  Targets,   \* what the blocklist blocks
  Timer      \* the process the activity timer starts every minute

\* The prefixes of the tags keep the families apart.
ASSUME RoutingAssumption ==
  /\ Timer \in Procs
  /\ IsFiniteSet(Clients) /\ IsFiniteSet(Regions)
  /\ Cascades \intersect (Bypasses \union Regions) = {} /\ Bypasses \intersect Regions = {}
  /\ \A tag \in {"direct", "blocked", "warp", Nothing} : tag \notin Cascades \union Bypasses \union Regions
  /\ Nothing \notin {"direct", "blocked", "warp"}

VARIABLES
  choice,  \* selectedCascadeTag of each client
  routes,  \* bypass_routes: region and enabled, by tag
  blocks,  \* activity_blocklist: each target's row: none, on or expired
  env      \* server.env: domainStrategy before the first GeoIP rule, the watched region,
           \* and the connection it describes

routingVars == <<choice, routes, blocks, env>>

NoRow == [region |-> Nothing, enabled |-> FALSE]
Own == "AsIs"  \* the domainStrategy the admin had
FreshRouting ==
  [outbounds |-> <<[tag |-> "direct", as |-> "direct"], [tag |-> "blocked", as |-> "blocked"]>>,
   rules |-> <<>>, strategy |-> Own]

RoutingInit(described) ==
  /\ choice = [c \in Clients |-> Nothing]
  /\ routes = [b \in Bypasses |-> NoRow]
  /\ blocks = [t \in Targets |-> "none"]
  /\ env = [prev |-> Nothing, watched |-> Nothing, described |-> described]

-----------------------------------------------------------------------------
(***************************************************************************)
(* xray/cascade.py: outbounds and the catch-all rule.                      *)
(***************************************************************************)
Rule(kind, of, to) == [kind |-> kind, of |-> of, to |-> to]
Tags(c) == {c.outbounds[i].tag : i \in DOMAIN c.outbounds}
PlacesOf(c, tags) == {i \in DOMAIN c.outbounds : c.outbounds[i].tag \in tags}
SettingsOf(c, tag) == c.outbounds[Min(PlacesOf(c, {tag}))].as
First(c) ==
  IF PlacesOf(c, Cascades) = {} THEN Nothing ELSE c.outbounds[Min(PlacesOf(c, Cascades))].tag

\* The elements of s that are in S, in their order.
Only(s, S) ==
  LET kept[i \in 0 .. Len(s)] ==
        IF i = 0 THEN <<>> ELSE IF s[i] \in S THEN Append(kept[i - 1], s[i]) ELSE kept[i - 1]
  IN kept[Len(s)]

RulesIn(c) == ToSet(c.rules)
WithoutRules(c, drop) == [c EXCEPT !.rules = Only(@, ToSet(@) \ drop)]
WithoutOutbounds(c, tags) == [c EXCEPT !.outbounds = Only(@, {o \in ToSet(@) : o.tag \notin tags})]
Append1(c, tag, as) == [c EXCEPT !.outbounds = Append(@, [tag |-> tag, as |-> as])]

\* The place of a rule: before the first rule of these kinds.
Before(c, kinds, rule) ==
  LET at == {i \in DOMAIN c.rules : c.rules[i].kind \in kinds}
  IN [c EXCEPT !.rules = InsertAt(@, IF at = {} THEN Len(@) + 1 ELSE Min(at), rule)]

Catchall(c) ==
  LET at == {i \in DOMAIN c.rules : c.rules[i].kind = "catchall"}
  IN IF at = {} THEN Nothing ELSE c.rules[Max(at)].to
Active(c) == IF Catchall(c) \in Cascades \intersect Tags(c) THEN Catchall(c) ELSE Nothing

WithoutCatchall(c) == WithoutRules(c, {r \in RulesIn(c) : r.kind = "catchall"})

Activate(c, tag) ==
  [WithoutCatchall(c) EXCEPT !.rules = Append(@, Rule("catchall", {}, tag))]

\* An outbound takes its own place again, or follows the last one of its family;
\* direct stays first.
Upsert(c, tag, family) ==
  IF tag \in Tags(c) THEN c
  ELSE [c EXCEPT !.outbounds =
          InsertAt(@, Max(PlacesOf(c, family) \union {1}) + 1, [tag |-> tag, as |-> tag])]

\* move_cascade_to_front: before the other cascades.
ToFront(c, tag) ==
  LET first == Min(PlacesOf(c, Cascades))
      others == {o \in ToSet(c.outbounds) : o.tag # tag}
  IN [c EXCEPT !.outbounds = SubSeq(@, 1, first - 1) \o <<[tag |-> tag, as |-> tag]>>
                             \o Only(SubSeq(@, first, Len(@)), others)]

-----------------------------------------------------------------------------
(***************************************************************************)
(* xray/client_routes.py.                                                  *)
(***************************************************************************)
WithoutClients(c) == WithoutRules(c, {r \in RulesIn(c) : r.kind = "client"})

\* assign_default_client_routes: a client whose choice is not configured gets the
\* active cascade.
Defaults(c, chosen) ==
  [x \in Clients |->
     IF Active(c) = Nothing \/ chosen[x] \in Tags(c) THEN chosen[x] ELSE Active(c)]

\* Mutant of ClientRules: they go after the catch-all.
ClientRulesAfter(c, chosen) ==
  IF Active(c) = Nothing THEN WithoutClients(c)
  ELSE [WithoutClients(c) EXCEPT !.rules =
          @ \o [i \in 1 .. Cardinality(Clients) |->
             LET x == SetToSeq(Clients)[i] IN Rule("client", {x}, chosen[x])]]

\* ensure_all_client_route_config: one rule per client, under a cascade catch-all only.
ClientRules(c, chosen) ==
  LET without == WithoutClients(c)
      rules == [i \in 1 .. Cardinality(Clients) |->
                  LET x == SetToSeq(Clients)[i] IN Rule("client", {x}, chosen[x])]
      at == Min({i \in DOMAIN without.rules : without.rules[i].kind = "catchall"})
  IN IF Active(c) = Nothing THEN without
     ELSE [without EXCEPT !.rules =
             SubSeq(@, 1, at - 1) \o rules \o SubSeq(@, at, Len(@))]

-----------------------------------------------------------------------------
(***************************************************************************)
(* xray/bypass.py: the outbounds geoip-warning-REGION.                     *)
(***************************************************************************)
WarningRule(r) == Rule("warning", {r}, r)
Warned(c) == Regions \intersect (Tags(c) \union {c.rules[i].to : i \in DOMAIN c.rules})

\* matching_bypass_outbound_for_warning: the region's copy is one of a bypass route.
Covered(c, r) ==
  r \in Tags(c) /\ SettingsOf(c, r) \in Bypasses /\ SettingsOf(c, r) \in Tags(c)

EnabledRoute(r) == {b \in Bypasses : routes[b].region = r /\ routes[b].enabled}

CatchallSource(c, source) ==
  IF Catchall(c) \in Tags(c) THEN SettingsOf(c, Catchall(c))
  ELSE IF source # Nothing THEN source
  ELSE "direct"

\* warning_source_outbound, given the enabled routes that were read.
WarningSource(c, r, source, enabled) ==
  IF enabled \intersect Tags(c) # {} THEN CHOOSE b \in enabled \intersect Tags(c) : TRUE
  ELSE IF Covered(c, r) THEN SettingsOf(c, r)
  ELSE CatchallSource(c, source)

\* sync_geoip_warning_outbounds: every copy is made again from its present source.
SyncWarnings(c, source) ==
  LET warned == SetToSeq(Warned(c))
      Copy(r) == [tag |-> r, as |-> WarningSource(c, r, source, EnabledRoute(r))]
  IN [c EXCEPT !.outbounds =
        WithoutOutbounds(c, Regions).outbounds \o [i \in DOMAIN warned |-> Copy(warned[i])]]

\* ensure_geoip_warning_outbound and ensure_geoip_warning_rule.
Warn(c, r, as) ==
  LET copied == Append1(WithoutOutbounds(c, {r}), r, as)
  IN IF \E i \in DOMAIN c.rules : c.rules[i] = WarningRule(r) THEN copied
     ELSE Before(copied, {"client", "catchall"}, WarningRule(r))

Unwarn(c, regions) ==
  WithoutRules(WithoutOutbounds(c, regions), {WarningRule(r) : r \in regions})

\* Mutant of KeepStrategy: kept again at every GeoIP rule.
KeepStrategyAgain(c, e) == [e EXCEPT !.prev = c.strategy]

\* ensure_geoip_domain_strategy: the previous strategy is kept in server.env.
KeepStrategy(c, e) ==
  IF e.prev = Nothing /\ c.strategy # "IPOnDemand" THEN [e EXCEPT !.prev = c.strategy] ELSE e

OnDemand(c) == [c EXCEPT !.strategy = "IPOnDemand"]

\* restore_geoip_domain_strategy_if_unused.
Unused(c) == ~\E i \in DOMAIN c.rules : c.rules[i].kind = "warning"
Restored(c, e) ==
  IF ~Unused(c) THEN c
  ELSE IF e.prev # Nothing THEN [c EXCEPT !.strategy = e.prev]
  ELSE [c EXCEPT !.strategy = IF @ = "IPOnDemand" THEN "IPIfNonMatch" ELSE @]
RestoredEnv(c, e) == IF Unused(c) THEN [e EXCEPT !.prev = Nothing] ELSE e

-----------------------------------------------------------------------------
(***************************************************************************)
(* xray/blocklist.py.                                                      *)
(***************************************************************************)
BlockedIn(c) == UNION {c.rules[i].of : i \in {j \in DOMAIN c.rules : c.rules[j].kind = "block"}}

SyncBlocks(c, active, known) ==
  LET Kept(r) == IF r.kind = "block" THEN [r EXCEPT !.of = @ \ (known \union active)] ELSE r
      less == [i \in DOMAIN c.rules |-> Kept(c.rules[i])]
      kept == [c EXCEPT !.rules = Only(less, {r \in ToSet(less) : r.kind # "block" \/ r.of # {}})]
  IN IF active = {} THEN kept
     ELSE Before(kept, {"warning", "client", "catchall"}, Rule("block", active, "blocked"))

\* insert_torrent_rule: before everything.
Torrents(c, blocked) ==
  LET rest == WithoutRules(c, {r \in RulesIn(c) : r.kind = "torrent"})
  IN IF blocked THEN [rest EXCEPT !.rules = <<Rule("torrent", {}, "blocked")>> \o @] ELSE rest

-----------------------------------------------------------------------------
(***************************************************************************)
(* What each command computes from the config, rows and env it loads.      *)
(***************************************************************************)
Gives(c) == [config |-> c, choice |-> choice, routes |-> routes, env |-> env]
GivesChoice(c, chosen) ==
  LET picked == Defaults(c, chosen)
  IN [Gives(ClientRules(c, picked)) EXCEPT !.choice = picked]

SetActive(c, tag) == SyncWarnings(Activate(ToFront(c, tag), tag), tag)

\* The first cascade becomes the catch-all; another is only added.
CascadeAdd(tag) ==
  LET added == Upsert(config, tag, Cascades)
  IN GivesChoice(IF First(config) = Nothing THEN SyncWarnings(Activate(added, tag), tag)
                 ELSE SyncWarnings(added, Nothing),
                 Defaults(config, choice))

CascadeUse(tag) == GivesChoice(SetActive(config, tag), choice)

CascadeRemove(tag) ==
  LET less == WithoutRules(WithoutOutbounds(config, {tag}), {r \in RulesIn(config) : r.to = tag})
      after == IF Active(config) = tag /\ First(less) # Nothing
               THEN SetActive(less, First(less)) ELSE SyncWarnings(less, Nothing)
      moved == [x \in Clients |-> IF choice[x] = tag THEN Active(after) ELSE choice[x]]
  IN [Gives(after) EXCEPT !.choice = Defaults(after, moved)]

CascadeOff ==
  Gives(SyncWarnings(WithoutClients(
          WithoutRules(config, {r \in RulesIn(config) : r.kind = "catchall" /\ r.to \in Cascades})), Nothing))

WithWarp(c) == IF "warp" \in Tags(c) THEN c ELSE Append1(c, "warp", "warp")
WarpClean(c) == WithoutRules(c, {r \in RulesIn(c) : r.kind = "probe" /\ r.of = {"warp"}})

WarpEnable == Gives(Activate(WithoutClients(WarpClean(WithWarp(config))), "warp"))

WarpDisable ==
  LET plain == WithoutCatchall(WarpClean(config))
  IN GivesChoice(IF First(plain) = Nothing THEN plain ELSE Activate(plain, First(plain)), choice)

WarpRemove == [WarpDisable EXCEPT !.config = WithoutOutbounds(@, {"warp"})]

BypassOff(g, r) ==
  LET c == Unwarn(g.config, {r})
  IN [g EXCEPT !.config = Restored(c, g.env), !.env = RestoredEnv(c, g.env)]

\* apply_enable: the other enabled route of the region is switched off first.
BypassOn(g, tag, r) ==
  LET others == EnabledRoute(r) \ {tag}
      alone == IF others = {} THEN g ELSE BypassOff(g, r)
  IN [config |-> OnDemand(Warn(alone.config, r, tag)),
      env |-> KeepStrategy(alone.config, alone.env),
      choice |-> g.choice,
      routes |-> [b \in Bypasses |->
                    IF b = tag THEN [region |-> r, enabled |-> TRUE]
                    ELSE IF b \in others THEN [routes[b] EXCEPT !.enabled = FALSE] ELSE routes[b]]]

BypassAdd(tag, r) == BypassOn(Gives(Upsert(config, tag, Bypasses)), tag, r)
BypassEnable(tag, r) == BypassOn(Gives(config), tag, r)
BypassRegion(tag, r) ==
  IF routes[tag].enabled THEN BypassOn(BypassOff(Gives(config), routes[tag].region), tag, r)
  ELSE [Gives(config) EXCEPT !.routes[tag].region = r]
BypassDisable(tag) ==
  [BypassOff(Gives(config), routes[tag].region) EXCEPT !.routes[tag].enabled = FALSE]
BypassRemove(tag) ==
  [BypassOff(Gives(WithoutOutbounds(config, {tag})), routes[tag].region) EXCEPT !.routes[tag] = NoRow]

\* The menu: the previous region is let go unless a bypass route covers it.
Watch(r) ==
  LET old == env.watched
      c == IF old \in {Nothing, r} \/ Covered(config, old) THEN config ELSE Unwarn(config, {old})
  IN [Gives(OnDemand(Warn(c, r, WarningSource(c, r, Nothing, {})))) EXCEPT
        !.env = [KeepStrategy(c, env) EXCEPT !.watched = r]]

Unwatch ==
  LET mine == IF env.watched # Nothing THEN {env.watched} ELSE Warned(config)
      c == Unwarn(config, {r \in mine : ~Covered(config, r)})
  IN [Gives(Restored(c, env)) EXCEPT !.env = [RestoredEnv(c, env) EXCEPT !.watched = Nothing]]

Outcome(j) ==
  CASE j.op = "cascade add" -> CascadeAdd(j.arg)
    [] j.op = "cascade use" -> CascadeUse(j.arg)
    [] j.op = "cascade remove" -> CascadeRemove(j.arg)
    [] j.op = "cascade off" -> CascadeOff
    [] j.op = "warp create" -> Gives(WithWarp(config))
    [] j.op = "warp enable" -> WarpEnable
    [] j.op = "warp disable" -> WarpDisable
    [] j.op = "warp remove" -> WarpRemove
    [] j.op = "bypass add" -> BypassAdd(j.arg.tag, j.arg.region)
    [] j.op = "bypass enable" -> BypassEnable(j.arg.tag, j.arg.region)
    [] j.op = "bypass region" -> BypassRegion(j.arg.tag, j.arg.region)
    [] j.op = "bypass disable" -> BypassDisable(j.arg.tag)
    [] j.op = "bypass remove" -> BypassRemove(j.arg.tag)
    [] j.op = "watch" -> Watch(j.arg)
    [] j.op = "unwatch" -> Unwatch
    [] j.op = "torrents" -> Gives(Torrents(config, j.arg))
    [] OTHER -> Gives(SyncBlocks(config, j.rows.active, j.rows.known))

-----------------------------------------------------------------------------
(***************************************************************************)
(* The commands: what they ask before the lock, and the steps after it.    *)
(***************************************************************************)
Command(op, arg, plan) ==
  [Idle EXCEPT !.op = op, !.arg = arg, !.locked = TRUE, !.plan = plan, !.back = <<"undo", "redo">>]
Unlocked(op, arg, plan) == [Command(op, arg, plan) EXCEPT !.locked = FALSE]

Trial == <<"probe", "unprobe", "redo">>

Cascade(p) ==
  \/ \E tag \in Cascades, op \in {"cascade add", "cascade use", "cascade remove"} :
       Begin(p, Command(op, tag, <<"load", "save", "try", "rows">>))
  \/ Begin(p, Command("cascade off", Nothing, <<"load", "save", "try">>))
TestCascade(p) == \E tag \in Cascades : Begin(p, Command("cascade test", tag, Trial))

Warp(p) ==
  \/ Begin(p, Command("warp create", "warp", Trial \o <<"load", "save", "try">>))
  \/ Begin(p, Command("warp enable", "warp", <<"load">> \o Trial \o <<"save", "try">>))
  \/ Begin(p, Command("warp disable", "warp", <<"load", "save", "try", "rows">> \o Trial))
  \/ Begin(p, Command("warp remove", "warp", <<"load", "save", "try", "rows">>))
TestWarp(p) == Begin(p, Command("warp test", "warp", Trial))

\* confirm_region_conflict: the admin agrees to replace the route that is enabled now.
AskBypass(p, op, tag, r) ==
  \E replace \in {FALSE, EnabledRoute(r) \ {tag} # {}} :
    Begin(p, Command(op,
      [tag |-> tag, region |-> r, replace |-> replace,
       agreed |-> IF replace THEN {} ELSE EnabledRoute(r) \ {tag}, row |-> routes[tag]],
      <<"load", "save", "try", "rows", "env">>))

AddBypass(p) == \E tag \in Bypasses, r \in Regions : AskBypass(p, "bypass add", tag, r)
EnableBypass(p) ==
  \E tag \in Bypasses \intersect Tags(config), r \in Regions :
    routes[tag].region \in {r, Nothing} /\ AskBypass(p, "bypass enable", tag, r)
MoveBypass(p) == \E tag \in Bypasses, r \in Regions : AskBypass(p, "bypass region", tag, r)
DropBypass(p) ==
  \E tag \in Bypasses, r \in Regions, op \in {"bypass disable", "bypass remove"} :
    routes[tag].region = r /\ AskBypass(p, op, tag, r)
TestBypass(p) == \E tag \in Bypasses : Begin(p, Command("bypass test", tag, Trial))
Bypass(p) == AddBypass(p) \/ EnableBypass(p) \/ MoveBypass(p) \/ DropBypass(p) \/ TestBypass(p)

\* The menus of the activity component and of Xray take no lock.
Menu(p) ==
  \/ \E blocked \in BOOLEAN : Begin(p, Unlocked("torrents", blocked, <<"load", "save", "try">>))
  \/ \E r \in Regions : Begin(p, Unlocked("watch", r, <<"load", "save", "try", "env">>))
  \/ Begin(p, Unlocked("unwatch", Nothing, <<"load", "save", "try", "env">>))

\* Nor does the blocklist: block-add and block-delete, and every minute the timer.
Block(p) ==
  \E t \in Targets, op \in {"block", "unblock"} :
    /\ op = "unblock" => blocks[t] # "none"
    /\ Begin(p, Unlocked(op, t, <<"note", "read", "load", "save", "try">>))

Reconcile ==
  /\ ~Busy(Timer) /\ "block" \in kit.ops
  /\ job' = [job EXCEPT ![Timer] = Unlocked("reconcile", Nothing, <<"read", "load", "save", "try">>)]
  /\ UNCHANGED <<kit, did, mishaps, lock>> /\ UNCHANGED files /\ UNCHANGED fate

\* A command that finds its argument gone or changed under the lock ends there, as one that
\* cannot read config.json does.
Allowed(j) ==
  CASE j.op \in {"cascade use", "cascade remove"} -> j.arg \in Tags(config)
    [] j.op = "bypass enable" -> routes[j.arg.tag] = j.arg.row /\ j.arg.tag \in Tags(config)
    [] j.op \in {"bypass disable", "bypass remove"} -> routes[j.arg.tag] # NoRow
    [] j.op = "bypass region" -> routes[j.arg.tag] # NoRow \/ j.arg.tag \in Tags(config)
    [] OTHER -> TRUE

\* disable_conflicting_region_route: only a route agreed to before the lock is replaced.
Agreed(j) ==
  \/ j.op \notin {"bypass add", "bypass enable", "bypass region"}
  \/ j.op = "bypass region" /\ ~routes[j.arg.tag].enabled
  \/ j.arg.replace \/ EnabledRoute(j.arg.region) \ {j.arg.tag} \subseteq j.arg.agreed

\* The steps that remain after the load: a region of a disabled route is stored only,
\* a blocklist already in force ends the command, WARP off already is only verified.
Remaining(j, g) ==
  IF g.config # config \/ j.op \notin {"bypass region", "block", "unblock", "reconcile", "torrents", "warp disable", "warp remove"}
  THEN Tail(j.plan)
  ELSE CASE j.op \in {"warp disable", "warp remove"} /\ First(config) # Nothing -> Tail(j.plan)
         [] j.op = "warp disable" -> Trial
         [] j.op = "bypass region" /\ routes[j.arg.tag].enabled -> Tail(j.plan)
         [] j.op = "bypass region" -> <<"rows", "env">>
         [] OTHER -> <<>>

KeepsLoaded == {"cascade add", "cascade use", "cascade remove", "cascade off", "bypass add",
                "bypass enable", "bypass region", "bypass disable", "bypass remove"}

RoutingOps == KeepsLoaded \union {"warp create", "warp enable", "warp disable", "warp remove",
                "watch", "unwatch", "torrents", "block", "unblock", "reconcile"}

Load(p) ==
  /\ At(p, "load") /\ MayEnter(p) /\ job[p].op \in RoutingOps
  /\ LET j == job[p]
         g == Outcome(j)
     IN IF ~Readable \/ ~Allowed(j) \/ ~Agreed(j) THEN Then(p, [j EXCEPT !.plan = <<>>])
        ELSE Then(p, [j EXCEPT !.plan = Remaining(j, g), !.in = TRUE, !.new = g.config,
                        !.was = IF j.op \in KeepsLoaded THEN config ELSE Nothing,
                        !.rows = [choice |-> g.choice, routes |-> g.routes],
                        !.env = g.env])
  /\ Enters(p)
  /\ UNCHANGED <<kit, did, mishaps, torn>> /\ UNCHANGED files /\ UNCHANGED routingVars

-----------------------------------------------------------------------------
(***************************************************************************)
(* Probes: test_cascade, test_warp, probe_warp_endpoint,                   *)
(* probe_warp_disabled and test_bypass.                                    *)
(***************************************************************************)
Owner(j) == IF j.arg = "warp" THEN "warp" ELSE IF j.arg \in Cascades THEN "cascade" ELSE "bypass"
WithoutProbe(c, owner) == WithoutRules(c, {r \in RulesIn(c) : r.kind = "probe" /\ r.of = {owner}})
WithProbe(c, j) ==
  LET plain == WithoutProbe(IF j.arg = "warp" THEN WithWarp(c) ELSE c, Owner(j))
  IN [plain EXCEPT !.rules = <<Rule("probe", {Owner(j)}, j.arg)>> \o @]

\* The text put back: the file as it was, for a bypass without its own leftovers.
ProbeText(j) == IF Owner(j) = "bypass" THEN WithoutProbe(config, "bypass") ELSE config

\* WARP is enabled only through an endpoint that answered.
Unanswered(j) == IF j.op = "warp enable" THEN <<"unprobe", "redo">> ELSE Tail(j.plan)

Probe(p) ==
  /\ At(p, "probe") /\ MayEnter(p)
  /\ LET j == job[p]
         c == WithProbe(config, j)
         probing == [j EXCEPT !.in = TRUE, !.was = ProbeText(j)]
     IN IF ~Readable \/ (j.arg # "warp" /\ j.arg \notin Tags(config))
        THEN Then(p, [j EXCEPT !.plan = <<>>]) /\ Goes /\ UNCHANGED files
        ELSE /\ config' = c
             /\ \/ xray' = c /\ Goes /\ \E plan \in {Tail(j.plan), Unanswered(j)} :
                     Then(p, [probing EXCEPT !.plan = plan])
                \/ xray' \in {xray, Down} /\ Fails /\ Then(p, [probing EXCEPT !.plan = Unanswered(j)])
  /\ Enters(p)
  /\ UNCHANGED <<kit, did, torn>> /\ UNCHANGED routingVars

\* Over the file itself, as Undo.
Unprobe(p) ==
  /\ At(p, "unprobe")
  /\ config' = job[p].was
  /\ Then(p, [Next1(job[p]) EXCEPT !.was = Nothing])
  /\ UNCHANGED <<kit, did, mishaps, xray>> /\ UNCHANGED fate /\ UNCHANGED routingVars

-----------------------------------------------------------------------------
(***************************************************************************)
(* manager.db and server.env.                                              *)
(***************************************************************************)
\* save_client_db_optional only warns when it fails; a bypass command ends.
Rows(p) ==
  /\ At(p, "rows") /\ job[p].op \in RoutingOps
  /\ \/ /\ choice' = job[p].rows.choice /\ routes' = job[p].rows.routes
        /\ Follow(p) /\ Goes /\ torn' = torn
     \/ /\ Fails /\ torn' = TRUE /\ UNCHANGED <<choice, routes>>
        /\ Then(p, IF At(p, "env") THEN [job[p] EXCEPT !.plan = <<>>] ELSE Next1(job[p]))
  /\ UNCHANGED <<kit, did, crossed, blocks, env>> /\ UNCHANGED files

\* server.env is written whole from the values read at the load.
Env(p) ==
  /\ At(p, "env")
  /\ \/ env' = job[p].env /\ Follow(p) /\ Goes /\ torn' = torn
     \/ Fails /\ torn' = TRUE /\ UNCHANGED env /\ Then(p, [job[p] EXCEPT !.plan = <<>>])
  /\ UNCHANGED <<kit, did, crossed, choice, routes, blocks>> /\ UNCHANGED files

\* add_block and delete_block: the row first.
Note(p) ==
  /\ At(p, "note")
  /\ blocks' = [blocks EXCEPT ![job[p].arg] = IF job[p].op = "block" THEN "on" ELSE "none"]
  /\ Then(p, [Next1(job[p]) EXCEPT !.in = TRUE])
  /\ Enters(p)
  /\ UNCHANGED <<kit, did, mishaps, torn, choice, routes, env>> /\ UNCHANGED files

\* Mutant of Read: only known rows are synchronised, none is active.
ReadNone(p) ==
  /\ At(p, "read")
  /\ Then(p, [Next1(job[p]) EXCEPT !.rows = [active |-> {}, known |-> {}]])
  /\ UNCHANGED <<kit, did, mishaps>> /\ UNCHANGED files /\ UNCHANGED fate /\ UNCHANGED routingVars

\* reconcile_xray_config reads the rows, then loads the config.
Read(p) ==
  /\ At(p, "read")
  /\ LET on == {t \in Targets : blocks[t] = "on"}
         gone == IF job[p].op = "unblock" THEN {job[p].arg} ELSE {}
     IN Then(p, [Next1(job[p]) EXCEPT !.rows =
               [active |-> on, known |-> {t \in Targets : blocks[t] # "none"} \union gone]])
  /\ UNCHANGED <<kit, did, mishaps>> /\ UNCHANGED files /\ UNCHANGED fate /\ UNCHANGED routingVars

\* The time of a blocklist row comes.
Expire ==
  /\ \E t \in Targets : blocks[t] = "on" /\ blocks' = [blocks EXCEPT ![t] = "expired"]
  /\ UNCHANGED serverVars /\ UNCHANGED <<choice, routes, env>>

RoutingProgress(p) ==
  \/ Step(p) /\ UNCHANGED routingVars
  \/ Load(p) \/ Probe(p) \/ Unprobe(p) \/ Rows(p) \/ Env(p) \/ Note(p) \/ Read(p)

RoutingNext ==
  \/ \E p \in Procs :
       \/ (Cascade(p) \/ TestCascade(p) \/ Warp(p) \/ TestWarp(p) \/ Bypass(p) \/ Menu(p) \/ Block(p) \/ Kill(p) \/ CutBack(p)) /\ UNCHANGED routingVars
       \/ RoutingProgress(p)
  \/ Reconcile /\ UNCHANGED routingVars
  \/ Expire

-----------------------------------------------------------------------------
(***************************************************************************)
(* Properties.                                                             *)
(***************************************************************************)
Whole == AllIdle /\ ~torn /\ ~crossed

\* Every config.json a command writes keeps the manager's own invariants: direct is the
\* first outbound, tags are unique, there is at most one catch-all, every rule but
\* a leftover probe's leads to an outbound that is there, clients have rules only under a
\* cascade catch-all, and torrents and blocked targets come before the rules that let
\* traffic out.
RoutesSound(c) ==
  LET R == DOMAIN c.rules
      K(k) == {i \in R : c.rules[i].kind = k}
  IN /\ c.outbounds[1].tag = "direct" /\ "blocked" \in Tags(c)
     /\ \A i, k \in DOMAIN c.outbounds : c.outbounds[i].tag = c.outbounds[k].tag => i = k
     /\ Cardinality(K("catchall")) <= 1
     /\ \A i \in R \ K("probe") : c.rules[i].to \in Tags(c)
     /\ K("client") # {} => Active(c) # Nothing
     /\ \A i \in K("torrent") \union K("block"), k \in K("warning") \union K("client") \union K("catchall") : i < k
     /\ \A i \in K("warning"), k \in K("client") \union K("catchall") : i < k

\* Where a client's traffic leaves the server.
RouteOf(x) ==
  LET mine == {i \in DOMAIN config.rules : config.rules[i].kind = "catchall"
                                           \/ (config.rules[i].kind = "client" /\ config.rules[i].of = {x})}
  IN IF mine = {} THEN "direct" ELSE config.rules[Min(mine)].to

\* While a cascade is the catch-all, every client leaves through the cascade chosen for
\* it; whatever was switched on and off in between.
ChoiceApplies ==
  Whole /\ Active(config) # Nothing => \A x \in Clients : RouteOf(x) = choice[x]

\* When no GeoIP rule is left, Xray resolves domains the way it did before the first.
StrategyReturns == Whole /\ Unused(config) => config.strategy = Own

\* The temporary inbounds of the tests are gone from config.json.
NoProbeLeft == Whole => ~\E i \in DOMAIN config.rules : config.rules[i].kind = "probe"

\* A blocked target gets into config.json some day, whatever failed; except that a write
\* in place that was cut leaves a file no reconcile can load, until it is put back by hand
\* or by a restore, and then again.
BlocksGetIn ==
  \A t \in Targets : blocks[t] = "on" ~> (blocks[t] # "on" \/ t \in BlockedIn(config) \/ ~Readable)
=============================================================================
