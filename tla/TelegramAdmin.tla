---------------------------- MODULE TelegramAdmin ----------------------------
(***************************************************************************)
(* The owner's panel in Telegram.  The bot sends messages with buttons,    *)
(* and remembers in adminState what they offered: a button of a list says  *)
(* only its place in the list.  A guard lets through the buttons of the    *)
(* active message, each message once.  The updates of the owner are        *)
(* handled one after another, each at most once; a message of the bot may  *)
(* not get through, the poller may be killed, and the clients and sites    *)
(* change by other hands meanwhile.                                        *)
(*                                                                         *)
(* telegram/admin.py, keyboards.py, server_settings.py and the updates of  *)
(* the owner in poller.py.  Commands the panel runs are whole steps here:  *)
(* ClientApply and ClientAccess tell what they do.                         *)
(*                                                                         *)
(* The menus of the panel are one message with all their items; tests,     *)
(* summaries and reports, which change nothing here, are left out.         *)
(***************************************************************************)
EXTENDS Upkeep

CONSTANT People  \* names clients may have

VARIABLES
  people,  \* the clients of manager.db, as the panel lists them
  panel,   \* adminState: the task in hand, the drafts, the TLS sites listed, the message
           \* whose buttons are active, or 0, and the messages used up
  chat,    \* the messages with buttons the owner has, in their order
  told     \* history: a message was lost; the messages a command was asked by; a command
           \* did another thing than the message showed, or twice

panelVars == <<people, panel, chat, told>>

Task(action, of, list) == [action |-> action, of |-> of, list |-> list]
NoTask == Task("none", Nothing, <<>>)
NoDrafts == [custom |-> Nothing, news |-> Nothing, done |-> Nothing]
Message(keys, of, list) == [keys |-> keys, of |-> of, list |-> list]
Menu0 == Message("menu", Nothing, <<>>)

\* The owner has the menu before him.
PanelInit ==
  /\ people = People
  /\ panel = [task |-> NoTask, drafts |-> NoDrafts, sites |-> <<>>, active |-> 1, used |-> {}]
  /\ chat = <<Menu0>>
  /\ told = [lost |-> FALSE, asked |-> {}, wrong |-> FALSE]

-----------------------------------------------------------------------------
(***************************************************************************)
(* Keyboards: what a button of a message sends back.                       *)
(***************************************************************************)
Button(do, at) == [do |-> do, at |-> at]
Picks(do, m) == {Button(do, i) : i \in DOMAIN m.list}
Kinds == <<"start", "done", "news", "custom">>

MenuItems == {"clients", "link list", "key list", "extend list", "add client", "tls list",
              "owner backup", "start", "done", "news", "custom"}
MenuButtons == {Button(do, 0) : do \in MenuItems \intersect kit.ops}

\* keyboards of the client flows.
ClientButtons(m) ==
  CASE m.keys = "credential" -> Picks("credential", m) \union {Button("link list", 0)}
    [] m.keys = "payment" -> {Button("payment", 0), Button("cancel", 0), Button("clients", 0)}
    [] m.keys = "connection" -> Picks("connection", m) \union {Button("cancel", 0), Button("clients", 0)}
    [] OTHER -> Picks(m.keys, m) \union {Button("clients", 0)}

\* keyboards of the notices, the TLS settings and the menus.
Buttons(m) ==
  CASE m.keys = "menu" -> MenuButtons
    [] m.keys = "sites" -> Picks("site", m)
    [] m.keys = "site" -> {Button("tls1.2", m.list[1]), Button("tls1.3", m.list[1]), Button("tls list", 0)}
    [] m.keys = "preview" -> {Button("send", m.of), Button("cancel notice", 0)}
    [] m.keys = "prompt" /\ m.of = "done" -> {Button("plain", 0), Button("cancel notice", 0)}
    [] m.keys = "prompt" /\ m.of \in {"custom", "news"} -> {Button("cancel notice", 0)}
    [] m.keys = "prompt" -> {Button("cancel", 0), Button("clients", 0)}
    [] OTHER -> ClientButtons(m)

-----------------------------------------------------------------------------
(***************************************************************************)
(* What a button or a text leads to: what adminState becomes, the command  *)
(* to run, if any, and the message to send.                                *)
(***************************************************************************)
Run(what, name, to) == [what |-> what, name |-> name, to |-> to]
Says(m) == [task |-> panel.task, drafts |-> panel.drafts, sites |-> panel.sites,
            run |-> Run("none", Nothing, Nothing), says |-> m]
Sets(task, m) == [Says(m) EXCEPT !.task = task]
Cleared == Sets(NoTask, Menu0)
Runs(what, name, to) == [Cleared EXCEPT !.run = Run(what, name, to)]

\* clear_admin_state of a notice: the drafts too.
AllCleared == [Cleared EXCEPT !.drafts = NoDrafts]

\* clear_client_flow_state_if_pending leaves a notice that is being written alone.
FlowCleared == IF panel.task.action \in {"custom", "news"} THEN Says(Menu0) ELSE Cleared

\* The entry of the list that adminState holds, if it is a list of that kind.
Chosen(action, at) ==
  IF panel.task.action = action /\ at \in DOMAIN panel.task.list THEN panel.task.list[at] ELSE Nothing

Connected == SetToSeq({t \in DOMAIN records : records[t] # NoRecord})

\* The lists of clients.
ListClients(action) ==
  LET names == SetToSeq(people)
  IN IF people = {} THEN FlowCleared
     ELSE Sets(Task(action, Nothing, names), Message(action, Nothing, names))

\* A client that is gone ends the flow; one with several connections is asked for which.
PickLink(at) ==
  LET name == Chosen("link", at)
  IN IF name = Nothing THEN Says(Menu0)
     ELSE IF name \notin people \/ Connected = <<>> THEN Cleared
     ELSE IF Len(Connected) = 1 THEN Runs("link", name, Connected[1])
     ELSE Sets(Task("credential", name, Connected), Message("credential", name, Connected))

PickCredential(at) ==
  LET name == panel.task.of
      tag == Chosen("credential", at)
  IN IF tag = Nothing THEN Says(Menu0)
     ELSE IF name \notin people THEN Cleared
     ELSE Runs("link", name, tag)

PickKey(at) ==
  LET name == Chosen("key", at)
  IN IF name = Nothing THEN Says(Menu0)
     ELSE IF name \notin people THEN Cleared
     ELSE Runs("key", name, Nothing)

PickExtend(at) ==
  LET name == Chosen("extend", at)
  IN IF name = Nothing THEN Says(Menu0)
     ELSE IF name \notin people THEN Cleared
     ELSE Sets(Task("days", name, <<>>), Message("prompt", "days", <<name>>))

\* handle_add_client_payment: one connection needs no choice.
PickPayment ==
  LET name == panel.task.of
  IN IF panel.task.action # "payment" THEN Says(Menu0)
     ELSE IF name \in people THEN Cleared
     ELSE IF Len(Connected) > 1
          THEN Sets(Task("connection", name, Connected), Message("connection", name, Connected))
          ELSE Runs("add", name, IF Connected = <<>> THEN Nothing ELSE Connected[1])

PickConnection(at) ==
  LET tag == Chosen("connection", at)
  IN IF tag = Nothing THEN Says(Menu0) ELSE Runs("add", panel.task.of, tag)

\* The TLS sites as they are now, kept as the list the buttons speak of.
ListSites ==
  LET now == {d \in Domains : sites[d] # NoSite}
      list == [i \in 1 .. Cardinality(now) |-> [site |-> SetToSeq(now)[i], tls |-> sites[SetToSeq(now)[i]].tls]]
  IN [Says(Message("sites", Nothing, list)) EXCEPT !.sites = list]

ShowSite(at) ==
  IF at \notin DOMAIN panel.sites THEN ListSites
  ELSE Says(Message("site", panel.sites[at].site, <<at>>))

\* A version that the list shows as the present one is not set again.
SetTls(at, tls) ==
  IF at \notin DOMAIN panel.sites \/ panel.sites[at].tls = tls THEN ShowSite(at)
  ELSE [ShowSite(at) EXCEPT !.run = Run("tls", panel.sites[at].site, tls)]

\* preview_notice and send_admin_notice: custom and news are their drafts, done has
\* a text more.
Preview(kind, drafts) ==
  LET text == IF kind = "start" THEN Nothing ELSE drafts[kind]
  IN IF kind \in {"custom", "news"} /\ text = Nothing THEN Menu0
     ELSE Message("preview", CHOOSE k \in DOMAIN Kinds : Kinds[k] = kind, <<text>>)

Send(kind) ==
  LET text == Preview(kind, panel.drafts)
  IN IF text = Menu0 THEN Says(Menu0)
     ELSE [Runs("send", kind, text.list[1]) EXCEPT !.drafts = NoDrafts]

\* The items of the notices menu.
WriteNotice(kind) ==
  LET drafts == IF kind = "done" THEN [panel.drafts EXCEPT !.done = Nothing] ELSE panel.drafts
  IN [Sets(Task(kind, Nothing, <<>>), Message("prompt", kind, <<>>)) EXCEPT !.drafts = drafts]

NoticeButton(b) ==
  CASE b.do = "start" -> Says(Preview("start", panel.drafts))
    [] b.do \in {"done", "news", "custom"} -> WriteNotice(b.do)
    [] b.do = "plain" -> [Sets(NoTask, Preview("done", NoDrafts)) EXCEPT !.drafts.done = Nothing]
    [] b.do = "send" -> Send(Kinds[b.at])
    [] OTHER -> AllCleared

\* handle_callback.
Pressed(b) ==
  CASE b.do = "open" -> Says(Menu0)
    [] b.do = "clients" -> FlowCleared
    [] b.do = "link list" -> ListClients("link")
    [] b.do = "key list" -> ListClients("key")
    [] b.do = "extend list" -> ListClients("extend")
    [] b.do = "add client" -> Sets(Task("add", Nothing, <<>>), Message("prompt", "add", <<>>))
    [] b.do = "link" -> PickLink(b.at)
    [] b.do = "credential" -> PickCredential(b.at)
    [] b.do = "key" -> PickKey(b.at)
    [] b.do = "extend" -> PickExtend(b.at)
    [] b.do = "payment" -> PickPayment
    [] b.do = "connection" -> PickConnection(b.at)
    [] b.do = "cancel" -> Cleared
    [] b.do = "tls list" -> ListSites
    [] b.do = "site" -> ShowSite(b.at)
    [] b.do \in {"tls1.2", "tls1.3"} -> SetTls(b.at, b.do)
    [] b.do = "owner backup" -> [Says(Menu0) EXCEPT !.run = Run("backup", Nothing, Nothing)]
    [] OTHER -> NoticeButton(b)

\* Texts: a command of the bot, a cancel, and what the task in hand may be answered with.
Texts ==
  {"/admin"} \union
  CASE panel.task.action \in {"custom", "news", "done"} -> {"/cancel", "one", "two"}
    [] panel.task.action = "add" -> {"/cancel"} \union People
    [] panel.task.action = "days" -> {"/cancel", "30"}
    [] OTHER -> {}

\* handle_custom_notice_text and its siblings: anything but a cancel is the text.
NoticeTyped(text) ==
  LET drafts == [panel.drafts EXCEPT ![panel.task.action] = text]
  IN IF text = "/cancel" THEN AllCleared
     ELSE [Sets(NoTask, Preview(panel.task.action, drafts)) EXCEPT !.drafts = drafts]

\* handle_add_client_input: what is no name, and a name that is taken, is asked again.
NameTyped(text) ==
  IF text = "/cancel" THEN Cleared
  ELSE IF text \notin People \ people THEN Says(Message("prompt", "add", <<>>))
  ELSE Sets(Task("payment", text, <<>>), Message("payment", text, <<>>))

\* handle_extend_subscription_days.
DaysTyped(text) ==
  LET name == panel.task.of
  IN IF text = "/cancel" \/ name \notin people THEN Cleared
     ELSE IF text # "30" THEN Says(Message("prompt", "days", <<name>>))
     ELSE Runs("extend", name, text)

\* handle_pending_text; without a task in hand /admin opens the panel.
Typed(text) ==
  CASE panel.task.action \in {"custom", "news", "done"} -> NoticeTyped(text)
    [] panel.task.action = "add" -> NameTyped(text)
    [] panel.task.action = "days" -> DaysTyped(text)
    [] OTHER -> Says(Menu0)

-----------------------------------------------------------------------------
(***************************************************************************)
(* The updates of the owner.                                               *)
(***************************************************************************)
Update(from, button, text, plan) ==
  Unlocked("panel", [from |-> from, button |-> button, text |-> text], plan)
InTurn == \A p \in Procs : job[p].op \notin {"panel", "owner tls"}

\* A tap on a message; or on the item of the client menu that opens the panel, which the
\* guard lets through from any message.
Tap(p) ==
  /\ InTurn
  /\ \/ \E m \in DOMAIN chat : \E b \in Buttons(chat[m]) : Begin(p, Update(m, b, Nothing, <<"accept", "act">>))
     \/ Begin(p, Update(0, Button("open", 0), Nothing, <<"accept", "act">>))

Type(p) ==
  /\ InTurn
  /\ \E text \in Texts : Begin(p, Update(0, Nothing, text, <<"act">>))

\* Mutant of Accepted: the message that was active stays so.
AcceptedActive(m) == [panel EXCEPT !.used = (@ \union {m}) \ {0}]

\* accept_admin_callback: no message is active until the answer is sent.
Accepted(m) == [panel EXCEPT !.active = 0, !.used = (@ \union {m}) \ {0}]

Stale(m) == m # 0 /\ (m \in panel.used \/ panel.active \notin {0, m})

Accept(p) ==
  /\ At(p, "accept")
  /\ LET m == job[p].arg.from
     IN IF Stale(m) THEN UNCHANGED panel /\ Then(p, [job[p] EXCEPT !.plan = <<>>])
        ELSE panel' = Accepted(m) /\ Follow(p)
  /\ UNCHANGED <<kit, did, mishaps, people, chat, told>> /\ UNCHANGED files /\ UNCHANGED fate

\* What the message showed, or the last prompt for a number of days.
Asked(arg) ==
  IF arg.from # 0 THEN chat[arg.from]
  ELSE Last(SelectSeq(chat, LAMBDA m : m.keys = "prompt" /\ m.of = "days"))

AsShown(arg, run) ==
  LET m == Asked(arg)
  IN CASE run.what \in {"none", "backup"} -> TRUE
       [] run.what = "extend" -> run.name = m.list[1]
       [] run.what = "send" -> run.to = m.list[1] /\ Kinds[m.of] = run.name
       [] m.keys \in {"link", "key"} -> run.name = m.list[arg.button.at]
       [] m.keys \in {"credential", "connection"} -> run.name = m.of /\ run.to = m.list[arg.button.at]
       [] OTHER -> run.name = m.of

\* The steps a command needs before the answer.
Steps(run) ==
  CASE run.what = "none" -> <<"reply">>
    [] run.what = "tls" -> <<"put", "serve", "list", "reply">>
    [] run.what = "backup" -> <<"read files", "read db", "reply">>
    [] OTHER -> <<"run", "clear", "reply">>

\* Without a command adminState is saved before the answer is sent.
Act(p) ==
  /\ At(p, "act")
  /\ LET a == job[p].arg
         r == IF a.text = Nothing THEN Pressed(a.button) ELSE Typed(a.text)
         again == r.run.what # "none" /\ a.from \in told.asked
     IN /\ panel' = IF r.run.what # "none" THEN panel
                    ELSE [panel EXCEPT !.task = r.task, !.drafts = r.drafts, !.sites = r.sites]
        /\ told' = [told EXCEPT !.asked = IF r.run.what = "none" THEN @ ELSE (@ \union {a.from}) \ {0},
                      !.wrong = @ \/ again \/ ~(told.lost \/ torn \/ AsShown(a, r.run))]
        /\ Then(p, [job[p] EXCEPT !.plan = Steps(r.run), !.rows = r,
                      !.op = IF r.run.what = "tls" THEN "owner tls" ELSE @,
                      !.arg = IF r.run.what = "tls" THEN [at |-> r.run.name, tls |-> r.run.to] ELSE @])
  /\ UNCHANGED <<kit, did, mishaps, people, chat>> /\ UNCHANGED files /\ UNCHANGED fate

\* The command ends, well or not; or it takes too long, and the update ends with it.
RunCommand(p) ==
  /\ At(p, "run")
  /\ LET run == job[p].rows.run
         added == run.what = "add" /\ Readable /\ (run.to = Nothing \/ records[run.to] # NoRecord)
     IN people' \in {people} \union (IF added THEN {people \union {run.name}} ELSE {})
  /\ \/ Follow(p) /\ Goes /\ told' = told
     \/ Then(p, [job[p] EXCEPT !.plan = <<>>]) /\ Fails /\ told' = [told EXCEPT !.lost = TRUE]
  /\ UNCHANGED <<kit, did, panel, chat>> /\ UNCHANGED files /\ UNCHANGED fate

\* clear_admin_state after the command.
Clear(p) ==
  /\ At(p, "clear")
  /\ panel' = [panel EXCEPT !.task = NoTask, !.drafts = job[p].rows.drafts]
  /\ Follow(p)
  /\ UNCHANGED <<kit, did, mishaps, people, chat, told>> /\ UNCHANGED files /\ UNCHANGED fate

\* After a change of TLS the list is made anew.
List(p) ==
  /\ At(p, "list")
  /\ panel' = [panel EXCEPT !.sites = ListSites.sites]
  /\ Then(p, [Next1(job[p]) EXCEPT !.rows = ListSites])
  /\ UNCHANGED <<kit, did, mishaps, people, chat, told>> /\ UNCHANGED files /\ UNCHANGED fate

\* send_admin_response: the message becomes the active one; if sending fails, it may have
\* arrived all the same.
Reply(p) ==
  /\ At(p, "reply")
  /\ \/ /\ chat' = Append(chat, job[p].rows.says) /\ Goes
        /\ panel' = [panel EXCEPT !.active = Len(chat')] /\ told' = told
     \/ /\ chat' \in {chat, Append(chat, job[p].rows.says)} /\ Fails
        /\ panel' = panel /\ told' = [told EXCEPT !.lost = TRUE]
  /\ Follow(p)
  /\ UNCHANGED <<kit, did, people>> /\ UNCHANGED files /\ UNCHANGED fate

\* xray-client add and remove by another hand.
Elsewhere ==
  /\ "people" \in kit.ops /\ Readable /\ did < kit.most /\ did' = did + 1
  /\ \E n \in People : people' \in {people \union {n}, people \ {n}} \ {people}
  /\ UNCHANGED <<kit, mishaps, lock, job, panel, chat, told>> /\ UNCHANGED files /\ UNCHANGED fate

PanelNext ==
  \/ Elsewhere
  \/ \E p \in Procs :
       \/ (Tap(p) \/ Type(p)) /\ UNCHANGED panelVars
       \/ Accept(p) \/ Act(p) \/ RunCommand(p) \/ Clear(p) \/ List(p) \/ Reply(p)

-----------------------------------------------------------------------------
(***************************************************************************)
(* Properties.                                                             *)
(***************************************************************************)
\* What the buttons of a message would do is what it shows.
Agrees(m) ==
  CASE m.keys \in {"link", "key", "extend", "credential", "connection"} -> panel.task = Task(m.keys, m.of, m.list)
    [] m.keys = "payment" -> panel.task = Task("payment", m.of, <<>>)
    [] m.keys = "sites" -> panel.sites = m.list
    [] m.keys = "site" -> panel.sites[m.list[1]].site = m.of
    [] m.keys = "preview" /\ m.of # 1 -> panel.drafts[Kinds[m.of]] = m.list[1]
    [] OTHER -> TRUE

\* The message whose buttons are active shows what they do: the client, connection, site
\* or text that adminState holds for its list; whatever was lost, killed or changed by
\* others before.  No command of the panel does another thing than the message it was
\* asked by showed, unless an answer was lost before; and none is asked twice by one
\* message.
PanelSound ==
  /\ ~told.wrong
  /\ panel.active # 0 => Agrees(chat[panel.active])
=============================================================================
