--------------------------------- MODULE Sshd ---------------------------------
(***************************************************************************)
(* Passwords at the SSH login: two items of the security menu.  Each       *)
(* writes three files one after another, asks sshd what it makes of them,  *)
(* and reloads the service; when a step fails it writes back the texts it  *)
(* read before.  Neither takes a lock.                                     *)
(*                                                                         *)
(* commands/menu_security_actions.py.                                      *)
(***************************************************************************)
EXTENDS Routing

VARIABLES
  others,  \* whether root has a key, what the rest of the configuration says of passwords,
           \* and whether it reads sshd_config.d before that
  ssh,     \* the Include line, the drop-in and the legacy drop-in of the manager
  sshd,    \* what the running service says of passwords
  asked    \* history: what the last item that succeeded was to leave, or Nothing

sshVars == <<others, ssh, sshd, asked>>

Parts == {"include", "dropin", "legacy"}

\* What sshd -T says: the first setting read counts.
Passwords(f) ==
  IF (f["dropin"] /\ (f["include"] \/ others.dir)) \/ (f["legacy"] /\ others.dir) THEN "no" ELSE others.says

SshInit ==
  /\ others \in IF "ssh off" \in kit.ops
                THEN [key : BOOLEAN, says : {"yes", "no"}, dir : BOOLEAN]
                ELSE {[key |-> FALSE, says |-> "yes", dir |-> TRUE]}
  /\ ssh \in IF "ssh off" \in kit.ops THEN {[x \in Parts |-> FALSE], [x \in Parts |-> x = "legacy"]}
             ELSE {[x \in Parts |-> FALSE]}
  /\ sshd = Passwords(ssh) /\ asked = Nothing

-----------------------------------------------------------------------------
(***************************************************************************)
(* The items and their steps.                                              *)
(***************************************************************************)
SshOps == {"ssh off", "ssh on"}
Wanted(op) == IF op = "ssh off" THEN "no" ELSE "yes"
Edits(op) == IF op = "ssh off" THEN <<"dropin", "include", "legacy">> ELSE <<"include", "dropin", "legacy">>
PutBacks == <<"back include", "back dropin", "back legacy">>

\* Passwords go only when root has a key.
SshItem(p) ==
  \E op \in SshOps :
    /\ op = "ssh off" => others.key
    /\ Begin(p, [Unlocked(op, Wanted(op), <<"texts">> \o Edits(op) \o <<"ask sshd", "reload sshd">>)
                   EXCEPT !.back = PutBacks \o <<"reload old">>])

OnlySsh == UNCHANGED <<kit, did, crossed>> /\ UNCHANGED files

\* An exception leads to the way back; another on it ends the item.
SshFails(p) ==
  IF job[p].back = <<>> THEN torn' = TRUE /\ Then(p, [job[p] EXCEPT !.plan = <<>>])
  ELSE torn' = torn /\ Then(p, [job[p] EXCEPT !.plan = job[p].back, !.back = <<>>])

Texts0(p) ==
  /\ At(p, "texts")
  /\ Then(p, [Next1(job[p]) EXCEPT !.in = TRUE, !.kept = ssh])
  /\ Enters(p)
  /\ UNCHANGED <<kit, did, mishaps, torn, sshVars>> /\ UNCHANGED files

\* The drop-in and the Include are written by the one item and removed by the other, the
\* legacy file removed by both.
After(j) == [ssh EXCEPT ![Head(j.plan)] = j.op = "ssh off" /\ Head(j.plan) # "legacy"]

EditSsh(p) ==
  /\ \E x \in Parts : At(p, x)
  /\ \/ ssh' = After(job[p]) /\ Follow(p) /\ Goes /\ torn' = torn
     \/ ssh' = ssh /\ Fails /\ SshFails(p)
  /\ UNCHANGED <<others, sshd, asked>> /\ OnlySsh

\* sshd -t and sshd -T.
AskSshd(p) ==
  /\ At(p, "ask sshd")
  /\ \/ Passwords(ssh) = job[p].arg /\ Follow(p) /\ Goes /\ torn' = torn
     \/ Passwords(ssh) # job[p].arg /\ Goes /\ SshFails(p)
     \/ Fails /\ SshFails(p)
  /\ UNCHANGED sshVars /\ OnlySsh

\* reload or restart, of ssh or sshd.
ReloadSshd(p) ==
  /\ At(p, "reload sshd")
  /\ \/ sshd' = Passwords(ssh) /\ asked' = job[p].arg /\ Follow(p) /\ Goes /\ torn' = torn
     \/ UNCHANGED <<sshd, asked>> /\ Fails /\ SshFails(p)
  /\ UNCHANGED <<others, ssh>> /\ OnlySsh

PutBackSsh(p) ==
  /\ \E x \in Parts :
       /\ At(p, CASE x = "include" -> "back include" [] x = "dropin" -> "back dropin" [] OTHER -> "back legacy")
       /\ \/ ssh' = [ssh EXCEPT ![x] = job[p].kept[x]] /\ Follow(p) /\ Goes /\ torn' = torn
          \/ ssh' = ssh /\ Fails /\ SshFails(p)
  /\ UNCHANGED <<others, sshd, asked>> /\ OnlySsh

\* Texts that sshd refuses, or a service that does not reload, are left.
ReloadOld(p) ==
  /\ At(p, "reload old")
  /\ \/ sshd' = Passwords(ssh) /\ Goes /\ torn' = torn
     \/ sshd' = sshd /\ Fails /\ torn' = TRUE
  /\ Follow(p)
  /\ UNCHANGED <<others, ssh, asked>> /\ OnlySsh

SshNext ==
  \E p \in Procs :
    \/ SshItem(p) /\ UNCHANGED sshVars
    \/ Texts0(p) \/ EditSsh(p) \/ AskSshd(p) \/ ReloadSshd(p) \/ PutBackSsh(p) \/ ReloadOld(p)

\* The part of ServicesFollow that is sshd's.
SshFollows == AllIdle /\ ~torn => sshd = Passwords(ssh)

\* Passwords at the SSH login are on or off as the last item that succeeded left them.
AskedHolds == Whole /\ asked # Nothing => sshd = asked
=============================================================================
