------------------------------ MODULE MCServer ------------------------------
(***************************************************************************)
(* The kits of commands TLC lets run together.                             *)
(***************************************************************************)
EXTENDS Vps, TLC

K(ops, procs, most, fails) == [ops |-> ops, procs |-> procs, most |-> most, mishaps |-> fails]
one == Procs \ {Timer}
both == Procs

RoutingKits == {
  K({"cascade add", "cascade use", "cascade remove", "cascade off"}, one, 4, 1),
  K({"warp create", "warp enable", "warp disable", "warp remove", "cascade add", "cascade use"}, one, 4, 1),
  K({"cascade add", "warp enable", "warp test", "cascade test"}, both, 2, 1),
  K({"bypass add", "bypass enable", "bypass region", "bypass disable", "bypass remove", "bypass test"}, one, 3, 1),
  K({"bypass add", "bypass enable"}, both, 2, 1),
  K({"watch", "unwatch", "bypass add", "bypass remove"}, one, 4, 0),
  K({"torrents", "watch", "cascade add"}, both, 2, 1),
  K({"watch", "cascade add", "cascade use", "cascade off"}, both, 2, 1),
  K({"block", "unblock", "warp test"}, one, 2, 1)}

ConnectionKits == {
  K({"connection add", "connection remove", "connection transport", "menu reality"}, one, 2, 1),
  K({"connection add", "connection remove", "menu reality"}, one, 3, 0),
  K({"connection add", "menu reality"}, both, 2, 0),
  K({"connection add", "connection remove"}, both, 2, 1),
  K({"trojan update", "tls switch"}, both, 2, 0),
  K({"connection add", "trojan update", "tls switch", "site tls"}, one, 2, 1),
  K({"site upstream", "site domain", "site delete", "caddy backup", "caddy restore"}, one, 3, 1),
  K({"site create", "site domain", "caddy restore"}, both, 2, 0)}

UpkeepKits == {
  K({"backup", "restore", "connection add"}, one, 3, 2),
  K({"backup", "restore", "cascade add"}, one, 3, 2),
  K({"backup", "restore", "site delete"}, one, 3, 2),
  K({"backup", "restore", "block"}, both, 3, 0),
  K({"backup", "restore", "watch"}, both, 3, 0),
  K({"xray update", "assets update", "xray rollback"}, one, 3, 2),
  K({"xray update", "bypass add"}, both, 2, 1),
  K({"manager update", "manager rollback"}, one, 3, 2),
  K({"manager update", "manager rollback"}, both, 2, 1)}

PanelKits == {
  K({"panel", "people", "link list", "key list"}, one, 4, 1),
  K({"panel", "link list", "connection add"}, one, 4, 0),
  K({"panel", "people", "extend list", "add client"}, one, 4, 1),
  K({"panel", "done", "news"}, one, 4, 1),
  K({"panel", "start", "custom", "owner backup"}, one, 4, 1),
  K({"panel", "tls list", "site delete"}, both, 4, 1)}

SshKits == {
  K({"ssh off", "ssh on"}, one, 2, 2),
  K({"ssh off", "ssh on"}, both, 2, 1)}

BlockKits == {k \in RoutingKits \union UpkeepKits : "block" \in k.ops}
SmallKits == RoutingKits \union ConnectionKits \union UpkeepKits \union PanelKits \union SshKits
=============================================================================
