----------------------------- MODULE MCActivity -----------------------------
(* GeoipNotices, and ActivityLog under it, on small instances: what each    *)
(* behaviour may hold beside the minutes of the timer.                      *)
EXTENDS GeoipNotices, TLC

SmallKits == {{"rotate", "backfill"}, {"enable", "capture", "backfill"},
              {"age", "remove"}, {"sync"}, {"notify", "age"}, {"except", "notify"}, {"summary"}}
=============================================================================
