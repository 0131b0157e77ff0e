---------------------------- MODULE ActivityLog ----------------------------
(***************************************************************************)
(* What becomes of the lines Xray writes to access.log.  xray-activity     *)
(* sync reads on from the saved inode and offset, stores the counters, the *)
(* detailed event and the alert of every line in a transaction of its own, *)
(* and saves the new offset with the alert windows at the end.  The        *)
(* rotation runs the same sync, renames the file, creates a new one, packs *)
(* the old one and makes Xray open the new one.  Backfill reads every      *)
(* file again.  activity.lock makes these commands exclude each other;     *)
(* Xray, the clients and the calendar wait for none of them.               *)
(*                                                                         *)
(* activity/{sync,raw_logs,backfill,controls,repository}.py,               *)
(* db/repositories/activity.py and commands/activity.py.  A line is its    *)
(* number in the order of writing, which is also the clock; what a line    *)
(* says is the client it names.                                            *)
(***************************************************************************)
EXTENDS Integers, FiniteSetsExt, SequencesExt

CONSTANTS
  Clients,
  Procs,       \* processes that run the commands
  Timer,       \* the one of them that is xray-traffic-sync.service
  NoProc,      \* activity.lock is free
  Inodes,      \* bound: numbers the file system gives to access.log; a freed one is used again
  NoFile,      \* the path access.log names nothing
  Kits,        \* bound: which commands and events a behaviour may hold
  MaxLines,    \* bound: lines Xray writes
  MaxByHand,   \* bound: commands beside those of the timer
  MaxMishaps   \* bound: failures and kills

ASSUME ActivityAssumption ==
  /\ Timer \in Procs
  /\ NoProc \notin Procs
  /\ NoFile \notin Inodes
  /\ Clients # {} /\ Inodes # {}
  /\ {MaxLines, MaxByHand, MaxMishaps} \subseteq Nat

VARIABLES
  kit,         \* what this behaviour may hold
  written,     \* the client each line names
  text,        \* the lines in the file of each inode
  current,     \* the inode of access.log
  open,        \* the inode Xray writes to
  rotated,     \* inodes renamed and not yet removed
  archive,     \* the packed files, each as its set of lines
  saved,       \* manager.db: the inode and the offset that were read
  windows,     \* manager.db: how often each line is in the alert windows
  counted,     \* manager.db: how often each line is in the counters
  detail,      \* manager.db: detailed events of each line
  alerts,      \* manager.db: the alert row of each client
  nextId,      \* manager.db: the sequence of alert ids
  capture,     \* clients whose events are stored in detail
  registered,  \* clients that have a row
  old,         \* lines 1 .. old are past every retention
  lock, pc, job,
  did,         \* history: how often the bounded things have happened
  reread,      \* history: lines recorded by a run that did not save its offset
  early,       \* history: lines a backfill stored before a sync read them
  passed,      \* history: unread lines that `enable` jumped over
  late,        \* history: lines that went to a renamed file during a rotation
  behind,      \* history: a rotation went on after its sync had failed
  cut          \* history: a rotation ended before Xray opened the new file

files   == <<text, current, open, rotated, archive>>
records == <<windows, counted, detail, alerts, nextId>>
setup   == <<kit, capture, registered, old>>
history == <<did, reread, early, passed, late, behind, cut>>
logVars == <<written, files, saved, records, setup, lock, pc, job, history>>

Lines == 1 .. MaxLines
None  == [l \in Lines |-> 0]
Once(f, l) == [f EXCEPT ![l] = @ + 1]

NoAlert == [id |-> 0, count |-> 0, first |-> 0, last |-> 0, notified |-> 0]
NoJob == [op |-> "none", todo |-> <<>>, win |-> None, capture |-> {},
          saved |-> [ino |-> NoFile, off |-> 0], done |-> {}, file |-> NoFile]

LogInit ==
  /\ kit \in Kits
  /\ written = <<>>
  /\ text = [i \in Inodes |-> <<>>]
  /\ current = CHOOSE i \in Inodes : TRUE
  /\ open = current
  /\ rotated = {} /\ archive = {}
  /\ saved = [ino |-> NoFile, off |-> 0]
  /\ windows = None /\ counted = None /\ detail = None
  /\ alerts = [c \in Clients |-> NoAlert]
  /\ nextId = 1
  /\ capture = IF "enable" \in kit THEN {} ELSE Clients
  /\ registered = Clients
  /\ old = 0
  /\ lock = NoProc
  /\ pc = [p \in Procs |-> "idle"]
  /\ job = [p \in Procs |-> NoJob]
  /\ did = [hand |-> 0, mishap |-> 0]
  /\ reread = {} /\ early = {} /\ passed = {} /\ late = {}
  /\ behind = FALSE /\ cut = FALSE

Goto(p, step) == pc' = [pc EXCEPT ![p] = step]

\* The command ends and the flock with it; the service goes on with its next line.
End(p) ==
  /\ Goto(p, IF p = Timer THEN "notice" ELSE "idle")
  /\ job' = [job EXCEPT ![p] = NoJob]
  /\ lock' = NoProc

Mishap == did.mishap < MaxMishaps /\ did' = [did EXCEPT !.mishap = @ + 1]
ByHand(p, op) ==
  /\ pc[p] = "idle" /\ p # Timer
  /\ op \in kit
  /\ did.hand < MaxByHand
  /\ did' = [did EXCEPT !.hand = @ + 1]

-----------------------------------------------------------------------------
(***************************************************************************)
(* sync_activity, alone or as the first part of a rotation.                *)
(***************************************************************************)
From(off) == SubSeq(text[current], off + 1, Len(text[current]))

\* The saved offset counts only for the file it was saved for.
Unread ==
  From(IF saved.ino = current /\ saved.off <= Len(text[current]) THEN saved.off ELSE 0)

\* Mutant of Locked: the command does not wait for the lock.
NotLocked(p) == lock' = p

Locked(p) == lock = NoProc /\ lock' = p

\* The clients, the snapshot, the settings and the text are read once.
Open(p, op) ==
  /\ Locked(p)
  /\ IF current = NoFile
       THEN /\ job' = [job EXCEPT ![p] = [NoJob EXCEPT !.op = op]]
            /\ Goto(p, "maintain")
       ELSE /\ job' = [job EXCEPT ![p] =
                 [NoJob EXCEPT !.op = op, !.todo = Unread, !.win = windows, !.capture = capture,
                               !.saved = [ino |-> current, off |-> Len(text[current])]]]
            /\ Goto(p, "record")
  /\ UNCHANGED <<written, files, saved, records, setup, reread, early, passed, late, behind, cut>>

Sync(p) ==
  /\ \/ p = Timer /\ pc[p] = "idle" /\ UNCHANGED did
     \/ ByHand(p, "sync")
  /\ Open(p, "sync")

Rotate(p) == ByHand(p, "rotate") /\ Open(p, "rotate")

\* Mutant of FreshId: ids are taken from the rows, not from a sequence.
FreshIdFromRows == Max({alerts[c].id : c \in Clients}) + 1

\* AUTOINCREMENT: the id of a deleted row is never given again.
FreshId == nextId

\* add_alert_event: one row for one target, counted on.
Alerted(l) ==
  LET c == written[l]
      row == alerts[c]
  IN  [alerts EXCEPT ![c] =
        IF row.id = 0 THEN [id |-> FreshId, count |-> 1, first |-> l, last |-> l, notified |-> 0]
        ELSE [row EXCEPT !.count = @ + 1, !.last = Max({row.last, l})]]

\* While a run lasts its windows are changed in memory only.
SavedWindows(l) == windows

\* record_pipeline_event: one transaction; a removed client's line is skipped.
Record(p) ==
  /\ pc[p] = "record" /\ job[p].todo # <<>>
  /\ LET l == Head(job[p].todo)
         c == written[l]
         rest == [job[p] EXCEPT !.todo = Tail(@)]
     IN  IF c \notin registered
         THEN job' = [job EXCEPT ![p] = rest] /\ UNCHANGED records
         ELSE /\ job' = [job EXCEPT ![p] =
                   [rest EXCEPT !.win = Once(@, l), !.done = @ \union {l}]]
              /\ counted' = Once(counted, l)
              /\ detail' = IF c \in job[p].capture THEN Once(detail, l) ELSE detail
              /\ alerts' = Alerted(l)
              /\ nextId' = IF alerts[c].id = 0 THEN nextId + 1 ELSE nextId
              /\ windows' = SavedWindows(l)
  /\ UNCHANGED <<written, files, saved, setup, lock, pc, history>>

\* A write fails: the offset and the windows stay as they were.  A rotation
\* goes on all the same.
RecordFails(p) ==
  /\ pc[p] = "record"
  /\ Mishap
  /\ reread' = reread \union job[p].done
  /\ IF job[p].op = "rotate"
       THEN /\ behind' = TRUE
            /\ job' = [job EXCEPT ![p] = [NoJob EXCEPT !.op = "rotate"]]
            /\ Goto(p, "rename")
            /\ UNCHANGED lock
       ELSE End(p) /\ UNCHANGED behind
  /\ UNCHANGED <<written, files, saved, records, setup, early, passed, late, cut>>

\* prune_activity (not more than once in 20 hours), then the offset and the
\* windows in one transaction.
Save(p) ==
  /\ pc[p] = "record" /\ job[p].todo = <<>>
  /\ detail' \in {detail, [l \in Lines |-> IF l <= old THEN 0 ELSE detail[l]]}
  /\ saved' = job[p].saved
  /\ windows' = job[p].win
  /\ job' = [job EXCEPT ![p].done = {}]
  /\ Goto(p, "maintain")
  /\ UNCHANGED <<written, files, counted, alerts, nextId, setup, lock, history>>

\* run_independent_maintenance: the alerts past their retention.
Maintain(p) ==
  /\ pc[p] = "maintain"
  /\ alerts' = [c \in Clients |-> IF alerts[c].last <= old THEN NoAlert ELSE alerts[c]]
  /\ IF job[p].op = "rotate" THEN Goto(p, "rename") /\ UNCHANGED <<lock, job>> ELSE End(p)
  /\ UNCHANGED <<written, files, saved, windows, counted, detail, nextId, setup, history>>

-----------------------------------------------------------------------------
(***************************************************************************)
(* rotate_raw_logs.                                                        *)
(***************************************************************************)
Free == Inodes \ (rotated \union {current, open})

\* The file system gives a free number; the same one again as soon as it is free.
NewFile ==
  /\ Free # {}
  /\ LET i == CHOOSE i \in Free : TRUE
     IN  current' = i /\ text' = [text EXCEPT ![i] = <<>>]

\* rotate_file: an empty file is left alone, a missing one is created.
Rename(p) ==
  /\ pc[p] = "rename"
  /\ IF current = NoFile THEN NewFile /\ Goto(p, "reopen") /\ UNCHANGED <<rotated, job>>
     ELSE IF text[current] = <<>> THEN Goto(p, "reopen") /\ UNCHANGED <<text, current, rotated, job>>
     ELSE /\ rotated' = rotated \union {current}
          /\ job' = [job EXCEPT ![p].file = current]
          /\ current' = NoFile
          /\ Goto(p, "create")
          /\ UNCHANGED text
  /\ UNCHANGED <<written, open, archive, saved, records, setup, lock, history>>

\* touch: a restarted Xray may have been faster.
Create(p) ==
  /\ pc[p] = "create"
  /\ IF current = NoFile THEN NewFile ELSE UNCHANGED <<text, current>>
  /\ Goto(p, "pack")
  /\ UNCHANGED <<written, open, rotated, archive, saved, records, setup, lock, job, history>>

\* Mutant of Packed: the archive of the last rotation is written over.
PackedOver(lines) == {lines}

Packed(lines) == archive \union {lines}

Pack(p) ==
  /\ pc[p] = "pack"
  /\ archive' = Packed(ToSet(text[job[p].file]))
  /\ Goto(p, "unlink")
  /\ UNCHANGED <<written, text, current, open, rotated, saved, records, setup, lock, job, history>>

Unlink(p) ==
  /\ pc[p] = "unlink"
  /\ rotated' = rotated \ {job[p].file}
  /\ Goto(p, "reopen")
  /\ UNCHANGED <<written, text, current, open, archive, saved, records, setup, lock, job, history>>

\* Files past the retention go; then Xray is restarted, which may fail.
Reopen(p) ==
  /\ pc[p] = "reopen"
  /\ archive' = {f \in archive : \E l \in f : l > old}
  /\ rotated' = {i \in rotated : \E l \in ToSet(text[i]) : l > old}
  /\ \/ open' = current /\ cut' = FALSE /\ UNCHANGED did
     \/ Mishap /\ cut' = TRUE /\ UNCHANGED open
  /\ End(p)
  /\ UNCHANGED <<written, text, current, saved, records, setup, reread, early, passed, late, behind>>

-----------------------------------------------------------------------------
(***************************************************************************)
(* The other commands under activity.lock.                                 *)
(***************************************************************************)
InLog == IF current = NoFile THEN {} ELSE ToSet(text[current])
Lost == (Lines \ InLog) \ UNION ({ToSet(text[i]) : i \in rotated} \union archive)

\* The lines of c that are in some file and in no detailed event.
Missing(c) ==
  {l \in 1 .. Len(written) : written[l] = c /\ l > old /\ l \notin Lost /\ detail[l] = 0}

\* run_backfill --apply: one transaction over every file, the current one too.
Backfill(p) ==
  /\ ByHand(p, "backfill")
  /\ lock = NoProc
  /\ \E c \in registered :
       /\ detail' = [l \in Lines |-> IF l \in Missing(c) THEN detail[l] + 1 ELSE detail[l]]
       /\ early' = early \union {l \in Missing(c) : current # NoFile /\ l \in ToSet(Unread)}
  /\ UNCHANGED <<written, files, saved, windows, counted, alerts, nextId, setup, lock, pc, job,
                 reread, passed, late, behind, cut>>

\* enable_activity: the mode, then the offset of the end of the file.
Enable(p) ==
  /\ ByHand(p, "enable")
  /\ Locked(p)
  /\ capture' = registered
  /\ Goto(p, "enabling")
  /\ UNCHANGED <<written, files, saved, records, kit, registered, old, job,
                 reread, early, passed, late, behind, cut>>

Enabling(p) ==
  /\ pc[p] = "enabling"
  /\ IF current = NoFile
       THEN saved' = [ino |-> NoFile, off |-> 0] /\ UNCHANGED passed
       ELSE /\ saved' = [ino |-> current, off |-> Len(text[current])]
            /\ passed' = passed \union ToSet(Unread)
  /\ End(p)
  /\ UNCHANGED <<written, files, records, setup, did, reread, early, late, behind, cut>>

\* disable, detail-mode and detail-clients: one row; the other settings follow it.
Capture(p) ==
  /\ ByHand(p, "capture")
  /\ lock = NoProc
  /\ capture' \in SUBSET registered
  /\ UNCHANGED <<written, files, saved, records, kit, registered, old, lock, pc, job,
                 reread, early, passed, late, behind, cut>>

\* kill -9, or an OSError in the middle of a rotation.
Kill(p) ==
  /\ lock = p
  /\ Mishap
  /\ reread' = reread \union job[p].done
  /\ cut' = (cut \/ pc[p] \in {"create", "pack", "unlink", "reopen"})
  /\ End(p)
  /\ UNCHANGED <<written, files, saved, records, setup, early, passed, late, behind>>

-----------------------------------------------------------------------------
(***************************************************************************)
(* The environment.                                                        *)
(***************************************************************************)
Rotating == \E p \in Procs : pc[p] \in {"create", "pack", "unlink", "reopen"}

\* Xray appends a line to the file it has open, whatever its name is by now.
Write ==
  /\ Len(written) < MaxLines
  /\ \E c \in Clients : written' = Append(written, c)
  /\ text' = [text EXCEPT ![open] = Append(@, Len(written'))]
  /\ late' = IF open # current /\ (Rotating \/ cut) THEN late \union {Len(written')} ELSE late
  /\ UNCHANGED <<current, open, rotated, archive, saved, records, setup, lock, pc, job,
                 did, reread, early, passed, behind, cut>>

\* Another command restarts Xray: it opens access.log, or creates it.
XrayRestarts ==
  /\ open # current
  /\ IF current = NoFile THEN NewFile ELSE UNCHANGED <<text, current>>
  /\ open' = current'
  /\ cut' = FALSE
  /\ UNCHANGED <<written, rotated, archive, saved, records, setup, lock, pc, job,
                 did, reread, early, passed, late, behind>>

Age ==
  /\ "age" \in kit
  /\ old < Len(written)
  /\ old' = Len(written)
  /\ UNCHANGED <<written, files, saved, records, kit, capture, registered, lock, pc, job, history>>

\* xray-client remove: the rows of the client go with it.
RemoveClient(c) ==
  /\ "remove" \in kit
  /\ c \in registered
  /\ registered' = registered \ {c}
  /\ LET kept(f) == [l \in Lines |-> IF l <= Len(written) /\ written[l] = c THEN 0 ELSE f[l]]
     IN  counted' = kept(counted) /\ detail' = kept(detail)
  /\ alerts' = [alerts EXCEPT ![c] = NoAlert]
  /\ capture' = capture \ {c}
  /\ UNCHANGED <<written, files, saved, windows, nextId, kit, old, lock, pc, job, history>>

Command(p) ==
  \/ Sync(p) \/ Record(p) \/ RecordFails(p) \/ Save(p) \/ Maintain(p)
  \/ Rotate(p) \/ Rename(p) \/ Create(p) \/ Pack(p) \/ Unlink(p) \/ Reopen(p)
  \/ Backfill(p) \/ Enable(p) \/ Enabling(p) \/ Capture(p) \/ Kill(p)

LogNext ==
  \/ \E p \in Procs : Command(p)
  \/ Write \/ XrayRestarts \/ Age
  \/ \E c \in Clients : RemoveClient(c)

-----------------------------------------------------------------------------
(***************************************************************************)
(* Properties.                                                             *)
(***************************************************************************)
\* The alert windows hold no line twice, however often a sync failed and read it
\* again: they are saved only together with the offset.  Counters and details hold a
\* line twice only when a run that had recorded it did not save its offset, or, for
\* details, when a backfill was faster.
CountedOnce ==
  \A l \in Lines :
    /\ windows[l] <= 1
    /\ counted[l] > 1 => l \in reread
    /\ detail[l] > 1 => l \in reread \union early

\* What lies below the saved offset has been counted: no line of a client is
\* skipped, unless `enable` jumped over it or a rotation went on unread, after
\* which the number of the saved inode may be given to another file.
NoneUnread ==
  saved.ino # NoFile /\ saved.ino = current /\ ~ behind =>
    \A n \in 1 .. Min({saved.off, Len(text[current])}) :
      LET l == text[current][n]
      IN  \/ windows[l] = 1
          \/ l \in passed
          \/ written[l] \notin registered

\* A line younger than the retention stays readable, in access.log or in an
\* archive, wherever a rotation is killed or fails; only what Xray writes to the
\* renamed file while a rotation lasts, or until the next restart after one
\* that did not end, may go.
NoneRotatedAway == \A l \in 1 .. Len(written) : l > old /\ l \in Lost => l \in late

\* No line of a client is lost between Xray, a sync and the rotation of the log.
NoneLost == NoneUnread /\ NoneRotatedAway
=============================================================================
