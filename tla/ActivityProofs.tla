--------------------------- MODULE ActivityProofs ---------------------------
(***************************************************************************)
(* Proofs about GeoipNotices and the ActivityLog under it, for any sets of *)
(* clients, processes and inodes and any bounds.                           *)
(*                                                                         *)
(* The first part follows the lines: which of them a sync has still ahead  *)
(* of it, and what is known of those; which are below the saved offset,    *)
(* and where the others are kept.  The second follows what the runs of     *)
(* notify-geoip read, sent and saved over one another.                     *)
(***************************************************************************)
EXTENDS GeoipNotices, FiniteSums, SequenceTheorems, TLAPS

LockSteps == {"record", "maintain", "rename", "create", "pack", "unlink", "reopen", "enabling"}
FreeSteps == {"idle", "notice", "send", "mark", "chats", "keep", "morning", "summed"}
Saved == [ino : Inodes \union {NoFile}, off : 0 .. MaxLines]
Jobs == [op : {"none", "sync", "rotate"}, todo : Seq(Lines), win : [Lines -> Nat],
         capture : SUBSET Clients, saved : Saved, done : SUBSET Lines,
         file : Inodes \union {NoFile}]
AlertRow == [id : Nat, count : Nat, first : Nat, last : Nat, notified : Nat]
Known == 1 .. Len(written)
Rising(s) == \A i, j \in 1 .. Len(s) : i < j => s[i] < s[j]

FileTypes ==
  /\ written \in Seq(Clients) /\ Len(written) \in 0 .. MaxLines
  /\ text \in [Inodes -> Seq(Lines)]
  /\ \A i \in Inodes :
       Len(text[i]) <= Len(written) /\ Rising(text[i]) /\ ToSet(text[i]) \subseteq Known
  /\ current \in Inodes \union {NoFile} /\ open \in Inodes
  /\ rotated \subseteq Inodes \ {current}
  /\ archive \subseteq SUBSET Known

RecordTypes ==
  /\ saved \in Saved
  /\ windows \in [Lines -> Nat] /\ counted \in [Lines -> Nat] /\ detail \in [Lines -> Nat]
  /\ alerts \in [Clients -> AlertRow]
  /\ nextId \in Nat \ {0}
  /\ registered \subseteq Clients /\ capture \subseteq registered
  /\ old \in 0 .. Len(written)

LockTypes ==
  /\ pc \in [Procs -> LockSteps \union FreeSteps]
  /\ lock \in Procs \union {NoProc}
  /\ \A p \in Procs : pc[p] \in LockSteps <=> lock = p
  /\ job \in [Procs -> Jobs]
  /\ \A p \in Procs : p # lock => job[p] = NoJob

DidTypes == did \in [hand : 0 .. MaxByHand, mishap : 0 .. MaxMishaps]

JobTypes == LockTypes /\ DidTypes

\* What the histories hold are lines that were written.
HistoryTypes ==
  /\ reread \subseteq Known /\ early \subseteq Known /\ passed \subseteq Known /\ late \subseteq Known
  /\ behind \in BOOLEAN /\ cut \in BOOLEAN

LogTypes == FileTypes /\ RecordTypes /\ JobTypes /\ HistoryTypes

-----------------------------------------------------------------------------
(***************************************************************************)
(* The lines a sync has ahead of it: those of access.log after the saved   *)
(* offset, those a running sync has read and not yet recorded, and those   *)
(* written since it began.                                                 *)
(***************************************************************************)
At(step) == lock # NoProc /\ pc[lock] = step

ReadTo == IF saved.ino = current /\ saved.off <= Len(text[current]) THEN saved.off ELSE 0
Beyond(off) == {text[current][n] : n \in off + 1 .. Len(text[current])}
UpTo(off) == {text[current][n] : n \in 1 .. off}

NotRead == IF current = NoFile THEN {} ELSE Beyond(ReadTo)
Todo == IF lock = NoProc THEN {} ELSE ToSet(job[lock].todo)
Done == IF lock = NoProc THEN {} ELSE job[lock].done
Coming == IF At("record") THEN Beyond(job[lock].saved.off) ELSE {}
Ahead == NotRead \union Todo \union Coming

\* What the holder of activity.lock has read, and what it relies on at each step.
Recording ==
  /\ current # NoFile /\ job[lock].saved.ino = current
  /\ job[lock].saved.off <= Len(text[current])
  /\ Rising(job[lock].todo)
  /\ Todo \intersect Done = {}
  /\ Todo \union Done \subseteq UpTo(job[lock].saved.off)
  /\ \A l \in Lines : job[lock].win[l] = windows[l] + IF l \in Done THEN 1 ELSE 0

JobOK ==
  /\ ~ At("record") => Todo = {} /\ Done = {}
  /\ At("record") => Recording
  /\ At("create") \/ At("pack") \/ At("unlink") => job[lock].file \in rotated
  /\ At("pack") \/ At("unlink") \/ At("reopen") => current # NoFile

\* The alert windows hold nothing that is ahead; counters and details hold it once more for
\* every run that failed, and nothing of it before the first run that did.
CountsOK ==
  \A l \in Lines :
    /\ counted[l] <= did.mishap + 1 /\ detail[l] <= did.mishap + did.hand + 1
    /\ counted[l] > 1 => l \in reread
    /\ detail[l] > 1 => l \in reread \union early
    /\ l \in Ahead \ Done =>
         /\ counted[l] <= did.mishap /\ detail[l] <= did.mishap + did.hand
         /\ counted[l] > 0 => l \in reread
         /\ detail[l] > 0 => l \in reread \union early
    /\ l \notin Known => counted[l] = 0 /\ detail[l] = 0

WindowsOK ==
  \A l \in Lines :
    /\ windows[l] <= 1
    /\ l \in Ahead \union Done \/ l \notin Known => windows[l] = 0

\* An alert id is given to a line the first time it is recorded: a line that is read again
\* finds the row of its client, which only the maintenance after a saved offset deletes.
Again == Ahead \intersect (reread \union Done)
Used == {l \in Known : l \notin Ahead \/ l \in Done \union reread}

RowsOK ==
  \A c \in Clients :
    /\ alerts[c].id < nextId
    /\ alerts[c].id = 0 => alerts[c] = NoAlert
    /\ alerts[c].id # 0 => alerts[c].first \in Known /\ alerts[c].last \in Known
    /\ alerts[c].notified <= Len(written)
    /\ c \notin registered => alerts[c].id = 0
    /\ \A d \in Clients : alerts[c].id = alerts[d].id /\ alerts[c].id # 0 => c = d

IdsOK ==
  /\ nextId - 1 <= Cardinality(Used)
  /\ \A l \in Again : written[l] \in registered => alerts[written[l]].id # 0
  /\ At("maintain") => Again = {}
  /\ Coming \intersect reread = {}

\* The count of an alert row is at most the sum of its client's counters.
CountsOf(c) == [l \in Lines |-> IF l \in Known /\ written[l] = c THEN counted[l] ELSE 0]
SumsOK == \A c \in Clients : alerts[c].count <= SumFunctionOnSet(CountsOf(c), Lines)

\* The saved offset is that of access.log, or of a file that was renamed, or of one that is
\* gone, and then nobody is about to make another access.log.
Seen(l) == windows[l] = 1 \/ l \in passed \/ written[l] \notin registered
ReadingOK ==
  ~ behind =>
    /\ \/ saved.ino \in {NoFile, current} \union rotated
       \/ current # NoFile /\ ~ At("maintain") /\ ~ At("rename") /\ ~ At("create")
    /\ saved.ino = current /\ saved.ino # NoFile =>
         saved.off <= Len(text[current]) /\ \A l \in UpTo(saved.off) : Seen(l)
    /\ At("record") => \A l \in UpTo(job[lock].saved.off) : Seen(l) \/ l \in Todo \union Done

\* Xray writes to access.log, or a rotation lasts, or one has ended before its time.
KeepingOK ==
  /\ open = current \/ cut \/ At("create") \/ At("pack") \/ At("unlink") \/ At("reopen")
  /\ At("unlink") => \A l \in ToSet(text[job[lock].file]) : l \in late \union UNION archive
  /\ \A l \in Known :
       l > old => \/ l \in late
                  \/ current # NoFile /\ l \in ToSet(text[current])
                  \/ \E i \in rotated : l \in ToSet(text[i])
                  \/ l \in UNION archive

LogInv == LogTypes /\ JobOK /\ CountsOK /\ WindowsOK /\ RowsOK /\ IdsOK /\ SumsOK /\ ReadingOK /\ KeepingOK

-----------------------------------------------------------------------------
(***************************************************************************)
(* Sequences of lines, which rise.                                         *)
(***************************************************************************)
LEMMA AppendRising ==
  ASSUME NEW t \in Seq(Lines), Rising(t), NEW l \in Lines, \A m \in ToSet(t) : m < l
  PROVE  /\ Append(t, l) \in Seq(Lines) /\ Rising(Append(t, l))
         /\ Len(Append(t, l)) = Len(t) + 1
         /\ ToSet(Append(t, l)) = ToSet(t) \union {l}
         /\ \A n \in 1 .. Len(t) : Append(t, l)[n] = t[n]
         /\ Append(t, l)[Len(t) + 1] = l
<1>1. /\ Append(t, l) \in Seq(Lines) /\ Len(Append(t, l)) = Len(t) + 1 /\ Len(t) \in Nat
      /\ \A n \in 1 .. Len(t) : Append(t, l)[n] = t[n]
      /\ Append(t, l)[Len(t) + 1] = l
  BY AppendProperties
<1> DEFINE u == Append(t, l)
<1> HIDE DEF u
<1>2. /\ u \in Seq(Lines) /\ Len(u) = Len(t) + 1 /\ Len(t) \in Nat
      /\ \A n \in 1 .. Len(t) : u[n] = t[n]
      /\ u[Len(t) + 1] = l
  BY <1>1 DEF u
<1>3. Rising(u)
  <2> SUFFICES ASSUME NEW i \in 1 .. Len(u), NEW j \in 1 .. Len(u), i < j PROVE u[i] < u[j]
    BY DEF Rising
  <2>1. i \in 1 .. Len(t) /\ u[i] = t[i]
    BY <1>2
  <2>2. CASE j \in 1 .. Len(t)
    BY <1>2, <2>1, <2>2 DEF Rising
  <2>3. CASE j = Len(t) + 1
    BY <1>2, <2>1, <2>3 DEF ToSet
  <2> QED
    BY <1>2, <2>2, <2>3
<1>4. ToSet(u) = ToSet(t) \union {l}
  <2>1. \A n \in Int : n \in 1 .. Len(t) + 1 <=> n \in 1 .. Len(t) \/ n = Len(t) + 1
    BY <1>2
  <2>2. \A n \in 1 .. Len(u) : u[n] \in ToSet(t) \union {l}
    BY <1>2, <2>1 DEF ToSet
  <2>3. \A n \in 1 .. Len(t) : t[n] \in ToSet(u)
    BY <1>2, <2>1 DEF ToSet
  <2>4. l \in ToSet(u)
    BY <1>2, <2>1 DEF ToSet
  <2> QED
    BY <2>2, <2>3, <2>4 DEF ToSet
<1> QED
  BY <1>2, <1>3, <1>4 DEF u

LEMMA TailRising ==
  ASSUME NEW t \in Seq(Lines), Rising(t), t # <<>>
  PROVE  /\ Head(t) \in Lines /\ Head(t) \in ToSet(t)
         /\ Tail(t) \in Seq(Lines) /\ Rising(Tail(t))
         /\ ToSet(Tail(t)) = ToSet(t) \ {Head(t)}
<1>1. /\ Head(t) = t[1] /\ Tail(t) \in Seq(Lines) /\ Len(Tail(t)) = Len(t) - 1
      /\ Len(t) \in Nat \ {0} /\ Head(t) \in Lines
      /\ \A n \in 1 .. Len(Tail(t)) : Tail(t)[n] = t[n + 1]
  BY HeadTailProperties, EmptySeq
<1> DEFINE u == Tail(t)
           h == Head(t)
<1> HIDE DEF u, h
<1>2. /\ h = t[1] /\ u \in Seq(Lines) /\ Len(u) = Len(t) - 1 /\ Len(t) \in Nat \ {0} /\ h \in Lines
      /\ \A n \in 1 .. Len(u) : u[n] = t[n + 1]
  BY <1>1 DEF u, h
<1>3. Rising(u)
  <2> SUFFICES ASSUME NEW i \in 1 .. Len(u), NEW j \in 1 .. Len(u), i < j PROVE u[i] < u[j]
    BY DEF Rising
  <2>1. i + 1 \in 1 .. Len(t) /\ j + 1 \in 1 .. Len(t) /\ i + 1 < j + 1
    BY <1>2
  <2>2. t[i + 1] < t[j + 1]
    BY <2>1 DEF Rising
  <2> QED
    BY <1>2, <2>2
<1>4. \A n \in 2 .. Len(t) : t[n] \in Lines /\ h \in Lines /\ h < t[n]
  BY <1>2 DEF Rising
<1>5. \A n \in 1 .. Len(u) : u[n] \in ToSet(t) /\ u[n] # h
  <2> SUFFICES ASSUME NEW n \in 1 .. Len(u) PROVE u[n] \in ToSet(t) /\ u[n] # h
    OBVIOUS
  <2>1. n + 1 \in 2 .. Len(t) /\ n + 1 \in 1 .. Len(t) /\ u[n] = t[n + 1]
    BY <1>2
  <2>2. t[n + 1] \in Lines /\ h \in Lines /\ h < t[n + 1]
    BY <1>4, <2>1
  <2>3. t[n + 1] # h
    BY <2>2 DEF Lines
  <2> QED
    BY <2>1, <2>3 DEF ToSet
<1>6. \A n \in 1 .. Len(t) : t[n] # h => t[n] \in ToSet(u)
  <2> SUFFICES ASSUME NEW n \in 1 .. Len(t), t[n] # h PROVE t[n] \in ToSet(u)
    OBVIOUS
  <2>1. n - 1 \in 1 .. Len(u) /\ (n - 1) + 1 = n
    BY <1>2
  <2>2. u[n - 1] = t[n]
    BY <1>2, <2>1
  <2> QED
    BY <2>1, <2>2 DEF ToSet
<1>7. ToSet(u) = ToSet(t) \ {h}
  BY <1>5, <1>6 DEF ToSet
<1>8. h \in ToSet(t)
  BY <1>2 DEF ToSet
<1> QED
  BY <1>2, <1>3, <1>7, <1>8 DEF u, h

LEMMA SuffixRising ==
  ASSUME NEW t \in Seq(Lines), Rising(t), NEW k \in 0 .. Len(t)
  PROVE  /\ SubSeq(t, k + 1, Len(t)) \in Seq(Lines) /\ Rising(SubSeq(t, k + 1, Len(t)))
         /\ ToSet(SubSeq(t, k + 1, Len(t))) = {t[n] : n \in k + 1 .. Len(t)}
<1> DEFINE u == SubSeq(t, k + 1, Len(t))
<1>1. Len(t) \in Nat /\ k \in Nat /\ k + 1 \in 1 .. Len(t) + 1
  OBVIOUS
<1>2. u \in Seq(Lines) /\ Len(u) = Len(t) - k /\ \A n \in 1 .. Len(t) - k : u[n] = t[k + n]
  <2>1. CASE k + 1 <= Len(t)
    BY <1>1, <2>1, SubSeqProperties
  <2>2. CASE k = Len(t)
    BY <1>1, <2>2, SubSeqProperties
  <2> QED
    BY <1>1, <2>1, <2>2
<1> HIDE DEF u
<1>3. Rising(u)
  <2> SUFFICES ASSUME NEW i \in 1 .. Len(u), NEW j \in 1 .. Len(u), i < j PROVE u[i] < u[j]
    BY DEF Rising
  <2>1. k + i \in 1 .. Len(t) /\ k + j \in 1 .. Len(t) /\ k + i < k + j
    BY <1>1, <1>2
  <2>2. t[k + i] < t[k + j]
    BY <2>1 DEF Rising
  <2> QED
    BY <1>2, <2>2
<1>4. \A n \in 1 .. Len(u) : u[n] = t[k + n] /\ k + n \in k + 1 .. Len(t)
  BY <1>1, <1>2
<1>5. \A n \in k + 1 .. Len(t) : n - k \in 1 .. Len(u) /\ u[n - k] = t[n]
  <2> SUFFICES ASSUME NEW n \in k + 1 .. Len(t) PROVE n - k \in 1 .. Len(u) /\ u[n - k] = t[n]
    OBVIOUS
  <2>1. n - k \in 1 .. Len(t) - k /\ k + (n - k) = n
    BY <1>1
  <2> QED
    BY <1>2, <2>1
<1>6. ToSet(u) = {t[n] : n \in k + 1 .. Len(t)}
  <2>1. \A n \in 1 .. Len(u) : u[n] \in {t[m] : m \in k + 1 .. Len(t)}
    BY <1>4
  <2>2. \A n \in k + 1 .. Len(t) : t[n] \in {u[m] : m \in 1 .. Len(u)}
    BY <1>5
  <2> QED
    BY <2>1, <2>2 DEF ToSet
<1> QED
  BY <1>2, <1>3, <1>6 DEF u

-----------------------------------------------------------------------------
(***************************************************************************)
(* What is ahead at which step.                                            *)
(***************************************************************************)
LEMMA Bounds == MaxLines \in Nat /\ MaxMishaps \in Nat /\ MaxByHand \in Nat
  BY ActivityAssumption

LEMMA NoFileIsNone == NoFile \notin Inodes /\ NoProc \notin Procs /\ Timer \in Procs
  BY ActivityAssumption

LEMMA ReadToRange == ASSUME FileTypes, RecordTypes, current # NoFile
                     PROVE  current \in Inodes /\ ReadTo \in 0 .. Len(text[current])
                            /\ text[current] \in Seq(Lines) /\ Len(text[current]) \in 0 .. MaxLines
<1>1. current \in Inodes /\ text[current] \in Seq(Lines) /\ Len(text[current]) \in Nat
  BY DEF FileTypes
<1>2. Len(text[current]) <= Len(written) /\ Len(written) \in 0 .. MaxLines
  BY <1>1 DEF FileTypes
<1>3. saved.off \in Nat
  BY DEF RecordTypes, Saved
<1>4. ReadTo \in 0 .. Len(text[current])
  BY <1>1, <1>3 DEF ReadTo
<1> QED
  BY <1>1, <1>2, <1>4, Bounds

\* What Open reads is what is not read yet.
LEMMA UnreadIs == ASSUME FileTypes, RecordTypes, current # NoFile
                  PROVE  Unread \in Seq(Lines) /\ Rising(Unread) /\ ToSet(Unread) = NotRead
<1> DEFINE t == text[current]
<1>1. t \in Seq(Lines) /\ Rising(t) /\ ReadTo \in 0 .. Len(t)
  BY ReadToRange DEF FileTypes
<1>2. Unread = SubSeq(t, ReadTo + 1, Len(t))
  BY DEF Unread, From, ReadTo
<1>3. NotRead = {t[n] : n \in ReadTo + 1 .. Len(t)}
  BY DEF NotRead, Beyond
<1> HIDE DEF t
<1> QED
  BY <1>1, <1>2, <1>3, SuffixRising

\* All that is ahead was written.
LEMMA AheadKnown == ASSUME LogTypes, JobOK PROVE Ahead \union Done \subseteq Known /\ Known \subseteq Lines
                       /\ NotRead \subseteq Known
<1>1. Known \subseteq Lines
  BY Bounds DEF LogTypes, FileTypes, Known, Lines
<1>2. ASSUME NEW off \in 0 .. MaxLines, current # NoFile
      PROVE  Beyond(off) \subseteq Known /\ (off <= Len(text[current]) => UpTo(off) \subseteq Known)
  <2>1. current \in Inodes /\ text[current] \in Seq(Lines) /\ ToSet(text[current]) \subseteq Known
    BY <1>2 DEF LogTypes, FileTypes
  <2>2. \A n \in 1 .. Len(text[current]) : text[current][n] \in Known
    BY <2>1 DEF ToSet
  <2>3. Len(text[current]) \in Nat
    BY <2>1
  <2>4. \A n \in off + 1 .. Len(text[current]) : n \in 1 .. Len(text[current])
    BY <2>3, Bounds
  <2>5. off <= Len(text[current]) => \A n \in 1 .. off : n \in 1 .. Len(text[current])
    BY <2>3, Bounds
  <2> QED
    BY <2>2, <2>4, <2>5 DEF Beyond, UpTo
<1>3. NotRead \subseteq Known
  <2>1. current # NoFile => ReadTo \in 0 .. MaxLines
    BY ReadToRange, Bounds DEF LogTypes
  <2> QED
    BY <1>2, <2>1 DEF NotRead
<1>4. At("record") => job[lock].saved.off \in 0 .. MaxLines
  BY DEF LogTypes, JobTypes, LockTypes, Jobs, Saved, At
<1>5. Coming \subseteq Known /\ Todo \union Done \subseteq Known
  <2>1. CASE At("record")
    <3>1. Recording
      BY <2>1 DEF JobOK
    <3> QED
      BY <1>2, <1>4, <2>1, <3>1 DEF Recording, Coming
  <2>2. CASE ~ At("record")
    BY <2>2 DEF JobOK, Coming
  <2> QED
    BY <2>1, <2>2
<1> QED
  BY <1>1, <1>3, <1>5 DEF Ahead

-----------------------------------------------------------------------------
(***************************************************************************)
(* Taking, keeping and freeing activity.lock.                              *)
(***************************************************************************)
LEMMA NoJobType == NoJob \in Jobs /\ NoJob.todo = <<>> /\ NoJob.done = {} /\ ToSet(<<>>) = {}
                   /\ None \in [Lines -> Nat]
<1>1. None \in [Lines -> Nat]
  BY DEF None
<1>2. [ino |-> NoFile, off |-> 0] \in Saved
  BY Bounds DEF Saved
<1>3. <<>> \in Seq(Lines) /\ ToSet(<<>>) = {}
  BY EmptySeq DEF ToSet
<1> QED
  BY <1>1, <1>2, <1>3 DEF NoJob, Jobs

LEMMA StepsApart == LockSteps \intersect FreeSteps = {}
  BY DEF LockSteps, FreeSteps

\* The job of the holder, at the step it is at.
LEMMA Holder ==
  ASSUME LockTypes, NEW p \in Procs, pc[p] \in LockSteps
  PROVE  /\ lock = p /\ lock # NoProc /\ job[p] \in Jobs
         /\ \A step : At(step) <=> pc[p] = step
         /\ Todo = ToSet(job[p].todo) /\ Done = job[p].done
<1>1. lock = p /\ p # NoProc /\ job[p] \in Jobs
  BY NoFileIsNone DEF LockTypes
<1> QED
  BY <1>1 DEF At, Todo, Done

LEMMA NoHolder ==
  ASSUME lock = NoProc
  PROVE  /\ \A step : ~ At(step)
         /\ Todo = {} /\ Done = {} /\ Coming = {} /\ Ahead = NotRead
  BY DEF At, Todo, Done, Coming, Ahead

LEMMA StaysHolder ==
  ASSUME LockTypes, NEW p \in Procs, lock = p, NEW step \in LockSteps, Goto(p, step),
         NEW j \in Jobs, job' = [job EXCEPT ![p] = j], lock' = lock
  PROVE  /\ LockTypes' /\ lock' # NoProc /\ job'[lock'] = j
         /\ \A s : At(s)' <=> s = step
         /\ Todo' = ToSet(j.todo) /\ Done' = j.done
<1>1. p # NoProc
  BY NoFileIsNone
<1>2. /\ pc' \in [Procs -> LockSteps \union FreeSteps]
      /\ pc'[p] = step /\ \A q \in Procs \ {p} : pc'[q] = pc[q]
      /\ job' \in [Procs -> Jobs] /\ job'[p] = j /\ \A q \in Procs \ {p} : job'[q] = job[q]
  BY DEF LockTypes, Goto
<1>3. LockTypes'
  BY <1>1, <1>2 DEF LockTypes
<1> QED
  BY <1>1, <1>2, <1>3 DEF At, Todo, Done

LEMMA TakesHold ==
  ASSUME LockTypes, NEW p \in Procs, lock = NoProc, lock' = p, NEW step \in LockSteps,
         Goto(p, step), NEW j \in Jobs, job' = [job EXCEPT ![p] = j]
  PROVE  /\ LockTypes' /\ lock' # NoProc /\ job'[lock'] = j
         /\ \A s : At(s)' <=> s = step
         /\ Todo' = ToSet(j.todo) /\ Done' = j.done
<1>1. p # NoProc
  BY NoFileIsNone
<1>2. /\ pc' \in [Procs -> LockSteps \union FreeSteps]
      /\ pc'[p] = step /\ \A q \in Procs \ {p} : pc'[q] = pc[q]
      /\ job' \in [Procs -> Jobs] /\ job'[p] = j /\ \A q \in Procs \ {p} : job'[q] = job[q]
  BY DEF LockTypes, Goto
<1>3. \A q \in Procs : pc[q] \notin LockSteps /\ job[q] = NoJob /\ q # NoProc
  BY NoFileIsNone DEF LockTypes
<1>4. \A q \in Procs : pc'[q] \in LockSteps <=> lock' = q
  BY <1>2, <1>3
<1>5. \A q \in Procs : q # lock' => job'[q] = NoJob
  BY <1>2, <1>3
<1>6. LockTypes'
  BY <1>2, <1>4, <1>5 DEF LockTypes
<1> QED
  BY <1>1, <1>2, <1>6 DEF At, Todo, Done

LEMMA EndFrees ==
  ASSUME LockTypes, NEW p \in Procs, lock = p, End(p)
  PROVE  /\ LockTypes' /\ lock' = NoProc
         /\ \A s : ~ At(s)'
         /\ Todo' = {} /\ Done' = {} /\ Coming' = {}
<1>1. p # NoProc
  BY NoFileIsNone
<1> DEFINE step == IF p = Timer THEN "notice" ELSE "idle"
<1>2. step \in FreeSteps /\ step \notin LockSteps
  BY DEF FreeSteps, LockSteps
<1>3. Goto(p, step)
  BY DEF End
<1> HIDE DEF step
<1>4. /\ pc' \in [Procs -> LockSteps \union FreeSteps]
      /\ pc'[p] = step /\ \A q \in Procs \ {p} : pc'[q] = pc[q]
  BY <1>2, <1>3 DEF LockTypes, Goto
<1>5. /\ job' \in [Procs -> Jobs] /\ job'[p] = NoJob /\ \A q \in Procs \ {p} : job'[q] = job[q]
      /\ lock' = NoProc
  BY NoJobType DEF LockTypes, End
<1>6. LockTypes'
  BY <1>1, <1>2, <1>4, <1>5, NoFileIsNone DEF LockTypes
<1> QED
  BY <1>5, <1>6 DEF At, Todo, Done, Coming

\* Those that do not hold the lock go from step to step beside the holder.
LEMMA StepsBeside ==
  ASSUME LockTypes, NEW p \in Procs, pc[p] \in FreeSteps, NEW step \in FreeSteps, Goto(p, step),
         UNCHANGED <<lock, job>>
  PROVE  /\ LockTypes' /\ p # lock
         /\ \A s : At(s)' <=> At(s)
         /\ Todo' = Todo /\ Done' = Done
<1>1. step \notin LockSteps /\ pc[p] \notin LockSteps
  BY StepsApart
<1>2. /\ pc' \in [Procs -> LockSteps \union FreeSteps]
      /\ pc'[p] = step /\ \A q \in Procs \ {p} : pc'[q] = pc[q]
  BY DEF LockTypes, Goto
<1>3. p # lock
  BY <1>1 DEF LockTypes
<1>4. LockTypes'
  BY <1>1, <1>2, <1>3 DEF LockTypes
<1>5. lock # NoProc => lock \in Procs \ {p}
  BY <1>3 DEF LockTypes
<1>6. \A s : At(s)' <=> At(s)
  BY <1>2, <1>5 DEF At
<1> QED
  BY <1>3, <1>4, <1>6 DEF Todo, Done

-----------------------------------------------------------------------------
(***************************************************************************)
(* What most steps do to the lines that are ahead: nothing, or they drop   *)
(* some, and what a run had recorded of them is then known as reread.      *)
(***************************************************************************)
Calm ==
  /\ written' = written
  /\ Ahead' \subseteq Ahead /\ Done' \subseteq Done
  /\ reread \subseteq reread' /\ reread' \subseteq reread \union Done
  /\ early \subseteq early'
  /\ did'.mishap >= did.mishap /\ did'.hand >= did.hand
  /\ \A l \in Done : \/ l \notin Ahead' \/ l \in Done'
                     \/ l \in reread' /\ did'.mishap = did.mishap + 1

LEMMA Numbers == ASSUME LogTypes
                 PROVE  /\ did.mishap \in Nat /\ did.hand \in Nat
                        /\ \A l \in Lines : counted[l] \in Nat /\ detail[l] \in Nat /\ windows[l] \in Nat
  BY DEF LogTypes, JobTypes, DidTypes, RecordTypes

LEMMA CountsCalm ==
  ASSUME LogTypes, LogTypes', CountsOK, Calm,
         \A l \in Lines : counted'[l] <= counted[l] /\ detail'[l] <= detail[l]
  PROVE  CountsOK'
<1> SUFFICES ASSUME NEW l \in Lines
             PROVE  /\ counted'[l] <= did'.mishap + 1 /\ detail'[l] <= did'.mishap + did'.hand + 1
                    /\ counted'[l] > 1 => l \in reread'
                    /\ detail'[l] > 1 => l \in reread' \union early'
                    /\ l \in Ahead' \ Done' =>
                         /\ counted'[l] <= did'.mishap /\ detail'[l] <= did'.mishap + did'.hand
                         /\ counted'[l] > 0 => l \in reread'
                         /\ detail'[l] > 0 => l \in reread' \union early'
                    /\ l \notin Known' => counted'[l] = 0 /\ detail'[l] = 0
  BY DEF CountsOK
<1>1. /\ counted[l] \in Nat /\ detail[l] \in Nat /\ counted'[l] \in Nat /\ detail'[l] \in Nat
      /\ did.mishap \in Nat /\ did.hand \in Nat /\ did'.mishap \in Nat /\ did'.hand \in Nat
  BY Numbers DEF LogTypes, JobTypes, DidTypes, RecordTypes
<1>2. counted'[l] <= counted[l] /\ detail'[l] <= detail[l]
  OBVIOUS
<1>3. /\ counted[l] <= did.mishap + 1 /\ detail[l] <= did.mishap + did.hand + 1
      /\ counted[l] > 1 => l \in reread
      /\ detail[l] > 1 => l \in reread \union early
  BY DEF CountsOK
<1>4. /\ did'.mishap >= did.mishap /\ did'.hand >= did.hand
      /\ reread \subseteq reread' /\ early \subseteq early' /\ Known' = Known
  BY DEF Calm, Known
<1>5. ASSUME l \in Ahead' \ Done'
      PROVE  /\ counted'[l] <= did'.mishap /\ detail'[l] <= did'.mishap + did'.hand
             /\ counted'[l] > 0 => l \in reread'
             /\ detail'[l] > 0 => l \in reread' \union early'
  <2>1. CASE l \in Done
    <3>1. l \in reread' /\ did'.mishap = did.mishap + 1
      BY <1>5, <2>1 DEF Calm
    <3> QED
      BY <1>1, <1>2, <1>3, <1>4, <3>1
  <2>2. CASE l \notin Done
    <3>1. l \in Ahead \ Done
      BY <1>5, <2>2 DEF Calm
    <3>2. /\ counted[l] <= did.mishap /\ detail[l] <= did.mishap + did.hand
          /\ counted[l] > 0 => l \in reread
          /\ detail[l] > 0 => l \in reread \union early
      BY <3>1 DEF CountsOK
    <3> QED
      BY <1>1, <1>2, <1>4, <3>2
  <2> QED
    BY <2>1, <2>2
<1>6. l \notin Known' => counted'[l] = 0 /\ detail'[l] = 0
  <2>1. l \notin Known => counted[l] = 0 /\ detail[l] = 0
    BY DEF CountsOK
  <2> QED
    BY <1>1, <1>2, <1>4, <2>1
<1>7. /\ counted'[l] <= did'.mishap + 1 /\ detail'[l] <= did'.mishap + did'.hand + 1
      /\ counted'[l] > 1 => l \in reread'
      /\ detail'[l] > 1 => l \in reread' \union early'
  BY <1>1, <1>2, <1>3, <1>4
<1> QED
  BY <1>5, <1>6, <1>7

LEMMA WindowsCalm == ASSUME WindowsOK, Calm, windows' = windows PROVE WindowsOK'
<1>1. Known' = Known /\ Ahead' \union Done' \subseteq Ahead \union Done
  BY DEF Calm, Known
<1> QED
  BY <1>1 DEF WindowsOK

LEMMA UsedGrows ==
  ASSUME LogTypes, Calm
  PROVE  /\ Used \subseteq Used' /\ Again' \subseteq Again
         /\ Cardinality(Used) \in Nat /\ Cardinality(Used') \in Nat
         /\ Cardinality(Used) <= Cardinality(Used')
<1>1. Known' = Known /\ IsFiniteSet(Known)
  <2>1. Len(written) \in Nat
    BY Bounds DEF LogTypes, FileTypes
  <2> QED
    BY <2>1, FS_Interval DEF Calm, Known
<1>2. Used \subseteq Used'
  <2> SUFFICES ASSUME NEW l \in Used PROVE l \in Used'
    OBVIOUS
  <2>1. l \in Known' /\ (l \notin Ahead \/ l \in Done \/ l \in reread)
    BY <1>1 DEF Used
  <2>2. l \notin Ahead' \/ l \in Done' \union reread'
    BY <2>1 DEF Calm
  <2> QED
    BY <2>1, <2>2 DEF Used
<1>3. Again' \subseteq Again
  BY DEF Again, Calm
<1>4. IsFiniteSet(Used') /\ IsFiniteSet(Used)
  <2>1. Used' \subseteq Known' /\ Used \subseteq Known
    BY DEF Used
  <2> QED
    BY <1>1, <2>1, FS_Subset
<1> QED
  BY <1>2, <1>3, <1>4, FS_Subset, FS_CardinalityType

LEMMA IdsCalm ==
  ASSUME LogTypes, LogTypes', IdsOK, Calm, nextId' = nextId, registered' \subseteq registered,
         \A c \in registered' : alerts[c].id # 0 => alerts'[c].id # 0,
         At("maintain")' => At("maintain") \/ Again' = {},
         Coming' \intersect reread' = {}
  PROVE  IdsOK'
<1>1. /\ Again' \subseteq Again /\ Cardinality(Used) <= Cardinality(Used')
      /\ Cardinality(Used) \in Nat /\ Cardinality(Used') \in Nat
  BY UsedGrows
<1>2. nextId - 1 <= Cardinality(Used) /\ nextId' = nextId /\ nextId \in Nat
  BY DEF IdsOK, LogTypes, RecordTypes
<1>3. nextId' - 1 <= Cardinality(Used')
  <2> DEFINE a == Cardinality(Used)
             b == Cardinality(Used')
  <2>1. a <= b /\ a \in Nat /\ b \in Nat /\ nextId - 1 <= a
    BY <1>1, <1>2
  <2> HIDE DEF a, b
  <2>2. nextId' - 1 <= b
    BY <1>2, <2>1
  <2> QED
    BY <2>2 DEF b
<1>4. \A l \in Again' : written'[l] \in registered' => alerts'[written'[l]].id # 0
  <2>1. \A l \in Again : written[l] \in registered => alerts[written[l]].id # 0
    BY DEF IdsOK
  <2>2. written' = written
    BY DEF Calm
  <2> QED
    BY <1>1, <2>1, <2>2
<1>5. At("maintain")' => Again' = {}
  <2>1. At("maintain") => Again = {}
    BY DEF IdsOK
  <2> QED
    BY <1>1, <2>1
<1> QED
  BY <1>3, <1>4, <1>5 DEF IdsOK

LEMMA SumsKept ==
  ASSUME SumsOK, LogTypes, LogTypes', written' = written, counted' = counted,
         \A c \in Clients : alerts'[c].count <= alerts[c].count
  PROVE  SumsOK'
<1> SUFFICES ASSUME NEW c \in Clients
             PROVE  alerts'[c].count <= SumFunctionOnSet(CountsOf(c), Lines)'
  BY DEF SumsOK
<1>1. CountsOf(c)' = CountsOf(c)
  BY DEF CountsOf, Known
<1> DEFINE n == SumFunctionOnSet(CountsOf(c), Lines)
<1>2. SumFunctionOnSet(CountsOf(c), Lines)' = n
  BY <1>1 DEF Lines
<1>3. alerts[c].count <= n
  BY DEF SumsOK
<1>4. n \in Int
  <2>1. IsFiniteSet(Lines) /\ \A l \in Lines : CountsOf(c)[l] \in Int
    BY Bounds, FS_Interval DEF Lines, CountsOf, LogTypes, RecordTypes
  <2> QED
    BY <2>1, SumInt
<1>5. alerts[c].count \in Nat /\ alerts'[c].count \in Nat /\ alerts'[c].count <= alerts[c].count
  BY DEF LogTypes, RecordTypes, AlertRow
<1> HIDE DEF n
<1>6. alerts'[c].count <= n
  BY <1>3, <1>4, <1>5
<1> QED
  BY <1>2, <1>6

\* A step that leaves what the counters, the windows and the alert rows say.
LEMMA RecordsQuiet ==
  ASSUME LogInv, LogTypes', Calm, UNCHANGED <<records, registered>>,
         At("maintain")' => At("maintain") \/ Again' = {},
         Coming' \intersect reread' = {}
  PROVE  CountsOK' /\ WindowsOK' /\ RowsOK' /\ IdsOK' /\ SumsOK'
<1>1. CountsOK'
  <2>1. \A l \in Lines : counted'[l] <= counted[l] /\ detail'[l] <= detail[l]
    BY Numbers DEF LogInv, records
  <2> QED
    BY <2>1, CountsCalm DEF LogInv
<1>2. WindowsOK'
  BY WindowsCalm DEF LogInv, records
<1>3. RowsOK'
  <2>1. written' = written /\ alerts' = alerts /\ nextId' = nextId /\ registered' = registered
    BY DEF Calm, records
  <2>2. Known' = Known
    BY <2>1 DEF Known
  <2> QED
    BY <2>1, <2>2 DEF RowsOK, LogInv
<1>4. IdsOK'
  BY IdsCalm DEF LogInv, records
<1>5. SumsOK'
  <2>1. \A c \in Clients : alerts'[c].count <= alerts[c].count
    BY DEF LogInv, LogTypes, RecordTypes, AlertRow, records
  <2> QED
    BY <2>1, SumsKept DEF LogInv, records, Calm
<1> QED
  BY <1>1, <1>2, <1>3, <1>4, <1>5

\* A step beside the holder of the lock, or while there is none.
LEMMA BesideInv ==
  ASSUME LogInv, LogTypes',
         UNCHANGED <<written, files, saved, windows, nextId, lock, job, reread, passed, late, behind, cut>>,
         \A s : At(s)' <=> At(s),
         did'.mishap >= did.mishap, did'.hand >= did.hand, early \subseteq early',
         registered' \subseteq registered, old' >= old, RowsOK',
         \A c \in registered' : alerts[c].id # 0 => alerts'[c].id # 0
  PROVE  /\ JobOK' /\ WindowsOK' /\ IdsOK' /\ ReadingOK' /\ KeepingOK'
         /\ Calm /\ Ahead' = Ahead /\ Done' = Done
<1>1. UNCHANGED <<text, current, open, rotated, archive>>
  BY DEF files
<1>2. /\ NotRead' = NotRead /\ Todo' = Todo /\ Done' = Done /\ Coming' = Coming
      /\ \A off : UpTo(off)' = UpTo(off)
  BY <1>1 DEF NotRead, Beyond, ReadTo, Todo, Done, Coming, UpTo
<1>3. Ahead' = Ahead
  BY <1>2 DEF Ahead
<1>4. JobOK'
  <2>1. Recording => Recording'
    BY <1>1, <1>2 DEF Recording
  <2> QED
    BY <1>1, <1>2, <2>1 DEF JobOK, LogInv
<1>5. Calm
  BY <1>2, <1>3 DEF Calm
<1>6. WindowsOK'
  BY <1>5, WindowsCalm DEF LogInv
<1>7. IdsOK'
  <2>1. Coming' \intersect reread' = {}
    BY <1>2 DEF LogInv, IdsOK
  <2> QED
    BY <1>5, <2>1, IdsCalm DEF LogInv
<1>8. ReadingOK'
  <2>1. \A l : Seen(l) => Seen(l)'
    BY DEF Seen
  <2>2. ReadingOK
    BY DEF LogInv
  <2>3. ASSUME ~ behind
        PROVE  At("record") =>
                 \A l \in UpTo(job[lock].saved.off) : Seen(l)' \/ l \in Todo \union Done
    BY <2>1, <2>2, <2>3 DEF ReadingOK
  <2>4. ASSUME ~ behind, saved.ino = current, saved.ino # NoFile
        PROVE  saved.off <= Len(text[current]) /\ \A l \in UpTo(saved.off) : Seen(l)'
    BY <2>1, <2>2, <2>4 DEF ReadingOK
  <2>5. ASSUME ~ behind
        PROVE  \/ saved.ino \in {NoFile, current} \union rotated
               \/ current # NoFile /\ ~ At("maintain") /\ ~ At("rename") /\ ~ At("create")
    BY <2>2, <2>5 DEF ReadingOK
  <2> QED
    BY <1>1, <1>2, <2>3, <2>4, <2>5 DEF ReadingOK
<1>9. KeepingOK'
  <2>1. KeepingOK /\ old \in Int /\ old' \in Int /\ Known' = Known /\ \A l \in Known : l \in Int
    BY DEF LogInv, LogTypes, RecordTypes, Known
  <2>2. \A l \in Known : l > old' => l > old
    BY <2>1
  <2> QED
    BY <1>1, <2>1, <2>2 DEF KeepingOK
<1> QED
  BY <1>2, <1>3, <1>4, <1>5, <1>6, <1>7, <1>8, <1>9

\* Nothing is said of the alerts but when the owner was told.
SameRows ==
  \A c \in Clients :
    /\ alerts'[c].id = alerts[c].id /\ alerts'[c].count = alerts[c].count
    /\ alerts'[c].first = alerts[c].first /\ alerts'[c].last = alerts[c].last
    /\ alerts'[c].notified \in 0 .. Len(written)
    /\ alerts[c].id = 0 => alerts'[c] = alerts[c]

LEMMA SameRowsOK ==
  ASSUME RowsOK, LogTypes, LogTypes', SameRows, UNCHANGED <<written, nextId>>,
         registered' = registered
  PROVE  RowsOK'
<1>1. Known' = Known
  BY DEF Known
<1> QED
  BY <1>1 DEF RowsOK, SameRows

\* What does not touch the log at all: the runs of notify-geoip and the settings.
LEMMA AsideInv ==
  ASSUME LogInv, LogTypes',
         UNCHANGED <<written, files, saved, windows, counted, detail, nextId, registered, lock, job,
                     reread, early, passed, late, behind, cut>>,
         \A s : At(s)' <=> At(s),
         did'.mishap >= did.mishap, did'.hand >= did.hand, old' >= old, SameRows
  PROVE  LogInv'
<1>1. RowsOK'
  BY SameRowsOK DEF LogInv
<1>2. \A c \in registered' : alerts[c].id # 0 => alerts'[c].id # 0
  BY DEF SameRows, LogInv, LogTypes, RecordTypes
<1>3. /\ JobOK' /\ WindowsOK' /\ IdsOK' /\ ReadingOK' /\ KeepingOK' /\ Calm
  BY <1>1, <1>2, BesideInv
<1>4. CountsOK'
  <2>1. \A l \in Lines : counted'[l] <= counted[l] /\ detail'[l] <= detail[l]
    BY Numbers DEF LogInv
  <2> QED
    BY <1>3, <2>1, CountsCalm DEF LogInv
<1>5. SumsOK'
  <2>1. \A c \in Clients : alerts'[c].count <= alerts[c].count
    BY DEF LogInv, LogTypes, RecordTypes, AlertRow, SameRows
  <2> QED
    BY <2>1, SumsKept DEF LogInv
<1> QED
  BY <1>1, <1>3, <1>4, <1>5 DEF LogInv

\* The bounded things of the histories.
LEMMA MishapDid == ASSUME DidTypes, Mishap
                   PROVE  DidTypes' /\ did'.mishap = did.mishap + 1 /\ did'.hand = did.hand
                          /\ did.mishap \in Nat /\ did.hand \in Nat
<1>1. did' = [did EXCEPT !.mishap = @ + 1] /\ did.mishap < MaxMishaps
  BY DEF Mishap
<1> QED
  BY <1>1, Bounds DEF DidTypes

LEMMA HandDid == ASSUME DidTypes, NEW p \in Procs, NEW op, ByHand(p, op)
                 PROVE  DidTypes' /\ did'.mishap = did.mishap /\ did'.hand = did.hand + 1
                        /\ did.mishap \in Nat /\ did.hand \in Nat
                        /\ pc[p] = "idle" /\ p # Timer
<1>1. did' = [did EXCEPT !.hand = @ + 1] /\ did.hand < MaxByHand /\ pc[p] = "idle" /\ p # Timer
  BY DEF ByHand
<1> QED
  BY <1>1, Bounds DEF DidTypes

LEMMA SameDid == ASSUME DidTypes, UNCHANGED did
                 PROVE  DidTypes' /\ did'.mishap = did.mishap /\ did'.hand = did.hand
                        /\ did.mishap \in Nat /\ did.hand \in Nat
  BY Bounds DEF DidTypes

-----------------------------------------------------------------------------
(***************************************************************************)
(* sync_activity.                                                          *)
(***************************************************************************)
LEMMA OpenInv ==
  ASSUME LogInv, NEW p \in Procs, pc[p] = "idle", NEW op \in {"sync", "rotate"}, Open(p, op),
         DidTypes', did'.mishap >= did.mishap, did'.hand >= did.hand
  PROVE  LogInv'
<1>1. /\ lock = NoProc /\ lock' = p
      /\ UNCHANGED <<written, files, saved, records, setup, reread, early, passed, late, behind, cut>>
  BY DEF Open, Locked
<1>2. UNCHANGED <<written, text, current, open, rotated, archive, saved, windows, counted, detail,
                  alerts, nextId, capture, registered, old, reread, early, passed, late, behind, cut>>
  BY <1>1 DEF files, records, setup
<1>3. /\ \A step : ~ At(step)
      /\ Todo = {} /\ Done = {} /\ Coming = {} /\ Ahead = NotRead
  BY <1>1, NoHolder
<1>4. LogTypes /\ LockTypes /\ FileTypes /\ RecordTypes
  BY DEF LogInv, LogTypes, JobTypes
<1>5. ReadTo' = ReadTo /\ NotRead' = NotRead /\ Known' = Known /\ \A off : UpTo(off)' = UpTo(off)
  BY <1>2 DEF NotRead, Beyond, ReadTo, Known, UpTo
<1>6. ASSUME LockTypes' PROVE LogTypes'
  <2>1. FileTypes' /\ RecordTypes' /\ HistoryTypes'
    BY <1>2, <1>4, <1>5 DEF LogTypes, FileTypes, RecordTypes, HistoryTypes
  <2> QED
    BY <1>6, <2>1 DEF LogTypes, JobTypes
<1>7. CASE current = NoFile
  <2> DEFINE j == [NoJob EXCEPT !.op = op]
  <2>1. j \in Jobs /\ j.todo = <<>> /\ j.done = {}
    BY NoJobType DEF Jobs, NoJob
  <2>2. job' = [job EXCEPT ![p] = j] /\ Goto(p, "maintain")
    BY <1>7 DEF Open
  <2> HIDE DEF j
  <2>3. "maintain" \in LockSteps
    BY DEF LockSteps
  <2>4. /\ LockTypes' /\ lock' # NoProc /\ job'[lock'] = j
        /\ \A s : At(s)' <=> s = "maintain"
        /\ Todo' = ToSet(j.todo) /\ Done' = j.done
    BY <1>1, <1>4, <2>1, <2>2, <2>3, TakesHold
  <2>5. /\ ~ At("record")' /\ ~ At("create")' /\ ~ At("pack")' /\ ~ At("unlink")' /\ ~ At("reopen")'
        /\ Todo' = {} /\ Done' = {}
    BY <2>1, <2>4, NoJobType
  <2>6. Coming' = {} /\ Ahead' = {} /\ Again' = {}
    BY <1>2, <1>7, <2>5 DEF Coming, Ahead, NotRead, Again
  <2>7. LogTypes'
    BY <1>6, <2>4
  <2>8. Calm
    BY <1>2, <1>3, <2>5, <2>6 DEF Calm
  <2>9. JobOK'
    BY <2>5 DEF JobOK
  <2>10. CountsOK' /\ WindowsOK' /\ RowsOK' /\ IdsOK' /\ SumsOK'
    BY <1>1, <1>2, <2>6, <2>7, <2>8, RecordsQuiet
  <2>11. ReadingOK'
    <3>1. ~ behind => saved.ino \in {NoFile} \union rotated
      BY <1>7 DEF LogInv, ReadingOK
    <3> QED
      BY <1>2, <1>7, <2>5, <3>1 DEF ReadingOK
  <2>12. KeepingOK'
    BY <1>2, <1>3, <1>5, <2>5 DEF LogInv, KeepingOK
  <2> QED
    BY <2>7, <2>9, <2>10, <2>11, <2>12 DEF LogInv
<1>8. CASE current # NoFile
  <2> DEFINE j == [NoJob EXCEPT !.op = op, !.todo = Unread, !.win = windows, !.capture = capture,
                                !.saved = [ino |-> current, off |-> Len(text[current])]]
  <2>1. Unread \in Seq(Lines) /\ Rising(Unread) /\ ToSet(Unread) = NotRead
    BY <1>4, <1>8, UnreadIs
  <2>2. /\ current \in Inodes /\ Len(text[current]) \in 0 .. MaxLines
        /\ ReadTo \in 0 .. Len(text[current]) /\ Len(text[current]) \in Nat
    BY <1>4, <1>8, ReadToRange
  <2>3. /\ j.todo = Unread /\ j.done = {} /\ j.win = windows
        /\ j.saved.ino = current /\ j.saved.off = Len(text[current])
    BY DEF NoJob
  <2>4. j \in Jobs
    <3>1. [ino |-> current, off |-> Len(text[current])] \in Saved
      BY <2>2 DEF Saved
    <3>2. windows \in [Lines -> Nat] /\ capture \in SUBSET Clients
      BY <1>4 DEF RecordTypes
    <3> QED
      BY <2>1, <3>1, <3>2, NoJobType DEF Jobs, NoJob
  <2>5. job' = [job EXCEPT ![p] = j] /\ Goto(p, "record")
    BY <1>8 DEF Open
  <2> HIDE DEF j
  <2>6. "record" \in LockSteps
    BY DEF LockSteps
  <2>7. /\ LockTypes' /\ lock' # NoProc /\ job'[lock'] = j
        /\ \A s : At(s)' <=> s = "record"
        /\ Todo' = ToSet(j.todo) /\ Done' = j.done
    BY <1>1, <1>4, <2>4, <2>5, <2>6, TakesHold
  <2>8. /\ At("record")' /\ ~ At("maintain")' /\ ~ At("rename")' /\ ~ At("create")'
        /\ ~ At("pack")' /\ ~ At("unlink")' /\ ~ At("reopen")'
        /\ Todo' = NotRead /\ Done' = {}
    BY <2>1, <2>3, <2>7
  <2>9. Coming' = {}
    <3>1. \A n \in Len(text[current]) + 1 .. Len(text[current]) : FALSE
      BY <2>2
    <3>2. Beyond(j.saved.off) = {}
      BY <2>3, <3>1 DEF Beyond
    <3>3. Beyond(job[lock].saved.off)' = Beyond(j.saved.off)
      BY <1>2, <2>7 DEF Beyond
    <3> QED
      BY <3>2, <3>3 DEF Coming
  <2>10. Ahead' = NotRead
    BY <1>5, <2>8, <2>9 DEF Ahead
  <2>11. LogTypes'
    BY <1>6, <2>7
  <2>12. Calm
    BY <1>2, <1>3, <2>8, <2>10 DEF Calm
  <2>13. NotRead \subseteq UpTo(Len(text[current]))
    <3>1. \A n \in ReadTo + 1 .. Len(text[current]) : n \in 1 .. Len(text[current])
      BY <2>2
    <3> QED
      BY <1>8, <3>1 DEF NotRead, Beyond, UpTo
  <2>14. JobOK'
    <3>1. Recording'
      <4>1. \A l \in Lines : job'[lock'].win[l] = windows'[l] + IF l \in Done' THEN 1 ELSE 0
        <5>1. \A l \in Lines : windows[l] + 0 = windows[l]
          BY <1>4, Numbers
        <5> QED
          BY <1>2, <2>3, <2>7, <2>8, <5>1
      <4>2. Todo' \intersect Done' = {} /\ Todo' \union Done' \subseteq UpTo(Len(text[current]))
        BY <2>8, <2>13
      <4>3. UpTo(job[lock].saved.off)' = UpTo(Len(text[current]))
        BY <1>2, <2>3, <2>7 DEF UpTo
      <4> QED
        BY <1>2, <1>8, <2>1, <2>2, <2>3, <2>7, <4>1, <4>2, <4>3 DEF Recording
    <3> QED
      BY <2>8, <3>1 DEF JobOK
  <2>15. CountsOK' /\ WindowsOK' /\ RowsOK' /\ IdsOK' /\ SumsOK'
    BY <1>1, <1>2, <2>8, <2>9, <2>11, <2>12, RecordsQuiet
  <2>16. ReadingOK'
    <3> SUFFICES ASSUME ~ behind PROVE ReadingOK'
      BY <1>2 DEF ReadingOK
    <3>1. /\ \/ saved.ino \in {NoFile, current} \union rotated
             \/ current # NoFile
          /\ saved.ino = current /\ saved.ino # NoFile =>
               saved.off <= Len(text[current]) /\ \A l \in UpTo(saved.off) : Seen(l)
      BY DEF LogInv, ReadingOK
    <3>2. \A l : Seen(l)' <=> Seen(l)
      BY <1>2 DEF Seen
    <3>3. ASSUME NEW n \in 1 .. Len(text[current])
          PROVE  Seen(text[current][n]) \/ text[current][n] \in NotRead
      <4>1. CASE n \in ReadTo + 1 .. Len(text[current])
        BY <1>8, <4>1 DEF NotRead, Beyond
      <4>2. CASE n \notin ReadTo + 1 .. Len(text[current])
        <5>1. n \in 1 .. ReadTo /\ ReadTo # 0
          BY <2>2, <4>2
        <5>2. saved.ino = current /\ ReadTo = saved.off /\ saved.ino # NoFile
          BY <1>8, <5>1 DEF ReadTo
        <5> QED
          BY <3>1, <5>1, <5>2 DEF UpTo
      <4> QED
        BY <4>1, <4>2
    <3>4. \A l \in UpTo(Len(text[current])) : Seen(l)' \/ l \in Todo' \union Done'
      BY <2>8, <3>2, <3>3 DEF UpTo
    <3>5. UpTo(job[lock].saved.off)' = UpTo(Len(text[current])) /\ UpTo(saved.off)' = UpTo(saved.off)
      BY <1>2, <2>3, <2>7 DEF UpTo
    <3> QED
      BY <1>2, <1>8, <2>8, <3>1, <3>2, <3>4, <3>5 DEF ReadingOK
  <2>17. KeepingOK'
    BY <1>2, <1>3, <1>5, <2>8 DEF LogInv, KeepingOK
  <2> QED
    BY <2>11, <2>14, <2>15, <2>16, <2>17 DEF LogInv
<1> QED
  BY <1>7, <1>8

LEMMA MaxPair == ASSUME NEW a \in Int, NEW b \in Int
                 PROVE  Max({a, b}) \in {a, b} /\ Max({a, b}) >= a /\ Max({a, b}) >= b
<1>1. \E x \in {a, b} : \A y \in {a, b} : x >= y
  <2>1. CASE a >= b
    BY <2>1
  <2>2. CASE b >= a
    BY <2>2
  <2> QED
    BY <2>1, <2>2
<1> QED
  BY <1>1 DEF Max

\* The holder goes on at the same step.
LEMMA SameStep == ASSUME LockTypes, NEW p \in Procs, UNCHANGED pc PROVE Goto(p, pc[p])
  BY DEF LockTypes, Goto

\* What a sync at its next line can rely on.
LEMMA NextLine ==
  ASSUME LogInv, NEW p \in Procs, pc[p] = "record", job[p].todo # <<>>,
         NEW l, l = Head(job[p].todo)
  PROVE  /\ lock = p /\ lock # NoProc /\ At("record") /\ Recording /\ job[p] \in Jobs
         /\ Done = job[p].done /\ Todo = ToSet(job[p].todo)
         /\ l \in Lines /\ l \in Known /\ l \in Todo /\ l \notin Done /\ written[l] \in Clients
         /\ Tail(job[p].todo) \in Seq(Lines) /\ Rising(Tail(job[p].todo))
         /\ ToSet(Tail(job[p].todo)) = Todo \ {l}
<1>1. LogTypes /\ JobOK /\ LockTypes /\ pc[p] \in LockSteps
  BY DEF LogInv, LogTypes, JobTypes, LockSteps
<1>2. /\ lock = p /\ lock # NoProc /\ At("record") /\ job[p] \in Jobs
      /\ Done = job[p].done /\ Todo = ToSet(job[p].todo)
  BY <1>1, Holder
<1>3. Recording /\ job[p].todo \in Seq(Lines) /\ Rising(job[p].todo)
  BY <1>1, <1>2 DEF JobOK, Recording, Jobs
<1>4. /\ l \in Lines /\ l \in Todo
      /\ Tail(job[p].todo) \in Seq(Lines) /\ Rising(Tail(job[p].todo))
      /\ ToSet(Tail(job[p].todo)) = Todo \ {l}
  BY <1>2, <1>3, TailRising
<1>5. l \in Known
  BY <1>1, <1>4, AheadKnown DEF Ahead
<1>6. l \notin Done
  BY <1>3, <1>4 DEF Recording
<1>7. written[l] \in Clients
  BY <1>1, <1>5 DEF LogTypes, FileTypes, Known
<1> QED
  BY <1>2, <1>3, <1>4, <1>5, <1>6, <1>7

\* The line of a client that is gone is passed by.
LEMMA SkipInv ==
  ASSUME LogInv, NEW p \in Procs, pc[p] = "record", job[p].todo # <<>>,
         written[Head(job[p].todo)] \notin registered,
         job' = [job EXCEPT ![p] = [job[p] EXCEPT !.todo = Tail(@)]],
         UNCHANGED <<records, written, files, saved, setup, lock, pc, history>>
  PROVE  LogInv'
<1> DEFINE l == Head(job[p].todo)
           j == [job[p] EXCEPT !.todo = Tail(@)]
<1>1. /\ lock = p /\ lock # NoProc /\ At("record") /\ Recording /\ job[p] \in Jobs
      /\ Done = job[p].done /\ Todo = ToSet(job[p].todo)
      /\ l \in Lines /\ l \in Known /\ l \in Todo /\ l \notin Done
      /\ Tail(job[p].todo) \in Seq(Lines) /\ Rising(Tail(job[p].todo))
      /\ ToSet(Tail(job[p].todo)) = Todo \ {l}
  BY NextLine
<1>2. /\ j \in Jobs /\ j.todo = Tail(job[p].todo) /\ j.done = job[p].done /\ j.win = job[p].win
      /\ j.saved = job[p].saved
  BY <1>1 DEF Jobs
<1>3. job' = [job EXCEPT ![p] = j] /\ written[l] \notin registered
  OBVIOUS
<1> HIDE DEF l, j
<1>4. UNCHANGED <<written, text, current, open, rotated, archive, saved, windows, counted, detail,
                  alerts, nextId, capture, registered, old, reread, early, passed, late, behind, cut,
                  did, lock>>
  BY DEF files, records, setup, history
<1>5. LogTypes /\ LockTypes /\ Goto(p, "record") /\ "record" \in LockSteps /\ DidTypes
  BY SameStep DEF LogInv, LogTypes, JobTypes, LockSteps
<1>6. /\ LockTypes' /\ lock' # NoProc /\ job'[lock'] = j
      /\ \A s : At(s)' <=> s = "record"
      /\ Todo' = ToSet(j.todo) /\ Done' = j.done
  <2>1. /\ LockTypes /\ lock = p /\ "record" \in LockSteps /\ Goto(p, "record")
        /\ j \in Jobs /\ job' = [job EXCEPT ![p] = j] /\ lock' = lock
    BY <1>1, <1>2, <1>3, <1>4, <1>5
  <2> QED
    BY <2>1, StaysHolder
<1>7. /\ At("record")' /\ ~ At("maintain")' /\ ~ At("rename")' /\ ~ At("create")'
      /\ ~ At("pack")' /\ ~ At("unlink")' /\ ~ At("reopen")'
      /\ Todo' = Todo \ {l} /\ Done' = Done
  BY <1>1, <1>2, <1>6
<1>8. /\ NotRead' = NotRead /\ Coming' = Coming /\ Known' = Known
      /\ UpTo(saved.off)' = UpTo(saved.off)
      /\ UpTo(job[lock].saved.off)' = UpTo(job[lock].saved.off)
  BY <1>1, <1>2, <1>4, <1>6, <1>7 DEF NotRead, Beyond, ReadTo, Coming, Known, UpTo
<1>9. LogTypes'
  <2>1. FileTypes' /\ RecordTypes' /\ HistoryTypes' /\ DidTypes'
    BY <1>4, <1>5, <1>8 DEF LogTypes, FileTypes, RecordTypes, HistoryTypes, DidTypes
  <2> QED
    BY <1>6, <2>1 DEF LogTypes, JobTypes
<1>10. Calm
  <2>1. did.mishap \in Nat /\ did.hand \in Nat
    BY <1>5, Numbers
  <2>2. Ahead' \subseteq Ahead
    BY <1>7, <1>8 DEF Ahead
  <2> QED
    BY <1>4, <1>7, <2>1, <2>2 DEF Calm
<1>11. JobOK'
  <2>1. Recording'
    <3>1. \A m \in Lines : job'[lock'].win[m] = windows'[m] + IF m \in Done' THEN 1 ELSE 0
      BY <1>1, <1>2, <1>4, <1>6, <1>7 DEF Recording
    <3>2. /\ Todo' \intersect Done' = {} /\ Todo' \union Done' \subseteq UpTo(job[lock].saved.off)'
      BY <1>1, <1>7, <1>8 DEF Recording
    <3> QED
      BY <1>1, <1>2, <1>4, <1>6, <3>1, <3>2 DEF Recording
  <2> QED
    BY <1>7, <2>1 DEF JobOK
<1>12. CountsOK' /\ WindowsOK' /\ RowsOK' /\ IdsOK' /\ SumsOK'
  <2>1. Coming' \intersect reread' = {}
    BY <1>4, <1>8 DEF LogInv, IdsOK
  <2> QED
    BY <1>4, <1>7, <1>9, <1>10, <2>1, RecordsQuiet
<1>13. ReadingOK'
  <2> SUFFICES ASSUME ~ behind PROVE ReadingOK'
    BY <1>4 DEF ReadingOK
  <2>1. ReadingOK /\ \A m : Seen(m)' <=> Seen(m)
    BY <1>4 DEF Seen, LogInv
  <2>2. \A m \in UpTo(job[lock].saved.off) : Seen(m)' \/ m \in Todo' \union Done'
    <3>1. \A m \in UpTo(job[lock].saved.off) : Seen(m) \/ m \in Todo \union Done
      BY <1>1, <2>1 DEF ReadingOK
    <3>2. Seen(l)
      BY <1>3 DEF Seen
    <3> QED
      BY <1>7, <2>1, <3>1, <3>2
  <2>3. /\ \/ saved.ino \in {NoFile, current} \union rotated
           \/ current # NoFile /\ ~ At("maintain") /\ ~ At("rename") /\ ~ At("create")
        /\ saved.ino = current /\ saved.ino # NoFile =>
             saved.off <= Len(text[current]) /\ \A m \in UpTo(saved.off) : Seen(m)
    BY <2>1 DEF ReadingOK
  <2> QED
    BY <1>4, <1>7, <1>8, <2>1, <2>2, <2>3 DEF ReadingOK
<1>14. KeepingOK'
  <2>1. /\ open = current \/ cut
        /\ \A m \in Known :
             m > old => \/ m \in late
                        \/ current # NoFile /\ m \in ToSet(text[current])
                        \/ \E i \in rotated : m \in ToSet(text[i])
                        \/ m \in UNION archive
    BY <1>1 DEF LogInv, KeepingOK, At
  <2> QED
    BY <1>4, <1>7, <1>8, <2>1 DEF KeepingOK
<1> QED
  BY <1>9, <1>11, <1>12, <1>13, <1>14 DEF LogInv

\* What recording a line does to the alert row of its client.
LEMMA AlertedRow ==
  ASSUME LogTypes, RowsOK, NEW l \in Known, l \in Lines, written[l] \in Clients,
         NEW c \in Clients, c = written[l], c \in registered, alerts' = Alerted(l),
         nextId' = IF alerts[c].id = 0 THEN nextId + 1 ELSE nextId
  PROVE  /\ alerts' \in [Clients -> AlertRow] /\ nextId' \in Nat \ {0} /\ nextId \in Nat
         /\ \A d \in Clients \ {c} : alerts'[d] = alerts[d]
         /\ alerts'[c].id = (IF alerts[c].id = 0 THEN nextId ELSE alerts[c].id)
         /\ alerts'[c].count = alerts[c].count + 1
         /\ alerts[c].id # 0 => /\ alerts'[c].first = alerts[c].first
                                /\ alerts'[c].notified = alerts[c].notified
         /\ alerts[c].id = 0 => alerts'[c].first = l /\ alerts'[c].notified = 0
         /\ alerts'[c].last \in Known
<1> DEFINE row == alerts[c]
           opened == [id |-> FreshId, count |-> 1, first |-> l, last |-> l, notified |-> 0]
           m == Max({row.last, l})
           on == [row EXCEPT !.count = @ + 1, !.last = m]
<1>0. row \in AlertRow
  BY DEF LogTypes, RecordTypes
<1>1. alerts' = [alerts EXCEPT ![c] = IF row.id = 0 THEN opened ELSE on]
  BY DEF Alerted
<1>2. row \in AlertRow /\ alerts \in [Clients -> AlertRow] /\ nextId \in Nat \ {0} /\ l \in Nat
  BY DEF LogTypes, RecordTypes, Lines
<1>3. opened \in AlertRow /\ opened.id = nextId /\ opened.count = 1 /\ opened.first = l
      /\ opened.last = l /\ opened.notified = 0
  BY <1>2 DEF AlertRow, FreshId
<1>4. row.id = 0 => row.count = 0
  BY DEF RowsOK, NoAlert
<1>5. row.id # 0 => row.last \in Known
  BY DEF RowsOK
<1>6. /\ on.id = row.id /\ on.count = row.count + 1 /\ on.first = row.first
      /\ on.notified = row.notified /\ on.last = m
  BY <1>0 DEF AlertRow
<1>7. row.id # 0 => on.last \in Known /\ on \in AlertRow
  <2> SUFFICES ASSUME row.id # 0 PROVE on.last \in Known /\ on \in AlertRow
    OBVIOUS
  <2>1. row.last \in Int /\ l \in Int
    BY <1>2 DEF AlertRow
  <2>2. Max({row.last, l}) \in {row.last, l}
    BY <2>1, MaxPair
  <2>3. on.last \in Known
    BY <1>5, <1>6, <2>2
  <2>4. m \in Nat
    BY <1>2, <2>2 DEF AlertRow
  <2>5. row.count + 1 \in Nat
    BY <1>0 DEF AlertRow
  <2> HIDE DEF m, row
  <2>6. on \in AlertRow
    BY <1>0, <2>4, <2>5 DEF AlertRow
  <2> QED
    BY <2>3, <2>6
<1> HIDE DEF opened, on
<1>8. alerts'[c] = IF row.id = 0 THEN opened ELSE on
  BY <1>1, <1>2
<1>9. alerts' \in [Clients -> AlertRow]
  BY <1>1, <1>2, <1>3, <1>7
<1>10. \A d \in Clients \ {c} : alerts'[d] = alerts[d]
  BY <1>1, <1>2
<1>11. alerts'[c].count = alerts[c].count + 1
  <2>1. row.id = 0 => 1 = row.count + 1
    BY <1>4
  <2> QED
    BY <1>3, <1>6, <1>8, <2>1
<1>12. nextId' \in Nat \ {0} /\ nextId \in Nat
  BY <1>2
<1> QED
  BY <1>3, <1>6, <1>7, <1>8, <1>9, <1>10, <1>11, <1>12

LEMMA CountsOfType ==
  ASSUME LogTypes, NEW c
  PROVE  /\ IsFiniteSet(Lines) /\ \A l \in Lines : CountsOf(c)[l] \in Int /\ CountsOf(c)[l] \in Nat
         /\ SumFunctionOnSet(CountsOf(c), Lines) \in Nat
<1>1. IsFiniteSet(Lines) /\ \A l \in Lines : CountsOf(c)[l] \in Nat
  BY Bounds, FS_Interval DEF Lines, CountsOf, LogTypes, RecordTypes
<1> QED
  BY <1>1, SumNat

\* One more record of a line is one more in the sum of its client, and of no other.
LEMMA RecordSums ==
  ASSUME LogTypes, LogTypes', SumsOK, written' = written, NEW l \in Lines, l \in Known,
         counted' = Once(counted, l), written[l] \in Clients,
         NEW c \in Clients, c = written[l], \A d \in Clients \ {c} : alerts'[d] = alerts[d],
         alerts'[c].count = alerts[c].count + 1
  PROVE  SumsOK'
<1> SUFFICES ASSUME NEW d \in Clients
             PROVE  alerts'[d].count <= SumFunctionOnSet(CountsOf(d), Lines)'
  BY DEF SumsOK
<1> DEFINE f == CountsOf(d)
           g == CountsOf(d)'
           a == SumFunctionOnSet(f, Lines)
           b == SumFunctionOnSet(g, Lines)
<1>1. SumFunctionOnSet(CountsOf(d), Lines)' = b
  BY DEF Lines
<1>2. IsFiniteSet(Lines) /\ \A m \in Lines : f[m] \in Int /\ g[m] \in Int
  <2>1. \A m \in Lines : counted'[m] \in Nat
    BY DEF LogTypes, RecordTypes, Lines
  <2>2. \A m \in Lines : g[m] \in Int
    BY <2>1 DEF CountsOf, Lines
  <2> QED
    BY <2>2, CountsOfType
<1>3. Known' = Known /\ counted'[l] = counted[l] + 1 /\ counted[l] \in Nat
      /\ \A m \in Lines \ {l} : counted'[m] = counted[m]
  BY DEF Known, Once, LogTypes, RecordTypes
<1>4. \A m \in Lines \ {l} : f[m] = g[m]
  BY <1>3 DEF CountsOf, Lines
<1>5. g[l] = IF d = c THEN f[l] + 1 ELSE f[l]
  BY <1>3 DEF CountsOf, Lines
<1>6. b = a + g[l] - f[l] /\ a \in Int
  <2> HIDE DEF f, g
  <2> QED
    BY <1>2, <1>4, SumChange, SumInt
<1>7. f[l] \in Int /\ g[l] \in Int
  BY <1>2
<1>8. alerts[d].count <= a /\ alerts[d].count \in Nat /\ alerts'[d].count \in Nat
  BY DEF SumsOK, LogTypes, RecordTypes, AlertRow
<1> HIDE DEF f, g, a, b
<1>9. CASE d = c
  <2>1. b = a + 1
    BY <1>5, <1>6, <1>7, <1>9
  <2> QED
    BY <1>1, <1>6, <1>8, <1>9, <2>1
<1>10. CASE d # c
  <2>1. b = a /\ alerts'[d].count = alerts[d].count
    BY <1>5, <1>6, <1>7, <1>10
  <2> QED
    BY <1>1, <1>8, <2>1
<1> QED
  BY <1>9, <1>10

\* What record_pipeline_event does for a client that is there: the line that is read, ...
LineRead(l, c) ==
  /\ At("record") /\ Recording
  /\ l \in Lines /\ l \in Known /\ l \in Todo /\ l \notin Done /\ l \in Ahead
  /\ c \in Clients /\ c = written[l] /\ c \in registered

\* ... what of the lines and the files stays, and what is ahead no more, ...
LineDone(l) ==
  /\ UNCHANGED <<written, text, current, open, rotated, archive, saved, windows,
                 capture, registered, old, reread, early, passed, late, behind, cut, did, lock>>
  /\ At("record")' /\ ~ At("maintain")' /\ ~ At("rename")' /\ ~ At("create")'
  /\ ~ At("pack")' /\ ~ At("unlink")' /\ ~ At("reopen")'
  /\ Todo' = Todo \ {l} /\ Done' = Done \union {l}
  /\ NotRead' = NotRead /\ Coming' = Coming /\ Known' = Known
  /\ UpTo(saved.off)' = UpTo(saved.off)
  /\ UpTo(job[lock].saved.off)' = UpTo(job[lock].saved.off)
  /\ Ahead' \subseteq Ahead /\ Ahead' \union Done' \subseteq Ahead \union Done

\* ... the alert row of the client, ...
RowCounted(l, c) ==
  /\ alerts' \in [Clients -> AlertRow] /\ nextId' \in Nat \ {0} /\ nextId \in Nat
  /\ \A d \in Clients \ {c} : alerts'[d] = alerts[d]
  /\ nextId' = IF alerts[c].id = 0 THEN nextId + 1 ELSE nextId
  /\ alerts'[c].id = (IF alerts[c].id = 0 THEN nextId ELSE alerts[c].id)
  /\ alerts'[c].count = alerts[c].count + 1
  /\ alerts[c].id # 0 => /\ alerts'[c].first = alerts[c].first
                         /\ alerts'[c].notified = alerts[c].notified
  /\ alerts[c].id = 0 => alerts'[c].first = l /\ alerts'[c].notified = 0
  /\ alerts'[c].last \in Known

\* ... and the counters.
LineCounted(l) ==
  /\ \A m \in Lines : counted[m] \in Nat /\ detail[m] \in Nat
  /\ did.mishap \in Nat /\ did.hand \in Nat
  /\ counted' \in [Lines -> Nat] /\ counted'[l] = counted[l] + 1
  /\ detail' \in [Lines -> Nat] /\ detail'[l] \in {detail[l], detail[l] + 1}
  /\ \A m \in Lines \ {l} : counted'[m] = counted[m] /\ detail'[m] = detail[m]

LEMMA LineCounts ==
  ASSUME LogTypes, NEW l \in Lines, NEW f \in [Lines -> Nat]
  PROVE  /\ Once(f, l) \in [Lines -> Nat] /\ Once(f, l)[l] = f[l] + 1
         /\ \A m \in Lines \ {l} : Once(f, l)[m] = f[m]
  BY DEF Once

LEMMA StoreCounts ==
  ASSUME LogInv, NEW l, NEW c, LineRead(l, c), LineDone(l), LineCounted(l) PROVE CountsOK'
<1>1. /\ l \in Lines /\ l \in Known /\ l \in Ahead /\ l \notin Done
      /\ Done' = Done \union {l} /\ Ahead' \subseteq Ahead /\ Known' = Known
      /\ UNCHANGED <<did, reread, early>>
  BY DEF LineRead, LineDone
<1>2. /\ \A m \in Lines : counted[m] \in Nat /\ detail[m] \in Nat
      /\ did.mishap \in Nat /\ did.hand \in Nat
      /\ counted'[l] = counted[l] + 1
      /\ detail'[l] = detail[l] \/ detail'[l] = detail[l] + 1
      /\ \A m \in Lines \ {l} : counted'[m] = counted[m] /\ detail'[m] = detail[m]
  BY DEF LineCounted
<1>3. CountsOK'
  <2> SUFFICES ASSUME NEW m \in Lines
               PROVE  /\ counted'[m] <= did.mishap + 1 /\ detail'[m] <= did.mishap + did.hand + 1
                      /\ counted'[m] > 1 => m \in reread
                      /\ detail'[m] > 1 => m \in reread \union early
                      /\ m \in Ahead' \ Done' =>
                           /\ counted'[m] <= did.mishap /\ detail'[m] <= did.mishap + did.hand
                           /\ counted'[m] > 0 => m \in reread
                           /\ detail'[m] > 0 => m \in reread \union early
                      /\ m \notin Known => counted'[m] = 0 /\ detail'[m] = 0
    BY <1>1 DEF CountsOK
  <2>1. CASE m = l
    <3>1. /\ counted[l] <= did.mishap /\ detail[l] <= did.mishap + did.hand
          /\ counted[l] > 0 => l \in reread
          /\ detail[l] > 0 => l \in reread \union early
      BY <1>1 DEF CountsOK, LogInv
    <3>5. counted[l] \in Nat /\ detail[l] \in Nat /\ did.mishap \in Nat /\ did.hand \in Nat
      BY <1>1, <1>2
    <3>6. detail'[l] = detail[l] \/ detail'[l] = detail[l] + 1
      BY <1>2
    <3>2. counted'[l] <= did.mishap + 1 /\ detail'[l] <= did.mishap + did.hand + 1
      BY <1>2, <3>1, <3>5, <3>6
    <3>3. counted'[l] > 1 => l \in reread
      BY <1>2, <3>1, <3>5
    <3>4. detail'[l] > 1 => l \in reread \union early
      BY <3>1, <3>5, <3>6
    <3> QED
      BY <1>1, <2>1, <3>2, <3>3, <3>4
  <2>2. CASE m # l
    <3>1. counted'[m] = counted[m] /\ detail'[m] = detail[m]
      BY <1>2, <2>2
    <3>2. m \in Ahead' \ Done' => m \in Ahead \ Done
      BY <1>1
    <3> QED
      BY <3>1, <3>2 DEF CountsOK, LogInv
  <2> QED
    BY <2>1, <2>2
<1> QED
  BY <1>3

LEMMA StoreRows ==
  ASSUME LogInv, NEW l, NEW c, LineRead(l, c), LineDone(l), RowCounted(l, c) PROVE RowsOK'
<1>1. /\ l \in Known /\ c \in Clients /\ c \in registered
      /\ Known' = Known /\ UNCHANGED <<written, registered>>
  BY DEF LineRead, LineDone
<1>2. /\ \A e \in Clients : alerts[e].id \in Nat /\ alerts[e].id < nextId /\ alerts[e] \in AlertRow
      /\ nextId \in Nat \ {0} /\ Len(written) \in Nat /\ RowsOK
  BY Bounds DEF LogInv, RowsOK, LogTypes, RecordTypes, FileTypes, AlertRow
<1>3. /\ alerts[c].id = 0 =>
           /\ nextId' = nextId + 1 /\ alerts'[c].id = nextId
           /\ alerts'[c].first = l /\ alerts'[c].notified = 0
      /\ alerts[c].id # 0 =>
           /\ nextId' = nextId /\ alerts'[c].id = alerts[c].id
           /\ alerts'[c].first = alerts[c].first /\ alerts'[c].notified = alerts[c].notified
      /\ alerts'[c].last \in Known
      /\ \A e \in Clients : e = c \/ alerts'[e] = alerts[e]
  BY <1>1 DEF RowCounted
<1>4. alerts'[c].id < nextId' /\ alerts'[c].id # 0 /\ nextId <= nextId'
  BY <1>1, <1>2, <1>3
<1>5. \A e \in Clients : alerts'[e].id < nextId'
  <2>1. \A e \in Clients : alerts[e].id < nextId'
    <3>1. nextId' \in Nat
      BY <1>2, <1>3
    <3> QED
      BY <1>2, <1>4, <3>1
  <2> QED
    BY <1>3, <1>4, <2>1
<1>6. \A e \in Clients : e # c => alerts'[e].id # alerts'[c].id
  <2> SUFFICES ASSUME NEW e \in Clients, e # c PROVE alerts[e].id # alerts'[c].id
    BY <1>3
  <2>1. CASE alerts[c].id = 0
    BY <1>2, <1>3, <2>1
  <2>2. CASE alerts[c].id # 0
    BY <1>1, <1>2, <1>3, <2>2 DEF RowsOK
  <2> QED
    BY <2>1, <2>2
<1>7. alerts'[c].first \in Known
  <2>1. CASE alerts[c].id = 0
    BY <1>1, <1>3, <2>1
  <2>2. CASE alerts[c].id # 0
    BY <1>1, <1>2, <1>3, <2>2 DEF RowsOK
  <2> QED
    BY <2>1, <2>2
<1>8. alerts'[c].notified <= Len(written)
  <2>1. CASE alerts[c].id = 0
    BY <1>2, <1>3, <2>1
  <2>2. CASE alerts[c].id # 0
    BY <1>1, <1>2, <1>3, <2>2 DEF RowsOK
  <2> QED
    BY <2>1, <2>2
<1>9. ASSUME NEW d \in Clients
      PROVE  /\ alerts'[d].id = 0 => alerts'[d] = NoAlert
             /\ alerts'[d].id # 0 => alerts'[d].first \in Known /\ alerts'[d].last \in Known
             /\ alerts'[d].notified <= Len(written)
             /\ d \notin registered => alerts'[d].id = 0
  <2>1. CASE d = c
    BY <1>1, <1>3, <1>4, <1>7, <1>8, <2>1
  <2>2. CASE d # c
    <3>1. alerts'[d] = alerts[d]
      BY <1>3, <2>2
    <3> QED
      BY <1>2, <3>1 DEF RowsOK
  <2> QED
    BY <2>1, <2>2
<1>10. ASSUME NEW d \in Clients, NEW e \in Clients, alerts'[d].id = alerts'[e].id, alerts'[d].id # 0
       PROVE  d = e
  <2>1. CASE d = c \/ e = c
    BY <1>6, <1>10, <2>1
  <2>2. CASE d # c /\ e # c
    <3>1. alerts'[d] = alerts[d] /\ alerts'[e] = alerts[e]
      BY <1>3, <2>2
    <3> QED
      BY <1>2, <1>10, <3>1 DEF RowsOK
  <2> QED
    BY <2>1, <2>2
<1> QED
  BY <1>1, <1>5, <1>9, <1>10 DEF RowsOK

LEMMA StoreIds ==
  ASSUME LogInv, NEW l, NEW c, LineRead(l, c), LineDone(l), RowCounted(l, c) PROVE IdsOK'
<1>1. /\ l \in Known /\ l \in Ahead /\ l \notin Done /\ c \in Clients /\ c = written[l] /\ c \in registered
      /\ Done' = Done \union {l} /\ Ahead' \subseteq Ahead /\ Coming' = Coming /\ Known' = Known
      /\ ~ At("maintain")' /\ UNCHANGED <<written, registered, reread>>
  BY DEF LineRead, LineDone
<1>2. LogTypes /\ IdsOK /\ nextId \in Nat \ {0}
  BY DEF LogInv, LogTypes, RecordTypes
<1>3. /\ nextId' = IF alerts[c].id = 0 THEN nextId + 1 ELSE nextId
      /\ alerts'[c].id = (IF alerts[c].id = 0 THEN nextId ELSE alerts[c].id)
      /\ \A d \in Clients : d = c \/ alerts'[d] = alerts[d]
  BY DEF RowCounted
<1>4. IdsOK'
  <2>1. Used \subseteq Used' /\ l \in Used'
    BY <1>1 DEF Used
  <2>2. IsFiniteSet(Used') /\ IsFiniteSet(Used)
    <3>1. Used' \subseteq Known /\ Used \subseteq Known
      BY <1>1 DEF Used
    <3>2. IsFiniteSet(Known)
      BY <1>2, Bounds, FS_Interval DEF LogTypes, FileTypes, Known
    <3> QED
      BY <3>1, <3>2, FS_Subset
  <2> DEFINE a == Cardinality(Used)
             b == Cardinality(Used')
  <2>3. a \in Nat /\ b \in Nat /\ a <= b
    BY <2>1, <2>2, FS_Subset, FS_CardinalityType
  <2>4. nextId - 1 <= a
    BY <1>2 DEF IdsOK
  <2>5. alerts[c].id = 0 => b >= a + 1
    <3> SUFFICES ASSUME alerts[c].id = 0 PROVE b >= a + 1
      OBVIOUS
    <3>1. l \notin reread
      BY <1>1, <1>2 DEF IdsOK, Again
    <3>2. l \notin Used
      BY <1>1, <3>1 DEF Used
    <3>3. /\ IsFiniteSet(Used \union {l}) /\ Cardinality(Used \union {l}) = a + 1
      BY <2>2, <3>2, FS_AddElement
    <3>4. Used \union {l} \subseteq Used'
      BY <2>1
    <3>5. Cardinality(Used \union {l}) <= b
      BY <2>2, <3>4, FS_Subset
    <3> QED
      BY <3>3, <3>5
  <2> HIDE DEF a, b
  <2>6. nextId' - 1 <= b
    BY <1>2, <1>3, <2>3, <2>4, <2>5
  <2>7. \A m \in Again' : written'[m] \in registered' => alerts'[written'[m]].id # 0
    <3> SUFFICES ASSUME NEW m \in Again', written[m] \in registered
                 PROVE  alerts'[written[m]].id # 0
      BY <1>1
    <3>1. m = l \/ m \in Again
      BY <1>1 DEF Again
    <3>2. written[m] \in Clients
      BY <1>2 DEF LogTypes, RecordTypes
    <3>3. \A d \in Clients : alerts[d].id # 0 => alerts'[d].id # 0
      BY <1>2, <1>3
    <3>4. alerts'[c].id # 0
      BY <1>2, <1>3
    <3>5. CASE m = l
      BY <1>1, <3>4, <3>5
    <3>6. CASE m \in Again
      BY <1>2, <3>2, <3>3, <3>6 DEF IdsOK
    <3> QED
      BY <3>1, <3>5, <3>6
  <2>8. Coming' \intersect reread' = {}
    BY <1>1, <1>2 DEF IdsOK
  <2> QED
    BY <1>1, <2>6, <2>7, <2>8 DEF IdsOK, b
<1> QED
  BY <1>4

LEMMA StoreReading ==
  ASSUME LogInv, NEW l, NEW c, LineRead(l, c), LineDone(l) PROVE ReadingOK' /\ KeepingOK'
<1>1. /\ At("record") /\ l \in Todo /\ Todo' \union Done' = Todo \union Done
      /\ At("record")' /\ ~ At("maintain")' /\ ~ At("rename")' /\ ~ At("create")'
      /\ ~ At("pack")' /\ ~ At("unlink")' /\ ~ At("reopen")'
      /\ UNCHANGED <<written, text, current, open, rotated, archive, saved, windows, registered, old,
                     passed, late, behind, cut>>
      /\ Known' = Known
      /\ UpTo(saved.off)' = UpTo(saved.off)
      /\ UpTo(job[lock].saved.off)' = UpTo(job[lock].saved.off)
  BY DEF LineRead, LineDone
<1>2. ReadingOK'
  <2> SUFFICES ASSUME ~ behind PROVE ReadingOK'
    BY <1>1 DEF ReadingOK
  <2>1. ReadingOK /\ \A m : Seen(m)' <=> Seen(m)
    BY <1>1 DEF Seen, LogInv
  <2>2. \A m \in UpTo(job[lock].saved.off) : Seen(m)' \/ m \in Todo' \union Done'
    BY <1>1, <2>1 DEF ReadingOK
  <2>3. /\ \/ saved.ino \in {NoFile, current} \union rotated
           \/ current # NoFile
        /\ saved.ino = current /\ saved.ino # NoFile =>
             saved.off <= Len(text[current]) /\ \A m \in UpTo(saved.off) : Seen(m)
    BY <2>1 DEF ReadingOK
  <2> QED
    BY <1>1, <2>1, <2>2, <2>3 DEF ReadingOK
<1>3. KeepingOK'
  <2>1. /\ open = current \/ cut
        /\ \A m \in Known :
             m > old => \/ m \in late
                        \/ current # NoFile /\ m \in ToSet(text[current])
                        \/ \E i \in rotated : m \in ToSet(text[i])
                        \/ m \in UNION archive
    BY <1>1 DEF LogInv, KeepingOK, At
  <2> QED
    BY <1>1, <2>1 DEF KeepingOK
<1> QED
  BY <1>2, <1>3

\* record_pipeline_event for a client that is there.
LEMMA StoreInv ==
  ASSUME LogInv, NEW p \in Procs, pc[p] = "record", job[p].todo # <<>>,
         NEW l, l = Head(job[p].todo), NEW c, c = written[l], c \in registered,
         job' = [job EXCEPT ![p] = [job[p] EXCEPT !.todo = Tail(@), !.win = Once(@, l),
                                                  !.done = @ \union {l}]],
         counted' = Once(counted, l),
         detail' = IF c \in job[p].capture THEN Once(detail, l) ELSE detail,
         alerts' = Alerted(l), nextId' = IF alerts[c].id = 0 THEN nextId + 1 ELSE nextId,
         UNCHANGED <<windows, written, files, saved, setup, lock, pc, history>>
  PROVE  LogInv'
<1> DEFINE j == [job[p] EXCEPT !.todo = Tail(@), !.win = Once(@, l), !.done = @ \union {l}]
<1>1. /\ lock = p /\ lock # NoProc /\ At("record") /\ Recording /\ job[p] \in Jobs
      /\ Done = job[p].done /\ Todo = ToSet(job[p].todo)
      /\ l \in Lines /\ l \in Known /\ l \in Todo /\ l \notin Done /\ written[l] \in Clients
      /\ Tail(job[p].todo) \in Seq(Lines) /\ Rising(Tail(job[p].todo))
      /\ ToSet(Tail(job[p].todo)) = Todo \ {l}
  BY NextLine
<1>2. /\ j.todo = Tail(job[p].todo) /\ j.done = job[p].done \union {l}
      /\ j.win = Once(job[p].win, l) /\ j.saved = job[p].saved
  BY <1>1 DEF Jobs
<1>3. j \in Jobs /\ job[p].win \in [Lines -> Nat]
  <2>1. job[p].win \in [Lines -> Nat] /\ Once(job[p].win, l) \in [Lines -> Nat]
    BY <1>1 DEF Jobs, Once
  <2> QED
    BY <1>1, <2>1 DEF Jobs
<1>4. job' = [job EXCEPT ![p] = j]
  OBVIOUS
<1> HIDE DEF j
<1>5. UNCHANGED <<written, text, current, open, rotated, archive, saved, windows,
                  capture, registered, old, reread, early, passed, late, behind, cut, did, lock>>
  BY DEF files, setup, history
<1>6. /\ LogTypes /\ LockTypes /\ Goto(p, "record") /\ "record" \in LockSteps /\ DidTypes
      /\ RowsOK /\ IdsOK /\ CountsOK /\ WindowsOK /\ SumsOK
  BY SameStep DEF LogInv, LogTypes, JobTypes, LockSteps
<1>7. /\ LockTypes' /\ lock' # NoProc /\ job'[lock'] = j
      /\ \A s : At(s)' <=> s = "record"
      /\ Todo' = ToSet(j.todo) /\ Done' = j.done
  BY <1>1, <1>3, <1>4, <1>5, <1>6, StaysHolder
<1>8. /\ At("record")' /\ ~ At("maintain")' /\ ~ At("rename")' /\ ~ At("create")'
      /\ ~ At("pack")' /\ ~ At("unlink")' /\ ~ At("reopen")'
      /\ Todo' = Todo \ {l} /\ Done' = Done \union {l}
  BY <1>1, <1>2, <1>7
<1>9. /\ NotRead' = NotRead /\ Coming' = Coming /\ Known' = Known
      /\ UpTo(saved.off)' = UpTo(saved.off)
      /\ UpTo(job[lock].saved.off)' = UpTo(job[lock].saved.off)
  BY <1>1, <1>2, <1>5, <1>7, <1>8 DEF NotRead, Beyond, ReadTo, Coming, Known, UpTo
<1>10. /\ alerts' \in [Clients -> AlertRow] /\ nextId' \in Nat \ {0} /\ nextId \in Nat
       /\ \A d \in Clients \ {c} : alerts'[d] = alerts[d]
       /\ alerts'[c].id = (IF alerts[c].id = 0 THEN nextId ELSE alerts[c].id)
       /\ alerts'[c].count = alerts[c].count + 1
       /\ alerts[c].id # 0 => /\ alerts'[c].first = alerts[c].first
                              /\ alerts'[c].notified = alerts[c].notified
       /\ alerts[c].id = 0 => alerts'[c].first = l /\ alerts'[c].notified = 0
       /\ alerts'[c].last \in Known
       /\ c \in Clients
  <2>1. l \in Known /\ l \in Lines /\ c = written[l] /\ c \in Clients /\ c \in registered
        /\ written[l] \in Clients
    BY <1>1
  <2> QED
    BY <1>6, <2>1, AlertedRow
<1>11. /\ \A m \in Lines : counted[m] \in Nat /\ detail[m] \in Nat
       /\ did.mishap \in Nat /\ did.hand \in Nat
       /\ counted' \in [Lines -> Nat] /\ counted'[l] = counted[l] + 1
       /\ detail' \in [Lines -> Nat] /\ detail'[l] \in {detail[l], detail[l] + 1}
       /\ \A m \in Lines \ {l} : counted'[m] = counted[m] /\ detail'[m] = detail[m]
  <2>1. \A m \in Lines : counted[m] \in Nat /\ detail[m] \in Nat
    BY <1>6, Numbers
  <2>2. did.mishap \in Nat /\ did.hand \in Nat
    BY <1>6, Numbers
  <2>3. counted \in [Lines -> Nat] /\ detail \in [Lines -> Nat] /\ l \in Lines
    BY <1>1, <1>6 DEF LogTypes, RecordTypes
  <2>5. /\ counted' \in [Lines -> Nat] /\ counted'[l] = counted[l] + 1
        /\ \A m \in Lines \ {l} : counted'[m] = counted[m]
    BY <1>6, <2>3, LineCounts
  <2>6. /\ detail' \in [Lines -> Nat] /\ detail'[l] \in {detail[l], detail[l] + 1}
        /\ \A m \in Lines \ {l} : detail'[m] = detail[m]
    <3>1. CASE c \in job[p].capture
      BY <1>6, <2>3, <3>1, LineCounts
    <3>2. CASE c \notin job[p].capture
      BY <2>3, <3>2
    <3> QED
      BY <3>1, <3>2
  <2> QED
    BY <2>1, <2>2, <2>5, <2>6
<1>12. LogTypes'
  <2>1. FileTypes' /\ HistoryTypes' /\ DidTypes'
    BY <1>5, <1>6, <1>9 DEF LogTypes, FileTypes, HistoryTypes, DidTypes
  <2>2. RecordTypes'
    BY <1>5, <1>6, <1>9, <1>10, <1>11 DEF LogTypes, RecordTypes, Saved
  <2> QED
    BY <1>7, <2>1, <2>2 DEF LogTypes, JobTypes
<1>13. /\ Ahead' \subseteq Ahead /\ Ahead' \union Done' \subseteq Ahead \union Done
       /\ l \in Ahead
  BY <1>1, <1>8, <1>9 DEF Ahead
<1>14. JobOK'
  <2>1. Recording'
    <3>1. \A m \in Lines : job'[lock'].win[m] = windows'[m] + IF m \in Done' THEN 1 ELSE 0
      <4> SUFFICES ASSUME NEW m \in Lines
                   PROVE  j.win[m] = windows[m] + IF m \in Done \union {l} THEN 1 ELSE 0
        BY <1>5, <1>7, <1>8
      <4>1. job[p].win[m] = windows[m] + (IF m \in Done THEN 1 ELSE 0) /\ windows[m] \in Nat
        BY <1>1, <1>6, Numbers DEF Recording
      <4>2. CASE m = l
        <5>1. j.win[m] = job[p].win[m] + 1
          BY <1>1, <1>2, <1>3, <4>2 DEF Once
        <5> QED
          BY <1>1, <4>1, <4>2, <5>1
      <4>3. CASE m # l
        <5>1. j.win[m] = job[p].win[m]
          BY <1>2, <1>3, <4>3 DEF Once
        <5> QED
          BY <4>1, <4>3, <5>1
      <4> QED
        BY <4>2, <4>3
    <3>2. /\ Todo' \intersect Done' = {} /\ Todo' \union Done' \subseteq UpTo(job[lock].saved.off)'
      BY <1>1, <1>8, <1>9 DEF Recording
    <3> QED
      BY <1>1, <1>2, <1>5, <1>7, <3>1, <3>2 DEF Recording
  <2> QED
    BY <1>8, <2>1 DEF JobOK
<1>15. LineRead(l, c) /\ LineDone(l)
  <2>1. LineRead(l, c)
    BY <1>1, <1>10, <1>13, Zenon DEF LineRead
  <2>2. LineDone(l)
    BY <1>5, <1>8, <1>9, <1>13, Zenon DEF LineDone
  <2> QED
    BY <2>1, <2>2
<1>16. RowCounted(l, c) /\ LineCounted(l)
  <2>1. RowCounted(l, c)
    BY <1>10, Zenon DEF RowCounted
  <2>2. LineCounted(l)
    BY <1>11, Zenon DEF LineCounted
  <2> QED
    BY <2>1, <2>2
<1>17. WindowsOK'
  BY <1>5, <1>6, <1>9, <1>13 DEF WindowsOK
<1>18. CountsOK' /\ RowsOK' /\ IdsOK' /\ ReadingOK' /\ KeepingOK'
  BY <1>15, <1>16, StoreCounts, StoreRows, StoreIds, StoreReading
<1>19. SumsOK'
  BY <1>1, <1>5, <1>6, <1>10, <1>12, RecordSums
<1> QED
  BY <1>12, <1>14, <1>17, <1>18, <1>19 DEF LogInv

LEMMA RecordInv == ASSUME LogInv, NEW p \in Procs, Record(p) PROVE LogInv'
<1> DEFINE l == Head(job[p].todo)
           c == written[l]
<1>1. /\ pc[p] = "record" /\ job[p].todo # <<>>
      /\ UNCHANGED <<written, files, saved, setup, lock, pc, history>>
  BY DEF Record
<1>2. CASE c \notin registered
  <2>1. job' = [job EXCEPT ![p] = [job[p] EXCEPT !.todo = Tail(@)]] /\ UNCHANGED records
    BY <1>2 DEF Record
  <2> QED
    BY <1>1, <1>2, <2>1, SkipInv
<1>3. CASE c \in registered
  <2>1. /\ job' = [job EXCEPT ![p] = [[job[p] EXCEPT !.todo = Tail(@)] EXCEPT
                      !.win = Once(@, l), !.done = @ \union {l}]]
        /\ counted' = Once(counted, l)
        /\ detail' = IF c \in job[p].capture THEN Once(detail, l) ELSE detail
        /\ alerts' = Alerted(l)
        /\ nextId' = IF alerts[c].id = 0 THEN nextId + 1 ELSE nextId
        /\ windows' = SavedWindows(l)
    BY <1>3 DEF Record
  <2>2. windows' = windows
    BY <2>1 DEF SavedWindows
  <2>3. [[job[p] EXCEPT !.todo = Tail(@)] EXCEPT !.win = Once(@, l), !.done = @ \union {l}] =
        [job[p] EXCEPT !.todo = Tail(@), !.win = Once(@, l), !.done = @ \union {l}]
    <3>1. job[p] \in Jobs
      BY DEF LogInv, LogTypes, JobTypes, LockTypes
    <3> QED
      BY <3>1 DEF Jobs
  <2>4. job' = [job EXCEPT ![p] = [job[p] EXCEPT !.todo = Tail(@), !.win = Once(@, l),
                                                !.done = @ \union {l}]]
    BY <2>1, <2>3
  <2> HIDE DEF l, c
  <2>5. l = Head(job[p].todo) /\ c = written[l]
    BY DEF l, c
  <2> QED
    BY <1>1, <1>3, <2>1, <2>2, <2>4, <2>5, StoreInv
<1> QED
  BY <1>2, <1>3

-----------------------------------------------------------------------------
(***************************************************************************)
(* What the other steps of a command leave alone.                          *)
(***************************************************************************)
\* A file that rises holds nothing both before and after an offset.
LEMMA Apart == ASSUME FileTypes, current \in Inodes, NEW off \in 0 .. Len(text[current])
               PROVE  UpTo(off) \intersect Beyond(off) = {}
<1> DEFINE t == text[current]
<1>1. t \in Seq(Lines) /\ Rising(t) /\ Len(t) \in Nat
  BY DEF FileTypes
<1>2. ASSUME NEW n \in 1 .. off, NEW m \in off + 1 .. Len(t) PROVE t[n] # t[m]
  <2>1. n \in 1 .. Len(t) /\ m \in 1 .. Len(t) /\ n < m
    BY <1>1
  <2>2. t[n] < t[m] /\ t[n] \in Lines /\ t[m] \in Lines
    BY <1>1, <2>1 DEF Rising
  <2> QED
    BY <2>2 DEF Lines
<1> QED
  BY <1>2 DEF UpTo, Beyond

\* What is in access.log was seen by an earlier sync, or is not read yet.
LEMMA ReadOrNot ==
  ASSUME LogInv, ~ behind, current # NoFile, NEW n \in 1 .. Len(text[current])
  PROVE  Seen(text[current][n]) \/ text[current][n] \in NotRead
<1>1. ReadTo \in 0 .. Len(text[current]) /\ Len(text[current]) \in Nat
  BY ReadToRange DEF LogInv, LogTypes
<1>2. CASE n \in ReadTo + 1 .. Len(text[current])
  BY <1>2 DEF NotRead, Beyond
<1>3. CASE n \notin ReadTo + 1 .. Len(text[current])
  <2>1. n \in 1 .. ReadTo /\ ReadTo # 0
    BY <1>1, <1>3
  <2>2. saved.ino = current /\ ReadTo = saved.off /\ saved.ino # NoFile
    BY <2>1 DEF ReadTo
  <2> QED
    BY <2>1, <2>2 DEF UpTo, LogInv, ReadingOK
<1> QED
  BY <1>2, <1>3

\* What is under no retention stays in its place.
LEMMA SameHistory ==
  ASSUME LogInv, UNCHANGED <<written, reread, early, passed, late, behind, cut>>
  PROVE  HistoryTypes' /\ Known' = Known
<1>1. Known' = Known
  BY DEF Known
<1> QED
  BY <1>1 DEF LogInv, LogTypes, HistoryTypes

\* A step of a rotation, after its sync.
LEMMA Rotates ==
  ASSUME LogInv, NEW p \in Procs, pc[p] \in LockSteps, pc[p] # "record",
         NEW step \in {"rename", "create", "pack", "unlink", "reopen"}, Goto(p, step),
         NEW j \in Jobs, j.todo = <<>>, j.done = {}, job' = [job EXCEPT ![p] = j],
         UNCHANGED <<written, saved, records, setup, lock, history>>,
         FileTypes', NotRead' \subseteq NotRead
  PROVE  /\ LogTypes' /\ CountsOK' /\ WindowsOK' /\ RowsOK' /\ IdsOK' /\ SumsOK'
         /\ lock = p /\ lock # NoProc /\ At(pc[p]) /\ job'[p] = j /\ Known' = Known
         /\ \A s : At(s)' <=> s = step
         /\ Todo' = {} /\ Done' = {}
<1>1. LogTypes /\ LockTypes /\ JobOK
  BY DEF LogInv, LogTypes, JobTypes
<1>2. lock = p /\ lock # NoProc /\ \A s : At(s) <=> pc[p] = s
  BY <1>1, Holder
<1>3. Todo = {} /\ Done = {} /\ Coming = {} /\ Ahead = NotRead
  BY <1>1, <1>2 DEF JobOK, Coming, Ahead
<1>4. /\ LockTypes' /\ lock' # NoProc /\ job'[lock'] = j
      /\ \A s : At(s)' <=> s = step
      /\ Todo' = ToSet(j.todo) /\ Done' = j.done
  <2>1. step \in LockSteps
    BY DEF LockSteps
  <2> QED
    BY <1>1, <1>2, <2>1, StaysHolder
<1>5. Todo' = {} /\ Done' = {} /\ Coming' = {} /\ Ahead' = NotRead'
  <2>1. ~ At("record")' /\ Todo' = {} /\ Done' = {}
    BY <1>4, NoJobType
  <2> QED
    BY <2>1 DEF Coming, Ahead
<1>6. UNCHANGED <<written, saved, windows, counted, detail, alerts, nextId, capture, registered,
                  old, did, reread, early, passed, late, behind, cut>>
  BY DEF records, setup, history
<1>7. Known' = Known /\ HistoryTypes'
  BY <1>6, SameHistory
<1>8. LogTypes'
  <2>1. RecordTypes' /\ DidTypes'
    BY <1>1, <1>6 DEF LogTypes, RecordTypes, Saved, JobTypes, DidTypes
  <2> QED
    BY <1>4, <1>7, <2>1 DEF LogTypes, JobTypes
<1>9. Calm
  <2>1. did.mishap \in Nat /\ did.hand \in Nat
    BY <1>1, Numbers
  <2> QED
    BY <1>3, <1>5, <1>6, <2>1 DEF Calm
<1>10. CountsOK' /\ WindowsOK' /\ RowsOK' /\ IdsOK' /\ SumsOK'
  <2>1. ~ At("maintain")'
    BY <1>4
  <2> QED
    BY <1>5, <1>6, <1>8, <1>9, <2>1, RecordsQuiet
<1> QED
  BY <1>2, <1>4, <1>5, <1>7, <1>8, <1>10

\* A command ends, whole or not.
LEMMA Ends ==
  ASSUME LogInv, NEW p \in Procs, lock = p, End(p), FileTypes', HistoryTypes', DidTypes',
         UNCHANGED <<written, records, setup, early, late>>, saved' \in Saved,
         NotRead' \subseteq NotRead,
         \/ Done = {} /\ reread' = reread /\ did'.mishap >= did.mishap /\ did'.hand >= did.hand
         \/ Mishap /\ reread' = reread \union job[p].done
  PROVE  /\ LogTypes' /\ JobOK' /\ CountsOK' /\ WindowsOK' /\ RowsOK' /\ IdsOK' /\ SumsOK'
         /\ \A s : ~ At(s)'
<1>1. LogTypes /\ LockTypes /\ JobOK /\ DidTypes
  BY DEF LogInv, LogTypes, JobTypes
<1>2. lock # NoProc /\ Done = job[p].done
  BY NoFileIsNone DEF Done
<1>3. LockTypes' /\ lock' = NoProc /\ (\A s : ~ At(s)') /\ Todo' = {} /\ Done' = {} /\ Coming' = {}
  BY <1>1, EndFrees
<1>4. Ahead' = NotRead'
  BY <1>3 DEF Ahead
<1>5. UNCHANGED <<windows, counted, detail, alerts, nextId, capture, registered, old>>
  BY DEF records, setup
<1>6. LogTypes'
  <2>1. RecordTypes'
    BY <1>1, <1>5 DEF LogTypes, RecordTypes, Saved
  <2> QED
    BY <1>3, <2>1 DEF LogTypes, JobTypes
<1>7. Calm
  <2>1. did.mishap \in Nat /\ did.hand \in Nat
    BY <1>1, Numbers
  <2>2. Ahead' \subseteq Ahead
    BY <1>4 DEF Ahead
  <2>3. CASE Mishap /\ reread' = reread \union job[p].done
    <3>1. did'.mishap = did.mishap + 1 /\ did'.hand = did.hand
      BY <1>1, <2>3, MishapDid
    <3>2. did'.mishap >= did.mishap /\ did'.hand >= did.hand
      BY <2>1, <3>1
    <3> QED
      BY <1>2, <1>3, <2>2, <2>3, <3>1, <3>2 DEF Calm
  <2>4. CASE Done = {} /\ reread' = reread /\ did'.mishap >= did.mishap /\ did'.hand >= did.hand
    BY <1>3, <2>2, <2>4 DEF Calm
  <2> QED
    BY <2>3, <2>4
<1>8. JobOK'
  BY <1>3 DEF JobOK
<1>9. CountsOK' /\ WindowsOK' /\ RowsOK' /\ IdsOK' /\ SumsOK'
  BY <1>3, <1>5, <1>6, <1>7, RecordsQuiet
<1> QED
  BY <1>3, <1>6, <1>8, <1>9

-----------------------------------------------------------------------------
(***************************************************************************)
(* The end of a sync.                                                      *)
(***************************************************************************)
LEMMA StoppedInv ==
  ASSUME LogInv, NEW p \in Procs, lock = p, End(p), Mishap, reread' = reread \union job[p].done,
         cut' = (cut \/ pc[p] \in {"create", "pack", "unlink", "reopen"}),
         UNCHANGED <<written, files, saved, records, setup, early, passed, late, behind>>
  PROVE  LogInv'
<1>1. LogTypes /\ JobOK /\ DidTypes /\ lock # NoProc /\ ReadingOK /\ KeepingOK
  BY NoFileIsNone DEF LogInv, LogTypes, JobTypes
<1>2. UNCHANGED <<text, current, open, rotated, archive, saved, windows, registered, old>>
  BY DEF files, records, setup
<1>3. Known' = Known /\ NotRead' = NotRead /\ UpTo(saved.off)' = UpTo(saved.off)
  BY <1>2 DEF Known, NotRead, Beyond, ReadTo, UpTo
<1>4. FileTypes' /\ DidTypes' /\ saved' \in Saved
  BY <1>1, <1>2, <1>3, MishapDid DEF LogTypes, FileTypes, RecordTypes
<1>5. HistoryTypes'
  <2>1. Done \subseteq Known /\ Done = job[p].done
    BY <1>1, AheadKnown DEF Done
  <2> QED
    BY <1>1, <1>3, <2>1 DEF LogTypes, HistoryTypes
<1>6. /\ LogTypes' /\ JobOK' /\ CountsOK' /\ WindowsOK' /\ RowsOK' /\ IdsOK' /\ SumsOK'
      /\ \A s : ~ At(s)'
  BY <1>3, <1>4, <1>5, Ends
<1>7. ReadingOK'
  <2> SUFFICES ASSUME ~ behind PROVE ReadingOK'
    BY DEF ReadingOK
  <2>1. \A l : Seen(l)' <=> Seen(l)
    BY <1>2 DEF Seen
  <2>2. saved.ino \in {NoFile, current} \union rotated \/ current # NoFile
    BY <1>1 DEF ReadingOK
  <2>3. saved.ino = current /\ saved.ino # NoFile =>
          saved.off <= Len(text[current]) /\ \A l \in UpTo(saved.off) : Seen(l)
    BY <1>1 DEF ReadingOK
  <2> QED
    BY <1>2, <1>3, <1>6, <2>1, <2>2, <2>3 DEF ReadingOK
<1>8. KeepingOK'
  <2>1. open = current \/ cut'
    BY <1>1 DEF KeepingOK, At
  <2> QED
    BY <1>1, <1>2, <1>3, <1>6, <2>1 DEF KeepingOK
<1> QED
  BY <1>6, <1>7, <1>8 DEF LogInv

LEMMA KillInv == ASSUME LogInv, NEW p \in Procs, Kill(p) PROVE LogInv'
  BY StoppedInv DEF Kill

LEMMA RecordFailsInv == ASSUME LogInv, NEW p \in Procs, RecordFails(p) PROVE LogInv'
<1>1. /\ pc[p] = "record" /\ Mishap /\ reread' = reread \union job[p].done
      /\ UNCHANGED <<written, files, saved, records, setup, early, passed, late, cut>>
  BY DEF RecordFails
<1>2. LogTypes /\ LockTypes /\ JobOK /\ DidTypes /\ KeepingOK
  BY DEF LogInv, LogTypes, JobTypes
<1>3. /\ lock = p /\ lock # NoProc /\ (\A s : At(s) <=> pc[p] = s) /\ Done = job[p].done
  <2>1. pc[p] \in LockSteps
    BY <1>1 DEF LockSteps
  <2> QED
    BY <1>2, <2>1, Holder
<1>4. CASE job[p].op # "rotate"
  <2>1. End(p) /\ behind' = behind
    BY <1>4 DEF RecordFails
  <2>2. cut' = (cut \/ pc[p] \in {"create", "pack", "unlink", "reopen"})
    <3>1. cut \in BOOLEAN
      BY <1>2 DEF LogTypes, HistoryTypes
    <3> QED
      BY <1>1, <3>1
  <2> QED
    BY <1>1, <1>3, <2>1, <2>2, StoppedInv
<1>5. CASE job[p].op = "rotate"
  <2> DEFINE j == [NoJob EXCEPT !.op = "rotate"]
  <2>1. j \in Jobs /\ j.todo = <<>> /\ j.done = {}
    BY NoJobType DEF Jobs, NoJob
  <2>2. behind' = TRUE /\ job' = [job EXCEPT ![p] = j] /\ Goto(p, "rename") /\ lock' = lock
    BY <1>5 DEF RecordFails
  <2> HIDE DEF j
  <2>3. UNCHANGED <<text, current, open, rotated, archive, saved, windows, counted, detail, alerts,
                    nextId, capture, registered, old>>
    BY <1>1 DEF files, records, setup
  <2>4. Known' = Known /\ NotRead' = NotRead
    BY <1>1, <2>3 DEF Known, NotRead, Beyond, ReadTo
  <2>5. /\ LockTypes' /\ (\A s : At(s)' <=> s = "rename") /\ Todo' = ToSet(j.todo) /\ Done' = j.done
    <3>1. "rename" \in LockSteps
      BY DEF LockSteps
    <3> QED
      BY <1>2, <1>3, <2>1, <2>2, <3>1, StaysHolder
  <2>6. /\ ~ At("record")' /\ ~ At("maintain")' /\ ~ At("create")' /\ ~ At("pack")'
        /\ ~ At("unlink")' /\ ~ At("reopen")' /\ Todo' = {} /\ Done' = {}
    BY <2>1, <2>5, NoJobType
  <2>7. Coming' = {} /\ Ahead' \subseteq Ahead
    BY <2>4, <2>6 DEF Coming, Ahead
  <2>8. LogTypes'
    <3>1. Done \subseteq Known
      BY <1>2, AheadKnown
    <3>2. HistoryTypes'
      BY <1>1, <1>2, <1>3, <2>2, <2>4, <3>1 DEF LogTypes, HistoryTypes
    <3>3. FileTypes' /\ RecordTypes' /\ DidTypes'
      BY <1>1, <1>2, <2>3, <2>4, MishapDid DEF LogTypes, FileTypes, RecordTypes, Saved
    <3> QED
      BY <2>5, <3>2, <3>3 DEF LogTypes, JobTypes
  <2>9. Calm
    <3>1. did'.mishap = did.mishap + 1 /\ did'.hand = did.hand /\ did.mishap \in Nat /\ did.hand \in Nat
      BY <1>1, <1>2, MishapDid
    <3>2. did'.mishap >= did.mishap /\ did'.hand >= did.hand
      BY <3>1
    <3> QED
      BY <1>1, <1>3, <2>6, <2>7, <3>1, <3>2 DEF Calm
  <2>10. CountsOK' /\ WindowsOK' /\ RowsOK' /\ IdsOK' /\ SumsOK'
    BY <1>1, <2>3, <2>6, <2>7, <2>8, <2>9, RecordsQuiet
  <2>11. JobOK' /\ ReadingOK'
    BY <2>2, <2>6 DEF JobOK, ReadingOK
  <2>12. KeepingOK'
    <3>1. open = current \/ cut
      BY <1>1, <1>2, <1>3 DEF KeepingOK
    <3> QED
      BY <1>1, <1>2, <2>3, <2>4, <2>6, <3>1 DEF KeepingOK
  <2> QED
    BY <2>8, <2>10, <2>11, <2>12 DEF LogInv
<1> QED
  BY <1>4, <1>5

LEMMA SaveInv == ASSUME LogInv, NEW p \in Procs, Save(p) PROVE LogInv'
<1> DEFINE off == job[p].saved.off
           j == [job[p] EXCEPT !.done = {}]
<1>1. /\ pc[p] = "record" /\ job[p].todo = <<>>
      /\ saved' = job[p].saved /\ windows' = job[p].win /\ job' = [job EXCEPT ![p].done = {}]
      /\ detail' \in {detail, [l \in Lines |-> IF l <= old THEN 0 ELSE detail[l]]}
      /\ Goto(p, "maintain")
      /\ UNCHANGED <<written, files, counted, alerts, nextId, setup, lock, history>>
  BY DEF Save
<1>2. LogTypes /\ LockTypes /\ JobOK /\ DidTypes /\ KeepingOK /\ ReadingOK /\ WindowsOK
  BY DEF LogInv, LogTypes, JobTypes
<1>3. /\ lock = p /\ lock # NoProc /\ (\A s : At(s) <=> pc[p] = s) /\ Done = job[p].done
      /\ Todo = ToSet(job[p].todo) /\ job[p] \in Jobs
  <2>1. pc[p] \in LockSteps
    BY <1>1 DEF LockSteps
  <2> QED
    BY <1>2, <2>1, Holder
<1>4. Recording /\ At("record") /\ Todo = {}
  BY <1>1, <1>2, <1>3, NoJobType DEF JobOK
<1>5. UNCHANGED <<text, current, open, rotated, archive, capture, registered, old, did, reread,
                  early, passed, late, behind, cut>>
  BY <1>1 DEF files, setup, history
<1>6. /\ current # NoFile /\ current \in Inodes /\ saved'.ino = current /\ saved'.off = off
      /\ off \in 0 .. Len(text[current]) /\ off \in Nat
  <2>1. off \in 0 .. MaxLines
    BY <1>3 DEF Jobs, Saved
  <2>2. off \in Nat
    BY <2>1, Bounds
  <2>3. current # NoFile /\ job[p].saved.ino = current /\ off <= Len(text[current])
    BY <1>3, <1>4 DEF Recording
  <2>4. current \in Inodes /\ Len(text[current]) \in Nat
    BY <1>2, <2>3 DEF LogTypes, FileTypes
  <2> QED
    BY <1>1, <2>2, <2>3, <2>4
<1>7. NotRead' = Coming /\ UpTo(saved.off)' = UpTo(off) /\ Known' = Known
  <2>1. ReadTo' = off
    BY <1>5, <1>6 DEF ReadTo
  <2>2. NotRead' = Beyond(off)
    BY <1>5, <1>6, <2>1 DEF NotRead, Beyond
  <2> QED
    BY <1>1, <1>3, <1>4, <1>5, <1>6, <2>2 DEF Coming, UpTo, Known
<1>8. j \in Jobs /\ j.todo = <<>> /\ j.done = {} /\ job' = [job EXCEPT ![p] = j]
  BY <1>1, <1>3 DEF Jobs
<1> HIDE DEF j
<1>9. /\ LockTypes' /\ (\A s : At(s)' <=> s = "maintain") /\ Todo' = ToSet(j.todo) /\ Done' = j.done
  <2>1. "maintain" \in LockSteps
    BY DEF LockSteps
  <2>2. LockTypes /\ lock = p /\ Goto(p, "maintain") /\ lock' = lock
    BY <1>1, <1>2, <1>3
  <2> QED
    BY <1>8, <2>1, <2>2, StaysHolder
<1>10. /\ ~ At("record")' /\ ~ At("rename")' /\ ~ At("create")' /\ ~ At("pack")'
       /\ ~ At("unlink")' /\ ~ At("reopen")' /\ Todo' = {} /\ Done' = {}
  BY <1>8, <1>9, NoJobType
<1>11. Coming' = {} /\ Ahead' = Coming /\ Coming \subseteq Ahead
  BY <1>7, <1>10 DEF Coming, Ahead
<1>12. Coming \intersect Done = {}
  <2>1. Coming = Beyond(off)
    BY <1>3, <1>4 DEF Coming
  <2>2. Done \subseteq UpTo(off)
    BY <1>3, <1>4 DEF Recording
  <2> QED
    BY <1>2, <1>6, <2>1, <2>2, Apart DEF LogTypes
<1>13. \A l \in Lines : windows'[l] = windows[l] + IF l \in Done THEN 1 ELSE 0
  BY <1>1, <1>3, <1>4 DEF Recording
<1>14. \A l \in Lines : detail'[l] \in Nat /\ detail[l] \in Nat /\ detail'[l] <= detail[l]
  BY <1>1, <1>2, Numbers
<1>15. LogTypes'
  <2>1. HistoryTypes' /\ FileTypes' /\ DidTypes'
    BY <1>1, <1>2, <1>5, <1>7 DEF LogTypes, HistoryTypes, FileTypes, DidTypes
  <2>2. saved' \in Saved /\ windows' \in [Lines -> Nat]
    BY <1>1, <1>3 DEF Jobs
  <2>3. detail' \in [Lines -> Nat]
    BY <1>1, <1>2, <1>14 DEF LogTypes, RecordTypes
  <2>4. RecordTypes'
    BY <1>1, <1>2, <1>5, <2>2, <2>3 DEF LogTypes, RecordTypes, Saved
  <2> QED
    BY <1>9, <2>1, <2>4 DEF LogTypes, JobTypes
<1>16. Calm
  <2>1. did.mishap \in Nat /\ did.hand \in Nat
    BY <1>2, Numbers
  <2> QED
    BY <1>1, <1>5, <1>10, <1>11, <1>12, <2>1 DEF Calm
<1>17. CountsOK'
  <2>1. \A l \in Lines : counted'[l] <= counted[l] /\ detail'[l] <= detail[l]
    BY <1>1, <1>2, <1>14, Numbers
  <2> QED
    BY <1>15, <1>16, <2>1, CountsCalm DEF LogInv
<1>18. WindowsOK'
  <2> SUFFICES ASSUME NEW l \in Lines
               PROVE  windows'[l] <= 1 /\ (l \in Coming \/ l \notin Known => windows'[l] = 0)
    BY <1>7, <1>10, <1>11 DEF WindowsOK
  <2>1. /\ windows[l] \in Nat /\ windows[l] <= 1
        /\ l \in Ahead \union Done \/ l \notin Known => windows[l] = 0
    BY <1>2, Numbers DEF WindowsOK
  <2>2. Done \subseteq Known
    BY <1>2, AheadKnown
  <2>3. CASE l \in Done
    BY <1>12, <1>13, <2>1, <2>2, <2>3
  <2>4. CASE l \notin Done
    <3>1. windows'[l] = windows[l]
      BY <1>13, <2>1, <2>4
    <3> QED
      BY <1>11, <2>1, <3>1
  <2> QED
    BY <2>3, <2>4
<1>19. RowsOK'
  BY <1>1, <1>5, <1>7 DEF LogInv, RowsOK
<1>20. IdsOK'
  <2>1. Again' = {}
    BY <1>5, <1>10, <1>11 DEF LogInv, IdsOK, Again
  <2> QED
    BY <1>1, <1>5, <1>11, <1>15, <1>16, <2>1, IdsCalm DEF LogInv
<1>21. SumsOK'
  <2>1. \A c \in Clients : alerts'[c].count <= alerts[c].count
    BY <1>1, <1>2 DEF LogTypes, RecordTypes, AlertRow
  <2> QED
    BY <1>1, <1>15, <2>1, SumsKept DEF LogInv
<1>22. JobOK'
  BY <1>10 DEF JobOK
<1>23. ReadingOK'
  <2> SUFFICES ASSUME ~ behind PROVE ReadingOK'
    BY <1>5 DEF ReadingOK
  <2>1. \A l \in UpTo(off) : Seen(l)'
    <3> SUFFICES ASSUME NEW l \in UpTo(off) PROVE Seen(l)'
      OBVIOUS
    <3>1. Seen(l) \/ l \in Done
      BY <1>3, <1>4 DEF LogInv, ReadingOK
    <3>2. l \in Lines
      <4>1. \A n \in 1 .. off : n \in 1 .. Len(text[current])
        BY <1>2, <1>6 DEF LogTypes, FileTypes
      <4>2. text[current] \in Seq(Lines)
        BY <1>2, <1>6 DEF LogTypes, FileTypes
      <4> QED
        BY <4>1, <4>2 DEF UpTo
    <3>3. windows[l] \in Nat /\ windows[l] <= 1 /\ (l \in Done => windows[l] = 0)
      BY <1>2, <3>2, Numbers DEF WindowsOK
    <3>4. windows[l] = 1 \/ l \in Done => windows'[l] = 1
      BY <1>13, <3>2, <3>3
    <3> QED
      BY <1>1, <1>5, <3>1, <3>4 DEF Seen
  <2> QED
    BY <1>5, <1>6, <1>7, <1>10, <2>1 DEF ReadingOK
<1>24. KeepingOK'
  <2>1. open = current \/ cut
    BY <1>1, <1>2, <1>3 DEF KeepingOK
  <2> QED
    BY <1>1, <1>2, <1>5, <1>7, <1>10, <2>1 DEF KeepingOK
<1> QED
  BY <1>15, <1>17, <1>18, <1>19, <1>20, <1>21, <1>22, <1>23, <1>24 DEF LogInv

\* run_independent_maintenance and the end of the command, or of its first part.
LEMMA MaintainInv == ASSUME LogInv, NEW p \in Procs, Maintain(p) PROVE LogInv'
<1>1. /\ pc[p] = "maintain"
      /\ alerts' = [c \in Clients |-> IF alerts[c].last <= old THEN NoAlert ELSE alerts[c]]
      /\ UNCHANGED <<written, files, saved, windows, counted, detail, nextId, setup, history>>
  BY DEF Maintain
<1>2. LogTypes /\ LockTypes /\ JobOK /\ DidTypes /\ KeepingOK /\ ReadingOK /\ IdsOK
  BY DEF LogInv, LogTypes, JobTypes
<1>3. /\ lock = p /\ lock # NoProc /\ (\A s : At(s) <=> pc[p] = s) /\ Done = job[p].done
      /\ Todo = ToSet(job[p].todo) /\ job[p] \in Jobs
  <2>1. pc[p] \in LockSteps
    BY <1>1 DEF LockSteps
  <2> QED
    BY <1>2, <2>1, Holder
<1>4. At("maintain") /\ Todo = {} /\ Done = {} /\ Coming = {} /\ Ahead = NotRead /\ Again = {}
  BY <1>1, <1>2, <1>3 DEF JobOK, Coming, Ahead, IdsOK
<1>5. UNCHANGED <<text, current, open, rotated, archive, capture, registered, old, did, reread,
                  early, passed, late, behind, cut>>
  BY <1>1 DEF files, setup, history
<1>6. /\ LockTypes' /\ ~ At("record")' /\ ~ At("maintain")' /\ ~ At("create")' /\ ~ At("pack")'
      /\ ~ At("unlink")' /\ ~ At("reopen")' /\ Todo' = {} /\ Done' = {}
  <2>1. CASE job[p].op = "rotate"
    <3>1. Goto(p, "rename") /\ UNCHANGED <<lock, job>>
      BY <2>1 DEF Maintain
    <3>2. job' = [job EXCEPT ![p] = job[p]] /\ "rename" \in LockSteps
      BY <1>2, <3>1 DEF LockTypes, LockSteps
    <3>3. /\ LockTypes' /\ (\A s : At(s)' <=> s = "rename")
          /\ Todo' = ToSet(job[p].todo) /\ Done' = job[p].done
      BY <1>2, <1>3, <3>1, <3>2, StaysHolder
    <3>4. Todo' = {} /\ Done' = {}
      BY <1>3, <1>4, <3>3
    <3> QED
      BY <3>3, <3>4
  <2>2. CASE job[p].op # "rotate"
    <3>1. End(p)
      BY <2>2 DEF Maintain
    <3> QED
      BY <1>2, <1>3, <3>1, EndFrees
  <2> QED
    BY <2>1, <2>2
<1>7. /\ Known' = Known /\ NotRead' = NotRead /\ UpTo(saved.off)' = UpTo(saved.off)
      /\ Coming' = {} /\ Ahead' = Ahead
  <2>1. NotRead' = NotRead
    BY <1>1, <1>5 DEF NotRead, Beyond, ReadTo
  <2>2. Coming' = {}
    BY <1>6 DEF Coming
  <2> QED
    BY <1>1, <1>4, <1>5, <1>6, <2>1, <2>2 DEF Known, UpTo, Ahead
<1>8. NoAlert \in AlertRow /\ NoAlert.id = 0 /\ NoAlert.count = 0 /\ NoAlert.notified = 0
  BY DEF NoAlert, AlertRow
<1>9. \A c \in Clients : /\ alerts[c] \in AlertRow
                         /\ \/ alerts'[c] = NoAlert
                            \/ alerts'[c] = alerts[c]
  BY <1>1, <1>2 DEF LogTypes, RecordTypes
<1>10. LogTypes'
  <2>1. HistoryTypes' /\ FileTypes' /\ DidTypes'
    BY <1>1, <1>2, <1>5, <1>7 DEF LogTypes, HistoryTypes, FileTypes, DidTypes
  <2>2. alerts' \in [Clients -> AlertRow]
    BY <1>1, <1>8, <1>9
  <2>3. RecordTypes'
    BY <1>1, <1>2, <1>5, <2>2 DEF LogTypes, RecordTypes, Saved
  <2> QED
    BY <1>6, <2>1, <2>3 DEF LogTypes, JobTypes
<1>11. Calm
  <2>1. did.mishap \in Nat /\ did.hand \in Nat
    BY <1>2, Numbers
  <2> QED
    BY <1>1, <1>4, <1>5, <1>6, <1>7, <2>1 DEF Calm
<1>12. CountsOK'
  <2>1. \A l \in Lines : counted'[l] <= counted[l] /\ detail'[l] <= detail[l]
    BY <1>1, <1>2, Numbers
  <2> QED
    BY <1>10, <1>11, <2>1, CountsCalm DEF LogInv
<1>13. WindowsOK'
  BY <1>1, <1>11, WindowsCalm DEF LogInv
<1>14. RowsOK'
  <2> SUFFICES ASSUME NEW d \in Clients
               PROVE  /\ alerts'[d].id < nextId
                      /\ alerts'[d].id = 0 => alerts'[d] = NoAlert
                      /\ alerts'[d].id # 0 => alerts'[d].first \in Known /\ alerts'[d].last \in Known
                      /\ alerts'[d].notified <= Len(written)
                      /\ d \notin registered => alerts'[d].id = 0
                      /\ \A e \in Clients : alerts'[d].id = alerts'[e].id /\ alerts'[d].id # 0 => d = e
    BY <1>1, <1>5, <1>7 DEF RowsOK
  <2>1. RowsOK /\ nextId \in Nat \ {0} /\ Len(written) \in Nat
    BY <1>2, Bounds DEF LogInv, LogTypes, RecordTypes, FileTypes
  <2>2. CASE alerts'[d] = NoAlert
    BY <1>8, <2>1, <2>2
  <2>3. CASE alerts'[d] = alerts[d]
    <3>1. \A e \in Clients : alerts'[d].id = alerts'[e].id /\ alerts'[d].id # 0 => d = e
      BY <1>8, <1>9, <2>1, <2>3 DEF RowsOK
    <3> QED
      BY <2>1, <2>3, <3>1 DEF RowsOK
  <2> QED
    BY <1>9, <2>2, <2>3
<1>15. IdsOK'
  <2>1. Again' = {}
    BY <1>4, <1>5, <1>6, <1>7 DEF Again
  <2>2. /\ Cardinality(Used) <= Cardinality(Used')
        /\ Cardinality(Used) \in Nat /\ Cardinality(Used') \in Nat
    BY <1>2, <1>11, UsedGrows
  <2> DEFINE a == Cardinality(Used)
             b == Cardinality(Used')
  <2>3. nextId - 1 <= a /\ a <= b /\ a \in Nat /\ b \in Nat /\ nextId \in Nat
    BY <1>2, <2>2 DEF IdsOK, LogTypes, RecordTypes
  <2> HIDE DEF a, b
  <2>4. nextId' - 1 <= b
    BY <1>1, <2>3
  <2> QED
    BY <1>6, <1>7, <2>1, <2>4 DEF IdsOK, b
<1>16. SumsOK'
  <2>1. \A c \in Clients : alerts'[c].count <= alerts[c].count
    BY <1>8, <1>9 DEF AlertRow
  <2> QED
    BY <1>1, <1>10, <2>1, SumsKept DEF LogInv
<1>17. JobOK'
  BY <1>6 DEF JobOK
<1>18. ReadingOK'
  <2> SUFFICES ASSUME ~ behind PROVE ReadingOK'
    BY <1>5 DEF ReadingOK
  <2>1. \A l : Seen(l)' <=> Seen(l)
    BY <1>1, <1>5 DEF Seen
  <2>2. /\ saved.ino \in {NoFile, current} \union rotated
        /\ saved.ino = current /\ saved.ino # NoFile =>
             saved.off <= Len(text[current]) /\ \A l \in UpTo(saved.off) : Seen(l)
    BY <1>2, <1>4 DEF ReadingOK
  <2> QED
    BY <1>1, <1>5, <1>6, <1>7, <2>1, <2>2 DEF ReadingOK
<1>19. KeepingOK'
  <2>1. open = current \/ cut
    BY <1>1, <1>2, <1>3 DEF KeepingOK
  <2> QED
    BY <1>1, <1>2, <1>5, <1>6, <1>7, <2>1 DEF KeepingOK
<1> QED
  BY <1>10, <1>12, <1>13, <1>14, <1>15, <1>16, <1>17, <1>18, <1>19 DEF LogInv

-----------------------------------------------------------------------------
(***************************************************************************)
(* rotate_raw_logs.                                                        *)
(***************************************************************************)
\* A new access.log is a file nobody else has, with nothing in it.
LEMMA Fresh ==
  ASSUME FileTypes, RecordTypes, NewFile, current = NoFile, UNCHANGED <<written, saved, rotated>>
  PROVE  /\ current' \in Inodes /\ current' # NoFile /\ current' \notin rotated
         /\ current' # open
         /\ text' \in [Inodes -> Seq(Lines)]
         /\ \A i \in Inodes :
              Len(text'[i]) <= Len(written) /\ Rising(text'[i]) /\ ToSet(text'[i]) \subseteq Known
         /\ text'[current'] = <<>> /\ ToSet(text'[current']) = {}
         /\ \A i \in Inodes : i # current' => text'[i] = text[i]
         /\ NotRead' = {} /\ NotRead = {}
<1>1. PICK i \in Free : current' = i /\ text' = [text EXCEPT ![i] = <<>>]
  <2>1. \E i \in Free : TRUE
    BY DEF NewFile
  <2>2. (CHOOSE i \in Free : TRUE) \in Free
    BY <2>1
  <2> QED
    BY <2>2 DEF NewFile
<1>2. i \in Inodes /\ i # NoFile /\ i \notin rotated /\ i # open
  BY <1>1, NoFileIsNone DEF Free
<1>3. <<>> \in Seq(Lines) /\ Len(<<>>) = 0 /\ ToSet(<<>>) = {} /\ Rising(<<>>)
  BY EmptySeq DEF ToSet, Rising
<1>4. text \in [Inodes -> Seq(Lines)] /\ Len(written) \in Nat
  BY Bounds DEF FileTypes
<1>5. text'[i] = <<>> /\ \A k \in Inodes : k # i => text'[k] = text[k]
  BY <1>1, <1>2, <1>4
<1>6. text' \in [Inodes -> Seq(Lines)]
  BY <1>1, <1>2, <1>3, <1>4
<1>7. \A k \in Inodes :
        Len(text'[k]) <= Len(written) /\ Rising(text'[k]) /\ ToSet(text'[k]) \subseteq Known
  <2> SUFFICES ASSUME NEW k \in Inodes
               PROVE  Len(text'[k]) <= Len(written) /\ Rising(text'[k]) /\ ToSet(text'[k]) \subseteq Known
    OBVIOUS
  <2>1. CASE k = i
    BY <1>3, <1>5, <2>1
  <2>2. CASE k # i
    BY <1>5, <2>2 DEF FileTypes
  <2> QED
    BY <2>1, <2>2
<1>8. NotRead' = {}
  <2>1. saved.off \in Nat
    BY Bounds DEF RecordTypes, Saved
  <2>2. ReadTo' \in Nat
    BY <2>1 DEF ReadTo
  <2>3. \A n \in ReadTo' + 1 .. Len(text'[current']) : FALSE
    <3>1. Len(text'[current']) = 0
      BY <1>1, <1>3, <1>5
    <3>2. \A r \in Nat : \A n \in r + 1 .. 0 : FALSE
      OBVIOUS
    <3> QED
      BY ONLY <2>2, <3>1, <3>2
  <2> QED
    BY <1>1, <1>2, <2>3 DEF NotRead, Beyond
<1>9. NotRead = {}
  BY DEF NotRead
<1> QED
  BY <1>1, <1>2, <1>3, <1>5, <1>6, <1>7, <1>8, <1>9

\* What holds at every step after the sync.
LEMMA AfterSync ==
  ASSUME LogInv, NEW p \in Procs,
         pc[p] \in {"maintain", "rename", "create", "pack", "unlink", "reopen", "enabling"}
  PROVE  /\ lock = p /\ lock # NoProc /\ (\A s : At(s) <=> pc[p] = s)
         /\ Done = {} /\ Todo = {} /\ Coming = {} /\ Ahead = NotRead
         /\ job[p] \in Jobs /\ job[p].todo = <<>> /\ job[p].done = {}
         /\ pc[p] \in LockSteps /\ pc[p] # "record"
<1>1. LockTypes /\ JobOK
  BY DEF LogInv, LogTypes, JobTypes
<1>2. pc[p] \in LockSteps /\ pc[p] # "record"
  BY DEF LockSteps
<1>3. /\ lock = p /\ lock # NoProc /\ (\A s : At(s) <=> pc[p] = s) /\ Done = job[p].done
      /\ Todo = ToSet(job[p].todo) /\ job[p] \in Jobs
  BY <1>1, <1>2, Holder
<1>4. Todo = {} /\ Done = {} /\ Coming = {}
  BY <1>1, <1>2, <1>3 DEF JobOK, Coming
<1>5. job[p].todo = <<>>
  <2> SUFFICES ASSUME job[p].todo # <<>> PROVE FALSE
    OBVIOUS
  <2>1. job[p].todo \in Seq(Lines)
    BY <1>3 DEF Jobs
  <2>2. Len(job[p].todo) \in Nat /\ Len(job[p].todo) # 0
    BY <2>1, EmptySeq
  <2>3. job[p].todo[1] \in ToSet(job[p].todo)
    BY <2>2 DEF ToSet
  <2> QED
    BY <1>3, <1>4, <2>3
<1> QED
  BY <1>2, <1>3, <1>4, <1>5 DEF Ahead

LEMMA RenameInv == ASSUME LogInv, NEW p \in Procs, Rename(p) PROVE LogInv'
<1>1. /\ pc[p] = "rename"
      /\ UNCHANGED <<written, open, archive, saved, records, setup, lock, history>>
  BY DEF Rename
<1>2. LogTypes /\ LockTypes /\ FileTypes /\ RecordTypes /\ JobOK /\ KeepingOK /\ ReadingOK
  BY DEF LogInv, LogTypes, JobTypes
<1>3. /\ lock = p /\ lock # NoProc /\ At("rename") /\ (\A s : At(s) <=> pc[p] = s)
      /\ job[p] \in Jobs /\ job[p].todo = <<>> /\ job[p].done = {}
      /\ pc[p] \in LockSteps /\ pc[p] # "record"
  BY <1>1, AfterSync
<1>5. UNCHANGED <<saved, windows, registered, old, passed, late, behind, cut>>
  BY <1>1 DEF records, setup, history
<1>6. open = current \/ cut
  BY <1>1, <1>2, <1>3 DEF KeepingOK
<1>7. ~ behind => saved.ino \in {NoFile, current} \union rotated
  BY <1>2, <1>3 DEF ReadingOK
<1>8. CASE current = NoFile
  <2>1. NewFile /\ Goto(p, "reopen") /\ UNCHANGED <<rotated, job>>
    BY <1>8 DEF Rename
  <2>2. /\ current' \in Inodes /\ current' # NoFile /\ current' \notin rotated
        /\ current' # open
        /\ text' \in [Inodes -> Seq(Lines)]
        /\ \A i \in Inodes :
             Len(text'[i]) <= Len(written) /\ Rising(text'[i]) /\ ToSet(text'[i]) \subseteq Known
        /\ text'[current'] = <<>> /\ ToSet(text'[current']) = {}
        /\ \A i \in Inodes : i # current' => text'[i] = text[i]
        /\ NotRead' = {} /\ NotRead = {}
    BY <1>1, <1>2, <1>8, <2>1, Fresh
  <2>3. FileTypes'
    <3>1. Known' = Known
      BY <1>1 DEF Known
    <3> QED
      BY <1>1, <1>2, <2>1, <2>2, <3>1 DEF FileTypes
  <2>4. job' = [job EXCEPT ![p] = job[p]]
    BY <1>2, <2>1 DEF LockTypes
  <2>5. /\ LogTypes' /\ CountsOK' /\ WindowsOK' /\ RowsOK' /\ IdsOK' /\ SumsOK'
        /\ Known' = Known /\ (\A s : At(s)' <=> s = "reopen") /\ Todo' = {} /\ Done' = {}
    BY <1>1, <1>3, <2>1, <2>2, <2>3, <2>4, Rotates
  <2>6. JobOK'
    BY <2>2, <2>5 DEF JobOK
  <2>7. ReadingOK'
    <3>1. ~ behind => saved.ino \in {NoFile} \union rotated
      BY <1>7, <1>8
    <3> QED
      BY <1>5, <2>2, <2>5, <3>1 DEF ReadingOK
  <2>8. KeepingOK'
    <3>1. \A i \in rotated : text'[i] = text[i]
      BY <1>2, <2>2 DEF FileTypes
    <3> QED
      BY <1>1, <1>2, <1>5, <1>8, <2>1, <2>2, <2>5, <3>1 DEF KeepingOK
  <2> QED
    BY <2>5, <2>6, <2>7, <2>8 DEF LogInv
<1>9. CASE current # NoFile /\ text[current] = <<>>
  <2>1. Goto(p, "reopen") /\ UNCHANGED <<text, current, rotated, job>>
    BY <1>9 DEF Rename
  <2>2. FileTypes' /\ NotRead' = NotRead /\ UpTo(saved.off)' = UpTo(saved.off)
    <3>1. Known' = Known /\ NotRead' = NotRead /\ UpTo(saved.off)' = UpTo(saved.off)
      BY <1>1, <2>1 DEF Known, NotRead, Beyond, ReadTo, UpTo
    <3> QED
      BY <1>1, <1>2, <2>1, <3>1 DEF FileTypes
  <2>3. job' = [job EXCEPT ![p] = job[p]]
    BY <1>2, <2>1 DEF LockTypes
  <2>4. /\ LogTypes' /\ CountsOK' /\ WindowsOK' /\ RowsOK' /\ IdsOK' /\ SumsOK'
        /\ Known' = Known /\ (\A s : At(s)' <=> s = "reopen") /\ Todo' = {} /\ Done' = {}
    BY <1>1, <1>3, <2>1, <2>2, <2>3, Rotates
  <2>5. JobOK'
    BY <1>9, <2>1, <2>4 DEF JobOK
  <2>6. ReadingOK'
    <3>1. \A l : Seen(l)' <=> Seen(l)
      BY <1>1, <1>5 DEF Seen
    <3> QED
      BY <1>2, <1>5, <1>7, <2>1, <2>2, <2>4, <3>1 DEF ReadingOK
  <2>7. KeepingOK'
    BY <1>1, <1>2, <1>5, <1>6, <2>1, <2>4 DEF KeepingOK
  <2> QED
    BY <2>4, <2>5, <2>6, <2>7 DEF LogInv
<1>10. CASE current # NoFile /\ text[current] # <<>>
  <2> DEFINE j == [job[p] EXCEPT !.file = current]
  <2>1. /\ rotated' = rotated \union {current} /\ job' = [job EXCEPT ![p].file = current]
        /\ current' = NoFile /\ Goto(p, "create") /\ UNCHANGED text
    BY <1>10 DEF Rename
  <2>2. current \in Inodes
    BY <1>2, <1>10 DEF FileTypes
  <2>3. j \in Jobs /\ j.todo = <<>> /\ j.done = {} /\ j.file = current
        /\ job' = [job EXCEPT ![p] = j]
    BY <1>3, <2>1, <2>2 DEF Jobs
  <2> HIDE DEF j
  <2>4. FileTypes' /\ NotRead' = {}
    <3>1. Known' = Known /\ NotRead' = {}
      BY <1>1, <2>1 DEF Known, NotRead
    <3> QED
      BY <1>1, <1>2, <2>1, <2>2, <3>1, NoFileIsNone DEF FileTypes
  <2>5. /\ LogTypes' /\ CountsOK' /\ WindowsOK' /\ RowsOK' /\ IdsOK' /\ SumsOK' /\ job'[p] = j
        /\ Known' = Known /\ (\A s : At(s)' <=> s = "create") /\ Todo' = {} /\ Done' = {}
    BY <1>1, <1>3, <2>1, <2>3, <2>4, Rotates
  <2>6. JobOK'
    BY <1>1, <1>3, <2>1, <2>3, <2>5 DEF JobOK
  <2>7. ReadingOK'
    BY <1>5, <1>7, <2>1, <2>5 DEF ReadingOK
  <2>8. KeepingOK'
    BY <1>1, <1>2, <1>5, <2>1, <2>5 DEF KeepingOK
  <2> QED
    BY <2>5, <2>6, <2>7, <2>8 DEF LogInv
<1> QED
  BY <1>8, <1>9, <1>10

LEMMA CreateInv == ASSUME LogInv, NEW p \in Procs, Create(p) PROVE LogInv'
<1>1. /\ pc[p] = "create" /\ Goto(p, "pack")
      /\ UNCHANGED <<written, open, rotated, archive, saved, records, setup, lock, job, history>>
  BY DEF Create
<1>2. LogTypes /\ LockTypes /\ FileTypes /\ RecordTypes /\ JobOK /\ KeepingOK /\ ReadingOK
  BY DEF LogInv, LogTypes, JobTypes
<1>3. /\ lock = p /\ lock # NoProc /\ At("create") /\ (\A s : At(s) <=> pc[p] = s)
      /\ job[p] \in Jobs /\ job[p].todo = <<>> /\ job[p].done = {}
      /\ pc[p] \in LockSteps /\ pc[p] # "record"
  BY <1>1, AfterSync
<1>4. UNCHANGED <<saved, windows, registered, old, passed, late, behind, cut>>
  BY <1>1 DEF records, setup, history
<1>5. job[p].file \in rotated
  BY <1>2, <1>3 DEF JobOK
<1>6. ~ behind => saved.ino \in {NoFile, current} \union rotated
  BY <1>2, <1>3 DEF ReadingOK
<1>7. job' = [job EXCEPT ![p] = job[p]]
  BY <1>1, <1>2 DEF LockTypes
<1>8. CASE current = NoFile
  <2>1. NewFile
    BY <1>8 DEF Create
  <2>2. /\ current' \in Inodes /\ current' # NoFile /\ current' \notin rotated
        /\ current' # open
        /\ text' \in [Inodes -> Seq(Lines)]
        /\ \A i \in Inodes :
             Len(text'[i]) <= Len(written) /\ Rising(text'[i]) /\ ToSet(text'[i]) \subseteq Known
        /\ text'[current'] = <<>> /\ ToSet(text'[current']) = {}
        /\ \A i \in Inodes : i # current' => text'[i] = text[i]
        /\ NotRead' = {} /\ NotRead = {}
    BY <1>1, <1>2, <1>8, <2>1, Fresh
  <2>3. FileTypes'
    <3>1. Known' = Known
      BY <1>1 DEF Known
    <3> QED
      BY <1>1, <1>2, <2>2, <3>1 DEF FileTypes
  <2>4. /\ LogTypes' /\ CountsOK' /\ WindowsOK' /\ RowsOK' /\ IdsOK' /\ SumsOK' /\ job'[p] = job[p]
        /\ Known' = Known /\ (\A s : At(s)' <=> s = "pack") /\ Todo' = {} /\ Done' = {}
    BY <1>1, <1>3, <1>7, <2>2, <2>3, Rotates
  <2>5. JobOK'
    BY <1>1, <1>3, <1>5, <2>2, <2>4 DEF JobOK
  <2>6. ReadingOK'
    <3>1. ~ behind => saved.ino \in {NoFile} \union rotated
      BY <1>6, <1>8
    <3> QED
      BY <1>4, <2>2, <2>4, <3>1 DEF ReadingOK
  <2>7. KeepingOK'
    <3>1. \A i \in rotated : text'[i] = text[i]
      BY <1>2, <2>2 DEF FileTypes
    <3> QED
      BY <1>1, <1>2, <1>4, <1>8, <2>2, <2>4, <3>1 DEF KeepingOK
  <2> QED
    BY <2>4, <2>5, <2>6, <2>7 DEF LogInv
<1>9. CASE current # NoFile
  <2>1. UNCHANGED <<text, current>>
    BY <1>9 DEF Create
  <2>2. FileTypes' /\ NotRead' = NotRead /\ UpTo(saved.off)' = UpTo(saved.off)
    <3>1. Known' = Known /\ NotRead' = NotRead /\ UpTo(saved.off)' = UpTo(saved.off)
      BY <1>1, <2>1 DEF Known, NotRead, Beyond, ReadTo, UpTo
    <3> QED
      BY <1>1, <1>2, <2>1, <3>1 DEF FileTypes
  <2>3. /\ LogTypes' /\ CountsOK' /\ WindowsOK' /\ RowsOK' /\ IdsOK' /\ SumsOK' /\ job'[p] = job[p]
        /\ Known' = Known /\ (\A s : At(s)' <=> s = "pack") /\ Todo' = {} /\ Done' = {}
    BY <1>1, <1>3, <1>7, <2>2, Rotates
  <2>4. JobOK'
    BY <1>1, <1>3, <1>5, <1>9, <2>1, <2>3 DEF JobOK
  <2>5. ReadingOK'
    <3>1. \A l : Seen(l)' <=> Seen(l)
      BY <1>1, <1>4 DEF Seen
    <3> QED
      BY <1>2, <1>4, <1>6, <1>9, <2>1, <2>2, <2>3, <3>1 DEF ReadingOK
  <2>6. KeepingOK'
    BY <1>1, <1>2, <1>4, <2>1, <2>3 DEF KeepingOK
  <2> QED
    BY <2>3, <2>4, <2>5, <2>6 DEF LogInv
<1> QED
  BY <1>8, <1>9

LEMMA PackInv == ASSUME LogInv, NEW p \in Procs, Pack(p) PROVE LogInv'
<1>1. /\ pc[p] = "pack" /\ Goto(p, "unlink") /\ archive' = Packed(ToSet(text[job[p].file]))
      /\ UNCHANGED <<written, text, current, open, rotated, saved, records, setup, lock, job, history>>
  BY DEF Pack
<1>2. LogTypes /\ LockTypes /\ FileTypes /\ RecordTypes /\ JobOK /\ KeepingOK /\ ReadingOK
  BY DEF LogInv, LogTypes, JobTypes
<1>3. /\ lock = p /\ lock # NoProc /\ At("pack") /\ (\A s : At(s) <=> pc[p] = s)
      /\ job[p] \in Jobs /\ job[p].todo = <<>> /\ job[p].done = {}
      /\ pc[p] \in LockSteps /\ pc[p] # "record"
  BY <1>1, AfterSync
<1>4. UNCHANGED <<saved, windows, registered, old, passed, late, behind, cut>>
  BY <1>1 DEF records, setup, history
<1>5. job[p].file \in rotated /\ job[p].file \in Inodes /\ current # NoFile
  BY <1>2, <1>3 DEF JobOK, FileTypes
<1>6. job' = [job EXCEPT ![p] = job[p]]
  BY <1>1, <1>2 DEF LockTypes
<1> DEFINE f == ToSet(text[job[p].file])
<1>7. archive' = archive \union {f}
  BY <1>1 DEF Packed
<1>8. /\ Known' = Known /\ NotRead' = NotRead /\ UpTo(saved.off)' = UpTo(saved.off)
  BY <1>1 DEF Known, NotRead, Beyond, ReadTo, UpTo
<1>9. FileTypes'
  <2>1. f \in SUBSET Known
    BY <1>2, <1>5 DEF FileTypes
  <2> QED
    BY <1>1, <1>2, <1>7, <1>8, <2>1 DEF FileTypes
<1>10. /\ LogTypes' /\ CountsOK' /\ WindowsOK' /\ RowsOK' /\ IdsOK' /\ SumsOK' /\ job'[p] = job[p]
       /\ (\A s : At(s)' <=> s = "unlink") /\ Todo' = {} /\ Done' = {}
  BY <1>1, <1>3, <1>6, <1>8, <1>9, Rotates
<1>11. JobOK'
  BY <1>1, <1>3, <1>5, <1>10 DEF JobOK
<1>12. ReadingOK'
  <2>1. \A l : Seen(l)' <=> Seen(l)
    BY <1>1, <1>4 DEF Seen
  <2> QED
    BY <1>1, <1>2, <1>4, <1>5, <1>8, <1>10, <2>1 DEF ReadingOK
<1>13. KeepingOK'
  <2>1. \A l \in ToSet(text'[job'[lock'].file]) : l \in UNION archive'
    BY <1>1, <1>3, <1>7
  <2>2. \A l \in UNION archive : l \in UNION archive'
    BY <1>7
  <2> QED
    BY <1>1, <1>2, <1>4, <1>8, <1>10, <2>1, <2>2 DEF KeepingOK
<1> QED
  BY <1>10, <1>11, <1>12, <1>13 DEF LogInv

LEMMA UnlinkInv == ASSUME LogInv, NEW p \in Procs, Unlink(p) PROVE LogInv'
<1>1. /\ pc[p] = "unlink" /\ Goto(p, "reopen") /\ rotated' = rotated \ {job[p].file}
      /\ UNCHANGED <<written, text, current, open, archive, saved, records, setup, lock, job, history>>
  BY DEF Unlink
<1>2. LogTypes /\ LockTypes /\ FileTypes /\ RecordTypes /\ JobOK /\ KeepingOK /\ ReadingOK
  BY DEF LogInv, LogTypes, JobTypes
<1>3. /\ lock = p /\ lock # NoProc /\ At("unlink") /\ (\A s : At(s) <=> pc[p] = s)
      /\ job[p] \in Jobs /\ job[p].todo = <<>> /\ job[p].done = {}
      /\ pc[p] \in LockSteps /\ pc[p] # "record"
  BY <1>1, AfterSync
<1>4. UNCHANGED <<saved, windows, registered, old, passed, late, behind, cut>>
  BY <1>1 DEF records, setup, history
<1>5. current # NoFile
  BY <1>2, <1>3 DEF JobOK
<1>6. job' = [job EXCEPT ![p] = job[p]]
  BY <1>1, <1>2 DEF LockTypes
<1>7. /\ Known' = Known /\ NotRead' = NotRead /\ UpTo(saved.off)' = UpTo(saved.off)
  BY <1>1 DEF Known, NotRead, Beyond, ReadTo, UpTo
<1>8. FileTypes'
  BY <1>1, <1>2, <1>7 DEF FileTypes
<1>9. /\ LogTypes' /\ CountsOK' /\ WindowsOK' /\ RowsOK' /\ IdsOK' /\ SumsOK' /\ job'[p] = job[p]
      /\ (\A s : At(s)' <=> s = "reopen") /\ Todo' = {} /\ Done' = {}
  BY <1>1, <1>3, <1>6, <1>7, <1>8, Rotates
<1>10. JobOK'
  BY <1>1, <1>5, <1>9 DEF JobOK
<1>11. ReadingOK'
  <2>1. \A l : Seen(l)' <=> Seen(l)
    BY <1>1, <1>4 DEF Seen
  <2> QED
    BY <1>1, <1>2, <1>4, <1>5, <1>7, <1>9, <2>1 DEF ReadingOK
<1>12. KeepingOK'
  <2>1. \A l \in ToSet(text[job[p].file]) : l \in late \union UNION archive
    BY <1>2, <1>3 DEF KeepingOK
  <2>2. \A l : (\E i \in rotated : l \in ToSet(text[i])) =>
               \/ l \in late
               \/ l \in UNION archive
               \/ \E i \in rotated' : l \in ToSet(text[i])
    BY <1>1, <2>1
  <2>3. \A l \in Known :
          l > old => \/ l \in late
                     \/ current # NoFile /\ l \in ToSet(text[current])
                     \/ \E i \in rotated' : l \in ToSet(text[i])
                     \/ l \in UNION archive
    BY <1>2, <2>2 DEF KeepingOK
  <2> QED
    BY <1>1, <1>4, <1>7, <1>9, <2>3 DEF KeepingOK
<1> QED
  BY <1>9, <1>10, <1>11, <1>12 DEF LogInv

LEMMA ReopenInv == ASSUME LogInv, NEW p \in Procs, Reopen(p) PROVE LogInv'
<1>1. /\ pc[p] = "reopen" /\ End(p)
      /\ archive' = {f \in archive : \E l \in f : l > old}
      /\ rotated' = {i \in rotated : \E l \in ToSet(text[i]) : l > old}
      /\ \/ open' = current /\ cut' = FALSE /\ UNCHANGED did
         \/ Mishap /\ cut' = TRUE /\ UNCHANGED open
      /\ UNCHANGED <<written, text, current, saved, records, setup, reread, early, passed, late, behind>>
  BY DEF Reopen
<1>2. LogTypes /\ LockTypes /\ FileTypes /\ RecordTypes /\ JobOK /\ KeepingOK /\ ReadingOK
      /\ DidTypes /\ HistoryTypes
  BY DEF LogInv, LogTypes, JobTypes
<1>3. /\ lock = p /\ lock # NoProc /\ At("reopen") /\ (\A s : At(s) <=> pc[p] = s)
      /\ Done = {} /\ job[p].done = {}
  BY <1>1, AfterSync
<1>4. UNCHANGED <<saved, windows, registered, old, passed, late, behind>>
  BY <1>1 DEF records, setup
<1>5. current # NoFile /\ current \in Inodes
  BY <1>2, <1>3 DEF JobOK, FileTypes
<1>6. /\ Known' = Known /\ NotRead' = NotRead /\ UpTo(saved.off)' = UpTo(saved.off)
  BY <1>1 DEF Known, NotRead, Beyond, ReadTo, UpTo
<1>7. FileTypes' /\ HistoryTypes'
  BY <1>1, <1>2, <1>5, <1>6 DEF FileTypes, HistoryTypes
<1>8. DidTypes' /\ did'.mishap >= did.mishap /\ did'.hand >= did.hand
  <2>1. CASE Mishap
    <3>1. DidTypes' /\ did'.mishap = did.mishap + 1 /\ did'.hand = did.hand
          /\ did.mishap \in Nat /\ did.hand \in Nat
      BY <1>2, <2>1, MishapDid
    <3> QED
      BY <3>1
  <2>2. CASE UNCHANGED did
    <3>1. DidTypes' /\ did'.mishap = did.mishap /\ did'.hand = did.hand
          /\ did.mishap \in Nat /\ did.hand \in Nat
      BY <1>2, <2>2, SameDid
    <3> QED
      BY <3>1
  <2> QED
    BY <1>1, <2>1, <2>2
<1>9. /\ LogTypes' /\ JobOK' /\ CountsOK' /\ WindowsOK' /\ RowsOK' /\ IdsOK' /\ SumsOK'
      /\ \A s : ~ At(s)'
  <2>1. saved' \in Saved
    BY <1>1, <1>2 DEF RecordTypes
  <2> QED
    BY <1>1, <1>3, <1>6, <1>7, <1>8, <2>1, Ends
<1>10. ReadingOK'
  <2>1. \A l : Seen(l)' <=> Seen(l)
    BY <1>1, <1>4 DEF Seen
  <2> QED
    BY <1>1, <1>2, <1>4, <1>5, <1>6, <1>9, <2>1 DEF ReadingOK
<1>11. KeepingOK'
  <2>1. \A l : l > old /\ (\E i \in rotated : l \in ToSet(text[i])) =>
               \E i \in rotated' : l \in ToSet(text[i])
    BY <1>1
  <2>2. \A l : l > old /\ l \in UNION archive => l \in UNION archive'
    BY <1>1
  <2>3. open' = current \/ cut'
    BY <1>1
  <2> QED
    BY <1>1, <1>2, <1>4, <1>6, <1>9, <2>1, <2>2, <2>3 DEF KeepingOK
<1> QED
  BY <1>9, <1>10, <1>11 DEF LogInv

\* The unit is restarted by another command.
LEMMA XrayRestartsInv == ASSUME LogInv, XrayRestarts PROVE LogInv'
<1>1. /\ open # current /\ open' = current' /\ cut' = FALSE
      /\ UNCHANGED <<written, rotated, archive, saved, records, setup, lock, pc, job,
                     did, reread, early, passed, late, behind>>
  BY DEF XrayRestarts
<1>2. LogTypes /\ LockTypes /\ FileTypes /\ RecordTypes /\ JobOK /\ KeepingOK /\ ReadingOK
      /\ DidTypes /\ HistoryTypes
  BY DEF LogInv, LogTypes, JobTypes
<1>3. UNCHANGED <<saved, windows, registered, old, passed, late, behind, capture, counted, detail,
                  alerts, nextId>>
  BY <1>1 DEF records, setup
<1>4. (\A s : At(s)' <=> At(s)) /\ Todo' = Todo /\ Done' = Done /\ Known' = Known
      /\ (\A l : Seen(l)' <=> Seen(l))
  BY <1>1, <1>3 DEF At, Todo, Done, Known, Seen
<1>5. /\ current' \in Inodes /\ current' # NoFile /\ current' \notin rotated
      /\ FileTypes' /\ NotRead' = NotRead
      /\ (\A i \in rotated : text'[i] = text[i])
      /\ \/ current # NoFile /\ UNCHANGED <<text, current>>
         \/ current = NoFile
  <2>1. CASE current = NoFile
    <3>1. NewFile
      BY <2>1 DEF XrayRestarts
    <3>2. /\ current' \in Inodes /\ current' # NoFile /\ current' \notin rotated
          /\ text' \in [Inodes -> Seq(Lines)]
          /\ \A i \in Inodes :
               Len(text'[i]) <= Len(written) /\ Rising(text'[i]) /\ ToSet(text'[i]) \subseteq Known
          /\ \A i \in Inodes : i # current' => text'[i] = text[i]
          /\ NotRead' = {} /\ NotRead = {}
      BY <1>1, <1>2, <2>1, <3>1, Fresh
    <3>3. FileTypes'
      BY <1>1, <1>2, <1>4, <3>2 DEF FileTypes
    <3>4. \A i \in rotated : text'[i] = text[i]
      BY <1>2, <3>2 DEF FileTypes
    <3> QED
      BY <2>1, <3>2, <3>3, <3>4
  <2>2. CASE current # NoFile
    <3>1. UNCHANGED <<text, current>>
      BY <2>2 DEF XrayRestarts
    <3>2. FileTypes' /\ NotRead' = NotRead
      <4>1. NotRead' = NotRead
        BY <1>1, <3>1 DEF NotRead, Beyond, ReadTo
      <4> QED
        BY <1>1, <1>2, <1>4, <2>2, <3>1, <4>1 DEF FileTypes
    <3> QED
      BY <1>2, <2>2, <3>1, <3>2 DEF FileTypes
  <2> QED
    BY <2>1, <2>2
<1>6. At("record") => UNCHANGED <<text, current>> /\ current # NoFile
  BY <1>2, <1>5 DEF JobOK, Recording
<1>7. Coming' = Coming /\ Ahead' = Ahead
  <2>1. Coming' = Coming
    BY <1>1, <1>4, <1>6 DEF Coming, Beyond
  <2> QED
    BY <1>4, <1>5, <2>1 DEF Ahead
<1>8. LogTypes'
  <2>1. RecordTypes' /\ DidTypes' /\ HistoryTypes' /\ LockTypes'
    BY <1>1, <1>2, <1>3, <1>4 DEF RecordTypes, Saved, DidTypes, HistoryTypes, LockTypes
  <2> QED
    BY <1>5, <2>1 DEF LogTypes, JobTypes
<1>9. Calm
  <2>1. did.mishap \in Nat /\ did.hand \in Nat
    BY <1>2, Numbers
  <2> QED
    BY <1>1, <1>4, <1>7, <2>1 DEF Calm
<1>10. CountsOK' /\ WindowsOK' /\ RowsOK' /\ IdsOK' /\ SumsOK'
  <2>1. Coming' \intersect reread' = {}
    BY <1>1, <1>7 DEF LogInv, IdsOK
  <2> QED
    BY <1>1, <1>3, <1>4, <1>8, <1>9, <2>1, RecordsQuiet
<1>11. JobOK'
  <2>1. At("record") => Recording'
    BY <1>1, <1>2, <1>3, <1>4, <1>6 DEF JobOK, Recording, UpTo
  <2> QED
    BY <1>1, <1>2, <1>4, <1>5, <2>1 DEF JobOK
<1>12. ReadingOK'
  <2>1. At("record") => UpTo(job[lock].saved.off)' = UpTo(job[lock].saved.off)
    BY <1>1, <1>6 DEF UpTo
  <2>2. CASE current = NoFile
    <3>1. ~ behind => saved.ino \in {NoFile} \union rotated /\ ~ At("record")
      BY <1>2, <1>6, <2>2 DEF ReadingOK
    <3> QED
      BY <1>1, <1>3, <1>4, <1>5, <3>1 DEF ReadingOK
  <2>3. CASE current # NoFile
    <3>1. UNCHANGED <<text, current>> /\ UpTo(saved.off)' = UpTo(saved.off)
      BY <1>1, <1>5, <2>3 DEF UpTo
    <3> QED
      BY <1>1, <1>2, <1>3, <1>4, <2>1, <2>3, <3>1 DEF ReadingOK
  <2> QED
    BY <2>2, <2>3
<1>13. KeepingOK'
  <2>1. At("unlink") => job[lock].file \in rotated
    BY <1>2 DEF JobOK
  <2>2. \A l : current # NoFile /\ l \in ToSet(text[current]) => l \in ToSet(text'[current'])
    BY <1>5
  <2> QED
    BY <1>1, <1>2, <1>3, <1>4, <1>5, <2>1, <2>2 DEF KeepingOK
<1> QED
  BY <1>8, <1>10, <1>11, <1>12, <1>13 DEF LogInv

-----------------------------------------------------------------------------
(***************************************************************************)
(* The other commands, and the world around them.                          *)
(***************************************************************************)
LEMMA SyncInv == ASSUME LogInv, NEW p \in Procs, Sync(p) \/ Rotate(p) PROVE LogInv'
<1>1. DidTypes
  BY DEF LogInv, LogTypes, JobTypes
<1>2. ASSUME NEW op, ByHand(p, op)
      PROVE  pc[p] = "idle" /\ DidTypes' /\ did'.mishap >= did.mishap /\ did'.hand >= did.hand
  <2>1. DidTypes' /\ did'.mishap = did.mishap /\ did'.hand = did.hand + 1
        /\ did.mishap \in Nat /\ did.hand \in Nat /\ pc[p] = "idle"
    BY <1>1, <1>2, HandDid
  <2> QED
    BY <2>1
<1>3. CASE Rotate(p)
  BY <1>2, <1>3, OpenInv DEF Rotate
<1>4. CASE Sync(p) /\ ByHand(p, "sync")
  BY <1>2, <1>4, OpenInv DEF Sync
<1>5. CASE Sync(p) /\ pc[p] = "idle" /\ UNCHANGED did
  <2>1. DidTypes' /\ did'.mishap = did.mishap /\ did'.hand = did.hand
        /\ did.mishap \in Nat /\ did.hand \in Nat
    BY <1>1, <1>5, SameDid
  <2>2. did'.mishap >= did.mishap /\ did'.hand >= did.hand
    BY <2>1
  <2> QED
    BY <1>5, <2>1, <2>2, OpenInv DEF Sync
<1> QED
  BY <1>3, <1>4, <1>5 DEF Sync

\* run_backfill stores what no sync has stored, ahead of the sync that will.
LEMMA BackfillInv == ASSUME LogInv, NEW p \in Procs, Backfill(p) PROVE LogInv'
<1>1. PICK c \in registered :
        /\ detail' = [l \in Lines |-> IF l \in Missing(c) THEN detail[l] + 1 ELSE detail[l]]
        /\ early' = early \union {l \in Missing(c) : current # NoFile /\ l \in ToSet(Unread)}
  BY DEF Backfill
<1>2. /\ ByHand(p, "backfill") /\ lock = NoProc
      /\ UNCHANGED <<written, files, saved, windows, counted, alerts, nextId, setup, lock, pc, job,
                     reread, passed, late, behind, cut>>
  BY DEF Backfill
<1>3. LogTypes /\ LockTypes /\ FileTypes /\ RecordTypes /\ DidTypes /\ HistoryTypes /\ CountsOK
  BY DEF LogInv, LogTypes, JobTypes
<1>4. DidTypes' /\ did'.mishap = did.mishap /\ did'.hand = did.hand + 1
      /\ did.mishap \in Nat /\ did.hand \in Nat
  BY <1>2, <1>3, HandDid
<1>5. UNCHANGED <<text, current, open, rotated, archive, capture, registered, old>>
  BY <1>2 DEF files, setup
<1>6. (\A s : At(s)' <=> At(s)) /\ Known' = Known
  BY <1>2 DEF At, Known
<1>7. Missing(c) \subseteq Known /\ \A l \in Missing(c) : detail[l] = 0
  BY DEF Missing, Known
<1>8. \A l \in Lines : /\ detail[l] \in Nat
                       /\ l \in Missing(c) => detail'[l] = 1
                       /\ l \notin Missing(c) => detail'[l] = detail[l]
  BY <1>1, <1>3, <1>7, Numbers
<1>9. early \subseteq early' /\ early' \subseteq Known
      /\ \A l \in Missing(c) : l \in NotRead => l \in early'
  <2>1. current # NoFile => ToSet(Unread) = NotRead
    BY <1>3, UnreadIs
  <2>2. current = NoFile => NotRead = {}
    BY DEF NotRead
  <2>3. \A l \in Missing(c) : l \in NotRead => l \in early'
    BY <1>1, <2>1, <2>2
  <2> QED
    BY <1>1, <1>3, <1>7, <2>3 DEF HistoryTypes
<1>10. LogTypes'
  <2>1. FileTypes' /\ HistoryTypes' /\ LockTypes'
    BY <1>2, <1>3, <1>5, <1>6, <1>9 DEF FileTypes, HistoryTypes, LockTypes
  <2>2. detail' \in [Lines -> Nat]
    BY <1>1, <1>8
  <2>3. RecordTypes'
    BY <1>2, <1>3, <1>5, <2>2 DEF RecordTypes, Saved
  <2> QED
    BY <1>4, <2>1, <2>3 DEF LogTypes, JobTypes
<1>11. RowsOK'
  BY <1>2, <1>5, <1>6 DEF LogInv, RowsOK
<1>12. /\ JobOK' /\ WindowsOK' /\ IdsOK' /\ ReadingOK' /\ KeepingOK'
       /\ Calm /\ Ahead' = Ahead /\ Done' = Done
  <2>1. /\ did'.mishap >= did.mishap /\ did'.hand >= did.hand /\ registered' \subseteq registered
        /\ old' >= old
    BY <1>3, <1>4, <1>5, Bounds DEF RecordTypes, FileTypes
  <2>2. \A d \in registered' : alerts[d].id # 0 => alerts'[d].id # 0
    BY <1>2
  <2> QED
    BY <1>2, <1>6, <1>9, <1>10, <1>11, <2>1, <2>2, BesideInv
<1>13. CountsOK'
  <2>1. Done = {} /\ Ahead = NotRead
    BY <1>2, NoHolder
  <2> SUFFICES ASSUME NEW l \in Lines
               PROVE  /\ counted[l] <= did.mishap + 1 /\ detail'[l] <= did.mishap + (did.hand + 1) + 1
                      /\ counted[l] > 1 => l \in reread
                      /\ detail'[l] > 1 => l \in reread \union early'
                      /\ l \in NotRead =>
                           /\ counted[l] <= did.mishap /\ detail'[l] <= did.mishap + (did.hand + 1)
                           /\ counted[l] > 0 => l \in reread
                           /\ detail'[l] > 0 => l \in reread \union early'
                      /\ l \notin Known => counted[l] = 0 /\ detail'[l] = 0
    BY <1>2, <1>4, <1>6, <1>12, <2>1 DEF CountsOK
  <2>2. /\ counted[l] <= did.mishap + 1 /\ detail[l] <= did.mishap + did.hand + 1
        /\ counted[l] > 1 => l \in reread
        /\ detail[l] > 1 => l \in reread \union early
        /\ l \in NotRead =>
             /\ counted[l] <= did.mishap /\ detail[l] <= did.mishap + did.hand
             /\ counted[l] > 0 => l \in reread
             /\ detail[l] > 0 => l \in reread \union early
        /\ l \notin Known => counted[l] = 0 /\ detail[l] = 0
    BY <1>3, <2>1 DEF CountsOK
  <2>3. CASE l \in Missing(c)
    <3>1. detail'[l] = 1 /\ l \in Known /\ (l \in NotRead => l \in early')
      BY <1>7, <1>8, <1>9, <2>3
    <3> QED
      BY <1>4, <2>2, <3>1
  <2>4. CASE l \notin Missing(c)
    <3>1. detail'[l] = detail[l] /\ detail[l] \in Nat
      BY <1>8, <2>4
    <3> QED
      BY <1>4, <1>9, <2>2, <3>1
  <2> QED
    BY <2>3, <2>4
<1>14. SumsOK'
  <2>1. \A d \in Clients : alerts'[d].count <= alerts[d].count
    BY <1>2, <1>3 DEF RecordTypes, AlertRow
  <2> QED
    BY <1>2, <1>3, <1>10, <2>1, SumsKept DEF LogInv
<1> QED
  BY <1>10, <1>11, <1>12, <1>13, <1>14 DEF LogInv

\* enable_activity takes the lock, changes the mode ...
LEMMA EnableInv == ASSUME LogInv, NEW p \in Procs, Enable(p) PROVE LogInv'
<1>1. /\ ByHand(p, "enable") /\ lock = NoProc /\ lock' = p /\ capture' = registered
      /\ Goto(p, "enabling")
      /\ UNCHANGED <<written, files, saved, records, kit, registered, old, job,
                     reread, early, passed, late, behind, cut>>
  BY DEF Enable, Locked
<1>2. LogTypes /\ LockTypes /\ FileTypes /\ RecordTypes /\ DidTypes /\ HistoryTypes
      /\ KeepingOK /\ ReadingOK
  BY DEF LogInv, LogTypes, JobTypes
<1>3. DidTypes' /\ did'.mishap = did.mishap /\ did'.hand = did.hand + 1
      /\ did.mishap \in Nat /\ did.hand \in Nat /\ pc[p] = "idle"
  BY <1>1, <1>2, HandDid
<1>4. UNCHANGED <<text, current, open, rotated, archive, windows, counted, detail, alerts, nextId>>
  BY <1>1 DEF files, records
<1>5. /\ (\A s : ~ At(s)) /\ Todo = {} /\ Done = {} /\ Coming = {} /\ Ahead = NotRead
  BY <1>1, NoHolder
<1>6. job[p] = NoJob
  <2>1. p # lock
    BY <1>1, NoFileIsNone
  <2> QED
    BY <1>2, <2>1 DEF LockTypes
<1>7. /\ LockTypes' /\ (\A s : At(s)' <=> s = "enabling") /\ Todo' = {} /\ Done' = {}
  <2>1. job' = [job EXCEPT ![p] = NoJob] /\ "enabling" \in LockSteps
    BY <1>1, <1>2, <1>6 DEF LockTypes, LockSteps
  <2>2. /\ LockTypes' /\ (\A s : At(s)' <=> s = "enabling")
        /\ Todo' = ToSet(NoJob.todo) /\ Done' = NoJob.done
    BY <1>1, <1>2, <2>1, NoJobType, TakesHold
  <2> QED
    BY <2>2, NoJobType
<1>8. /\ Known' = Known /\ NotRead' = NotRead /\ UpTo(saved.off)' = UpTo(saved.off)
      /\ Coming' = {} /\ Ahead' = NotRead
  <2>1. NotRead' = NotRead /\ ~ At("record")'
    BY <1>1, <1>4, <1>7 DEF NotRead, Beyond, ReadTo
  <2> QED
    BY <1>1, <1>4, <1>7, <2>1 DEF Known, UpTo, Coming, Ahead
<1>9. LogTypes'
  <2>1. FileTypes' /\ HistoryTypes'
    BY <1>1, <1>2, <1>4, <1>8 DEF FileTypes, HistoryTypes
  <2>2. RecordTypes'
    BY <1>1, <1>2, <1>4 DEF RecordTypes, Saved
  <2> QED
    BY <1>3, <1>7, <2>1, <2>2 DEF LogTypes, JobTypes
<1>10. Calm
  <2>1. did'.mishap >= did.mishap /\ did'.hand >= did.hand
    BY <1>3
  <2> QED
    BY <1>1, <1>5, <1>7, <1>8, <2>1 DEF Calm
<1>11. CountsOK' /\ WindowsOK' /\ RowsOK' /\ IdsOK' /\ SumsOK'
  <2>1. ~ At("maintain")'
    BY <1>7
  <2> QED
    BY <1>1, <1>8, <1>9, <1>10, <2>1, RecordsQuiet
<1>12. JobOK'
  BY <1>7 DEF JobOK
<1>13. ReadingOK'
  <2>1. \A l : Seen(l)' <=> Seen(l)
    BY <1>1, <1>4 DEF Seen
  <2> QED
    BY <1>1, <1>2, <1>4, <1>5, <1>7, <1>8, <2>1 DEF ReadingOK
<1>14. KeepingOK'
  BY <1>1, <1>2, <1>4, <1>5, <1>7, <1>8 DEF KeepingOK
<1> QED
  BY <1>9, <1>11, <1>12, <1>13, <1>14 DEF LogInv

\* ... and jumps to the end of the file.
LEMMA EnablingInv == ASSUME LogInv, NEW p \in Procs, Enabling(p) PROVE LogInv'
<1>1. /\ pc[p] = "enabling" /\ End(p)
      /\ UNCHANGED <<written, files, records, setup, did, reread, early, late, behind, cut>>
  BY DEF Enabling
<1>2. LogTypes /\ LockTypes /\ FileTypes /\ RecordTypes /\ DidTypes /\ HistoryTypes
      /\ KeepingOK /\ ReadingOK /\ JobOK
  BY DEF LogInv, LogTypes, JobTypes
<1>3. /\ lock = p /\ lock # NoProc /\ (\A s : At(s) <=> pc[p] = s) /\ Done = {}
      /\ job[p].done = {}
  BY <1>1, AfterSync
<1>4. UNCHANGED <<text, current, open, rotated, archive, windows, registered, old>>
  BY <1>1 DEF files, records, setup
<1>5. Known' = Known
  BY <1>1 DEF Known
<1>6. /\ saved' \in Saved /\ saved'.ino = current /\ passed \subseteq passed' /\ passed' \subseteq Known
      /\ NotRead' = {}
      /\ current # NoFile =>
           /\ saved'.off = Len(text[current]) /\ Len(text[current]) \in Nat
           /\ passed' = passed \union NotRead
  <2>1. CASE current = NoFile
    <3>1. saved' = [ino |-> NoFile, off |-> 0] /\ passed' = passed
      BY <2>1 DEF Enabling
    <3>2. NotRead' = {}
      BY <1>4, <2>1 DEF NotRead
    <3> QED
      BY <1>2, <2>1, <3>1, <3>2, Bounds DEF Saved, HistoryTypes
  <2>2. CASE current # NoFile
    <3>1. saved' = [ino |-> current, off |-> Len(text[current])] /\ passed' = passed \union ToSet(Unread)
      BY <2>2 DEF Enabling
    <3>2. ToSet(Unread) = NotRead /\ NotRead \subseteq Known
      BY <1>2, <2>2, UnreadIs, AheadKnown
    <3>3. current \in Inodes /\ Len(text[current]) \in 0 .. MaxLines /\ Len(text[current]) \in Nat
      BY <1>2, <2>2, ReadToRange, Bounds
    <3>4. saved'.ino = current /\ saved'.off = Len(text[current]) /\ saved' \in Saved
      BY <3>1, <3>3 DEF Saved
    <3>5. NotRead' = {}
      <4>1. ReadTo' = Len(text[current])
        BY <1>4, <3>3, <3>4 DEF ReadTo
      <4>2. \A n \in Len(text[current]) + 1 .. Len(text[current]) : FALSE
        BY <3>3
      <4> QED
        BY <1>4, <2>2, <4>1, <4>2 DEF NotRead, Beyond
    <3> QED
      BY <1>2, <3>1, <3>2, <3>3, <3>4, <3>5 DEF HistoryTypes
  <2> QED
    BY <2>1, <2>2
<1>7. FileTypes' /\ HistoryTypes'
  BY <1>1, <1>2, <1>4, <1>5, <1>6 DEF FileTypes, HistoryTypes
<1>8. /\ LogTypes' /\ JobOK' /\ CountsOK' /\ WindowsOK' /\ RowsOK' /\ IdsOK' /\ SumsOK'
      /\ \A s : ~ At(s)'
  <2>1. DidTypes' /\ did'.mishap = did.mishap /\ did'.hand = did.hand
        /\ did.mishap \in Nat /\ did.hand \in Nat
    BY <1>1, <1>2, SameDid
  <2>2. did'.mishap >= did.mishap /\ did'.hand >= did.hand
    BY <2>1
  <2> QED
    BY <1>1, <1>3, <1>6, <1>7, <2>1, <2>2, Ends
<1>9. ReadingOK'
  <2> SUFFICES ASSUME ~ behind PROVE ReadingOK'
    BY <1>1 DEF ReadingOK
  <2>1. ASSUME current # NoFile, NEW n \in 1 .. Len(text[current]) PROVE Seen(text[current][n])'
    <3>1. Seen(text[current][n]) \/ text[current][n] \in NotRead
      BY <2>1, ReadOrNot
    <3>2. \A l : Seen(l) \/ l \in NotRead => Seen(l)'
      BY <1>1, <1>4, <1>6, <2>1 DEF Seen
    <3> QED
      BY <1>4, <3>1, <3>2
  <2>2. current # NoFile => \A l \in UpTo(saved.off)' : Seen(l)'
    BY <1>4, <1>6, <2>1 DEF UpTo, Seen
  <2> QED
    BY <1>4, <1>6, <1>8, <2>2 DEF ReadingOK
<1>10. KeepingOK'
  <2>1. open = current \/ cut
    BY <1>1, <1>2, <1>3 DEF KeepingOK
  <2> QED
    BY <1>1, <1>2, <1>4, <1>5, <1>8, <2>1 DEF KeepingOK
<1> QED
  BY <1>8, <1>9, <1>10 DEF LogInv

LEMMA NoChangeRows == ASSUME LogTypes, UNCHANGED alerts, RowsOK PROVE SameRows
<1>1. Len(written) \in Nat /\ \A c \in Clients : alerts[c].notified \in Nat
  BY Bounds DEF LogTypes, FileTypes, RecordTypes, AlertRow
<1>2. \A c \in Clients : alerts[c].notified <= Len(written)
  BY DEF RowsOK
<1> QED
  BY <1>1, <1>2 DEF SameRows

\* The settings, and the retention.
LEMMA SettingsInv == ASSUME LogInv, (\E p \in Procs : Capture(p)) \/ Age PROVE LogInv'
<1>1. LogTypes /\ LockTypes /\ FileTypes /\ RecordTypes /\ DidTypes /\ HistoryTypes /\ RowsOK
  BY DEF LogInv, LogTypes, JobTypes
<1>2. /\ UNCHANGED <<written, files, saved, records, kit, registered, lock, pc, job,
                     reread, early, passed, late, behind, cut>>
      /\ capture' \subseteq registered /\ old' \in 0 .. Len(written) /\ old' >= old
      /\ DidTypes' /\ did'.mishap >= did.mishap /\ did'.hand >= did.hand
  <2>1. Len(written) \in Nat /\ old \in 0 .. Len(written) /\ did.mishap \in Nat /\ did.hand \in Nat
    BY <1>1, Bounds, Numbers DEF FileTypes, RecordTypes
  <2>2. ASSUME NEW p \in Procs, Capture(p)
        PROVE  DidTypes' /\ did'.mishap >= did.mishap /\ did'.hand >= did.hand
    <3>1. DidTypes' /\ did'.mishap = did.mishap /\ did'.hand = did.hand + 1
      BY <1>1, <2>2, HandDid DEF Capture
    <3> QED
      BY <2>1, <3>1
  <2>3. CASE Age
    <3>1. did' = did /\ capture' = capture /\ old' = Len(written) /\ old < Len(written)
      BY <2>3 DEF Age, history
    <3>2. DidTypes' /\ did'.mishap >= did.mishap /\ did'.hand >= did.hand
      BY <1>1, <2>1, <3>1 DEF DidTypes
    <3> QED
      BY <1>1, <2>1, <2>3, <3>1, <3>2 DEF Age, history, RecordTypes
  <2>4. CASE \E p \in Procs : Capture(p)
    BY <2>1, <2>2, <2>4 DEF Capture
  <2> QED
    BY <2>3, <2>4
<1>3. UNCHANGED <<text, current, open, rotated, archive, windows, counted, detail, alerts, nextId>>
  BY <1>2 DEF files, records
<1>4. (\A s : At(s)' <=> At(s)) /\ Known' = Known
  BY <1>2 DEF At, Known
<1>5. LogTypes'
  <2>1. FileTypes' /\ HistoryTypes' /\ LockTypes'
    BY <1>1, <1>2, <1>3, <1>4 DEF FileTypes, HistoryTypes, LockTypes
  <2>2. RecordTypes'
    BY <1>1, <1>2, <1>3 DEF RecordTypes, Saved
  <2> QED
    BY <1>2, <2>1, <2>2 DEF LogTypes, JobTypes
<1>6. SameRows
  BY <1>1, <1>3, NoChangeRows
<1> QED
  BY <1>2, <1>3, <1>4, <1>5, <1>6, AsideInv

\* xray-client remove: the counters and the alert of the client go with it.
LEMMA RemoveInv == ASSUME LogInv, NEW c \in Clients, RemoveClient(c) PROVE LogInv'
<1>1. /\ c \in registered /\ registered' = registered \ {c}
      /\ counted' = [l \in Lines |-> IF l <= Len(written) /\ written[l] = c THEN 0 ELSE counted[l]]
      /\ detail' = [l \in Lines |-> IF l <= Len(written) /\ written[l] = c THEN 0 ELSE detail[l]]
      /\ alerts' = [alerts EXCEPT ![c] = NoAlert] /\ capture' = capture \ {c}
      /\ UNCHANGED <<written, files, saved, windows, nextId, kit, old, lock, pc, job, history>>
  BY DEF RemoveClient
<1>2. LogTypes /\ LockTypes /\ FileTypes /\ RecordTypes /\ DidTypes /\ HistoryTypes /\ RowsOK
  BY DEF LogInv, LogTypes, JobTypes
<1>3. UNCHANGED <<text, current, open, rotated, archive, did, reread, early, passed, late, behind, cut>>
  BY <1>1 DEF files, history
<1>4. (\A s : At(s)' <=> At(s)) /\ Known' = Known
  BY <1>1 DEF At, Known
<1>5. \A l \in Lines : /\ counted[l] \in Nat /\ detail[l] \in Nat
                       /\ counted'[l] \in {0, counted[l]} /\ detail'[l] \in {0, detail[l]}
                       /\ counted'[l] \in Nat /\ detail'[l] \in Nat
                       /\ counted'[l] <= counted[l] /\ detail'[l] <= detail[l]
  BY <1>1, <1>2, Numbers
<1>6. /\ NoAlert \in AlertRow /\ NoAlert.id = 0 /\ NoAlert.count = 0 /\ NoAlert.notified = 0
      /\ alerts'[c] = NoAlert /\ \A d \in Clients \ {c} : alerts'[d] = alerts[d]
  BY <1>1, <1>2 DEF NoAlert, AlertRow, RecordTypes
<1>7. LogTypes'
  <2>1. FileTypes' /\ HistoryTypes' /\ LockTypes' /\ DidTypes'
    BY <1>1, <1>2, <1>3, <1>4 DEF FileTypes, HistoryTypes, LockTypes, DidTypes
  <2>2. counted' \in [Lines -> Nat] /\ detail' \in [Lines -> Nat] /\ alerts' \in [Clients -> AlertRow]
    BY <1>1, <1>2, <1>5, <1>6 DEF RecordTypes
  <2>3. RecordTypes'
    BY <1>1, <1>2, <2>2 DEF RecordTypes, Saved
  <2> QED
    BY <2>1, <2>3 DEF LogTypes, JobTypes
<1>8. RowsOK'
  <2> SUFFICES ASSUME NEW d \in Clients
               PROVE  /\ alerts'[d].id < nextId
                      /\ alerts'[d].id = 0 => alerts'[d] = NoAlert
                      /\ alerts'[d].id # 0 => alerts'[d].first \in Known /\ alerts'[d].last \in Known
                      /\ alerts'[d].notified <= Len(written)
                      /\ d \notin registered' => alerts'[d].id = 0
                      /\ \A e \in Clients : alerts'[d].id = alerts'[e].id /\ alerts'[d].id # 0 => d = e
    BY <1>1, <1>4 DEF RowsOK
  <2>1. nextId \in Nat \ {0} /\ Len(written) \in Nat
    BY <1>2, Bounds DEF RecordTypes, FileTypes
  <2>2. CASE d = c
    BY <1>6, <2>1, <2>2
  <2>3. CASE d # c
    <3>1. alerts'[d] = alerts[d]
      BY <1>6, <2>3
    <3>2. \A e \in Clients : alerts'[d].id = alerts'[e].id /\ alerts'[d].id # 0 => d = e
      BY <1>2, <1>6, <3>1 DEF RowsOK
    <3> QED
      BY <1>1, <1>2, <2>3, <3>1, <3>2 DEF RowsOK
  <2> QED
    BY <2>2, <2>3
<1>9. /\ JobOK' /\ WindowsOK' /\ IdsOK' /\ ReadingOK' /\ KeepingOK' /\ Calm
  <2>1. /\ did'.mishap >= did.mishap /\ did'.hand >= did.hand /\ registered' \subseteq registered
        /\ old' >= old /\ early \subseteq early'
    BY <1>1, <1>2, <1>3, Bounds, Numbers DEF RecordTypes, FileTypes
  <2>2. \A d \in registered' : alerts[d].id # 0 => alerts'[d].id # 0
    BY <1>1, <1>2, <1>6 DEF RecordTypes
  <2> QED
    BY <1>1, <1>3, <1>4, <1>7, <1>8, <2>1, <2>2, BesideInv
<1>10. CountsOK'
  BY <1>2, <1>5, <1>7, <1>9, CountsCalm DEF LogInv
<1>11. SumsOK'
  <2> SUFFICES ASSUME NEW d \in Clients
               PROVE  alerts'[d].count <= SumFunctionOnSet(CountsOf(d), Lines)'
    BY DEF SumsOK
  <2>1. SumFunctionOnSet(CountsOf(d), Lines)' = SumFunctionOnSet(CountsOf(d)', Lines)
    BY DEF Lines
  <2>2. CASE d = c
    <3>1. IsFiniteSet(Lines) /\ \A l \in Lines : CountsOf(d)'[l] \in Nat
      BY <1>5, <1>4, Bounds, FS_Interval DEF CountsOf, Lines
    <3>2. SumFunctionOnSet(CountsOf(d)', Lines) \in Nat
      BY <3>1, SumNat
    <3> QED
      BY <1>6, <2>1, <2>2, <3>2
  <2>3. CASE d # c
    <3>1. \A l \in Lines : l \in Known /\ written[l] = d => counted'[l] = counted[l]
      BY <1>1, <2>3
    <3>2. CountsOf(d)' = CountsOf(d)
      BY <1>1, <1>4, <3>1 DEF CountsOf, Lines
    <3> QED
      BY <1>6, <2>1, <2>3, <3>2 DEF LogInv, SumsOK
  <2> QED
    BY <2>2, <2>3
<1> QED
  BY <1>7, <1>8, <1>9, <1>10, <1>11 DEF LogInv

\* Xray writes one more line, which nobody has heard of.
LEMMA WriteInv == ASSUME LogInv, Write PROVE LogInv'
<1> DEFINE l == Len(written) + 1
           t == text[open]
<1>1. PICK c \in Clients : written' = Append(written, c)
  BY DEF Write
<1>2. /\ Len(written) < MaxLines
      /\ text' = [text EXCEPT ![open] = Append(@, Len(written'))]
      /\ late' = IF open # current /\ (Rotating \/ cut) THEN late \union {Len(written')} ELSE late
      /\ UNCHANGED <<current, open, rotated, archive, saved, records, setup, lock, pc, job,
                     did, reread, early, passed, behind, cut>>
  BY DEF Write
<1>3. LogTypes /\ LockTypes /\ FileTypes /\ RecordTypes /\ DidTypes /\ HistoryTypes /\ JobOK
      /\ CountsOK /\ WindowsOK /\ RowsOK /\ IdsOK /\ SumsOK /\ ReadingOK /\ KeepingOK
  BY DEF LogInv, LogTypes, JobTypes
<1>4. UNCHANGED <<saved, windows, counted, detail, alerts, nextId, capture, registered, old>>
  BY <1>2 DEF records, setup
<1>5. /\ written \in Seq(Clients) /\ written' \in Seq(Clients) /\ Len(written') = l
      /\ Len(written) \in Nat /\ l \in Lines /\ l \in Nat
      /\ \A n \in 1 .. Len(written) : written'[n] = written[n]
  <2>1. written \in Seq(Clients) /\ Len(written) \in 0 .. MaxLines
    BY <1>3 DEF FileTypes
  <2>2. /\ written' \in Seq(Clients) /\ Len(written') = Len(written) + 1
        /\ \A n \in 1 .. Len(written) : written'[n] = written[n]
    BY <1>1, <2>1, AppendProperties
  <2> QED
    BY <1>2, <2>1, <2>2, Bounds DEF Lines
<1> HIDE DEF l
<1>6. /\ Known' = Known \union {l} /\ l \notin Known /\ Known \subseteq Lines
      /\ \A n \in Known : written'[n] = written[n] /\ n < l /\ n \in Nat
  <2>1. Known' = 1 .. l /\ Known = 1 .. Len(written) /\ l = Len(written) + 1
    BY <1>5 DEF Known, l
  <2>2. \A k \in Nat : 1 .. k + 1 = (1 .. k) \union {k + 1} /\ k + 1 \notin 1 .. k
    OBVIOUS
  <2>3. Known' = Known \union {l} /\ l \notin Known
    BY <1>5, <2>1, <2>2
  <2>4. Known \subseteq Lines
    BY <1>2, <1>5, <2>1, Bounds DEF Lines
  <2>5. \A n \in Known : n < l /\ n \in Nat
    BY <1>5, <2>1
  <2> QED
    BY <1>5, <2>1, <2>3, <2>4, <2>5
<1>7. /\ open \in Inodes /\ text \in [Inodes -> Seq(Lines)] /\ t \in Seq(Lines) /\ Rising(t)
      /\ ToSet(t) \subseteq Known /\ Len(t) \in Nat /\ Len(t) <= Len(written)
  BY <1>3 DEF FileTypes
<1>8. /\ text' \in [Inodes -> Seq(Lines)] /\ Rising(text'[open])
      /\ Len(text'[open]) = Len(t) + 1
      /\ ToSet(text'[open]) = ToSet(t) \union {l}
      /\ \A n \in 1 .. Len(t) : text'[open][n] = t[n]
      /\ text'[open][Len(t) + 1] = l
      /\ \A i \in Inodes : i # open => text'[i] = text[i]
  <2>1. \A m \in ToSet(t) : m < l
    BY <1>6, <1>7
  <2>2. text'[open] = Append(t, l) /\ \A i \in Inodes : i # open => text'[i] = text[i]
    BY <1>2, <1>5, <1>7
  <2>3. text' = [text EXCEPT ![open] = Append(t, l)]
    BY <1>2, <1>5
  <2> HIDE DEF t
  <2>4. /\ Append(t, l) \in Seq(Lines) /\ Rising(Append(t, l))
        /\ Len(Append(t, l)) = Len(t) + 1
        /\ ToSet(Append(t, l)) = ToSet(t) \union {l}
        /\ \A n \in 1 .. Len(t) : Append(t, l)[n] = t[n]
        /\ Append(t, l)[Len(t) + 1] = l
    BY <1>5, <1>7, <2>1, AppendRising
  <2>5. text' \in [Inodes -> Seq(Lines)]
    BY <1>7, <2>3, <2>4
  <2> QED
    BY <2>2, <2>4, <2>5
<1>9. (\A s : At(s)' <=> At(s)) /\ Todo' = Todo /\ Done' = Done
  BY <1>2 DEF At, Todo, Done
<1>10. \A i \in Inodes : /\ \A n \in 1 .. Len(text[i]) : text'[i][n] = text[i][n]
                         /\ Len(text[i]) \in Nat /\ Len(text'[i]) \in Nat
                         /\ Len(text[i]) <= Len(text'[i]) /\ Len(text'[i]) <= l
                         /\ ToSet(text[i]) \subseteq ToSet(text'[i])
                         /\ \A n \in Len(text[i]) + 1 .. Len(text'[i]) : text'[i][n] = l
  <2> SUFFICES ASSUME NEW i \in Inodes
               PROVE  /\ \A n \in 1 .. Len(text[i]) : text'[i][n] = text[i][n]
                      /\ Len(text[i]) \in Nat /\ Len(text'[i]) \in Nat
                      /\ Len(text[i]) <= Len(text'[i]) /\ Len(text'[i]) <= l
                      /\ ToSet(text[i]) \subseteq ToSet(text'[i])
                      /\ \A n \in Len(text[i]) + 1 .. Len(text'[i]) : text'[i][n] = l
    OBVIOUS
  <2>1. CASE i = open
    BY <1>5, <1>7, <1>8, <2>1 DEF l
  <2>2. CASE i # open
    <3>1. text'[i] = text[i] /\ Len(text[i]) \in Nat /\ Len(text[i]) <= Len(written)
      BY <1>3, <1>7, <1>8, <2>2 DEF FileTypes
    <3>2. \A n \in Len(text[i]) + 1 .. Len(text[i]) : FALSE
      BY <3>1
    <3> QED
      BY <1>5, <3>1, <3>2 DEF l
  <2> QED
    BY <2>1, <2>2
<1>11. FileTypes'
  <2>1. Len(written') \in 0 .. MaxLines
    BY <1>5, Bounds DEF Lines
  <2>2. \A i \in Inodes :
          Len(text'[i]) <= Len(written') /\ Rising(text'[i]) /\ ToSet(text'[i]) \subseteq Known'
    <3> SUFFICES ASSUME NEW i \in Inodes
                 PROVE  /\ Len(text'[i]) <= Len(written') /\ Rising(text'[i])
                        /\ ToSet(text'[i]) \subseteq Known'
      OBVIOUS
    <3>1. CASE i = open
      BY <1>5, <1>6, <1>7, <1>8, <1>10, <3>1
    <3>2. CASE i # open
      BY <1>3, <1>5, <1>6, <1>8, <1>10, <3>2 DEF FileTypes
    <3> QED
      BY <3>1, <3>2
  <2>3. archive' \subseteq SUBSET Known'
    BY <1>2, <1>3, <1>6 DEF FileTypes
  <2> QED
    BY <1>2, <1>3, <1>5, <1>8, <2>1, <2>2, <2>3 DEF FileTypes
<1>12. LogTypes'
  <2>1. HistoryTypes'
    BY <1>2, <1>3, <1>5, <1>6 DEF HistoryTypes
  <2>2. RecordTypes'
    <3>1. old' \in 0 .. Len(written')
      BY <1>3, <1>4, <1>5 DEF RecordTypes, l
    <3> QED
      BY <1>3, <1>4, <3>1 DEF RecordTypes, Saved
  <2>3. LockTypes' /\ DidTypes'
    BY <1>2, <1>3 DEF LockTypes, DidTypes
  <2> QED
    BY <1>11, <2>1, <2>2, <2>3 DEF LogTypes, JobTypes
<1>13. /\ \A off \in Nat : current # NoFile /\ off <= Len(text[current]) =>
             UpTo(off)' = UpTo(off) /\ Beyond(off)' \subseteq Beyond(off) \union {l}
  <2> SUFFICES ASSUME NEW off \in Nat, current # NoFile, off <= Len(text[current])
               PROVE  UpTo(off)' = UpTo(off) /\ Beyond(off)' \subseteq Beyond(off) \union {l}
    OBVIOUS
  <2>1. /\ current \in Inodes /\ current' = current
        /\ \A n \in 1 .. Len(text[current]) : text'[current][n] = text[current][n]
        /\ \A n \in Len(text[current]) + 1 .. Len(text'[current]) : text'[current][n] = l
        /\ Len(text[current]) \in Nat /\ Len(text'[current]) \in Nat
    BY <1>2, <1>3, <1>10 DEF FileTypes
  <2>2. \A n \in 1 .. off : n \in 1 .. Len(text[current])
    BY <2>1
  <2>3. \A n \in off + 1 .. Len(text'[current]) :
          \/ n \in Len(text[current]) + 1 .. Len(text'[current])
          \/ n \in off + 1 .. Len(text[current]) /\ n \in 1 .. Len(text[current])
    BY <2>1
  <2> QED
    BY <2>1, <2>2, <2>3 DEF UpTo, Beyond
<1>14. NotRead' \subseteq NotRead \union {l}
  <2> SUFFICES ASSUME current # NoFile PROVE NotRead' \subseteq NotRead \union {l}
    BY <1>2 DEF NotRead
  <2>1. ReadTo \in Nat /\ ReadTo <= Len(text[current])
    BY <1>3, ReadToRange
  <2>2. Beyond(ReadTo)' = {text'[current][n] : n \in ReadTo' + 1 .. Len(text'[current])}
    BY <1>2 DEF Beyond
  <2>3. current \in Inodes /\ Len(text[current]) \in Nat /\ Len(text[current]) <= Len(text'[current])
        /\ Len(text'[current]) \in Nat
    BY <1>3, <1>10 DEF FileTypes
  <2>4. ReadTo' \in Nat /\ ReadTo' >= ReadTo
    <3>1. saved.off \in Nat
      BY <1>3, Bounds DEF RecordTypes, Saved
    <3> QED
      BY <1>2, <2>3, <3>1 DEF ReadTo
  <2>5. {text'[current][n] : n \in ReadTo' + 1 .. Len(text'[current])}
           \subseteq {text'[current][n] : n \in ReadTo + 1 .. Len(text'[current])}
    <3>1. \A n \in ReadTo' + 1 .. Len(text'[current]) : n \in ReadTo + 1 .. Len(text'[current])
      <4>1. \A a, b, k \in Nat : b >= a => \A n \in b + 1 .. k : n \in a + 1 .. k
        OBVIOUS
      <4> QED
        BY ONLY <2>1, <2>3, <2>4, <4>1
    <3> QED
      BY <3>1
  <2>6. {text'[current][n] : n \in ReadTo + 1 .. Len(text'[current])} \subseteq Beyond(ReadTo) \union {l}
    <3>1. \A n \in 1 .. Len(text[current]) : text'[current][n] = text[current][n]
      BY <1>10, <2>3
    <3>2. \A n \in Len(text[current]) + 1 .. Len(text'[current]) : text'[current][n] = l
      BY <1>10, <2>3
    <3>3. \A n \in ReadTo + 1 .. Len(text'[current]) :
            \/ n \in Len(text[current]) + 1 .. Len(text'[current])
            \/ n \in ReadTo + 1 .. Len(text[current]) /\ n \in 1 .. Len(text[current])
      BY <2>1, <2>3
    <3> QED
      BY <3>1, <3>2, <3>3 DEF Beyond
  <2>7. NotRead' = {text'[current][n] : n \in ReadTo' + 1 .. Len(text'[current])}
    BY <1>2, <2>2 DEF NotRead
  <2>8. NotRead = Beyond(ReadTo)
    BY DEF NotRead
  <2> QED
    BY <2>5, <2>6, <2>7, <2>8
<1>15. At("record") => /\ current # NoFile /\ job[lock].saved.off \in Nat
                       /\ job[lock].saved.off <= Len(text[current])
                       /\ UpTo(job[lock].saved.off)' = UpTo(job[lock].saved.off)
                       /\ Beyond(job[lock].saved.off)' \subseteq Beyond(job[lock].saved.off) \union {l}
  <2> SUFFICES ASSUME At("record")
               PROVE  /\ current # NoFile /\ job[lock].saved.off \in Nat
                      /\ job[lock].saved.off <= Len(text[current])
                      /\ UpTo(job[lock].saved.off)' = UpTo(job[lock].saved.off)
                      /\ Beyond(job[lock].saved.off)' \subseteq Beyond(job[lock].saved.off) \union {l}
    OBVIOUS
  <2> DEFINE off == job[lock].saved.off
  <2>1. Recording /\ off \in Nat
    BY <1>3, Bounds DEF JobOK, At, LockTypes, Jobs, Saved
  <2>2. current # NoFile /\ off <= Len(text[current])
    BY <2>1 DEF Recording
  <2>3. UpTo(off)' = {text'[current'][n] : n \in 1 .. off}
    BY <1>2 DEF UpTo
  <2>4. job'[lock'].saved.off = off
    BY <1>2
  <2> HIDE DEF off
  <2>5. UpTo(off) = {text[current][n] : n \in 1 .. off} /\ current \in Inodes /\ current' = current
    BY <1>2, <1>3, <2>2 DEF UpTo, FileTypes
  <2>6. \A n \in 1 .. off : text'[current][n] = text[current][n]
    BY <1>10, <2>1, <2>2, <2>5
  <2>7. {text'[current'][n] : n \in 1 .. off} = UpTo(off)
    BY <2>5, <2>6
  <2>8. {text'[current'][n] : n \in off + 1 .. Len(text'[current'])} \subseteq Beyond(off) \union {l}
    <3>1. /\ \A n \in Len(text[current]) + 1 .. Len(text'[current]) : text'[current][n] = l
          /\ \A n \in 1 .. Len(text[current]) : text'[current][n] = text[current][n]
          /\ Len(text[current]) \in Nat /\ Len(text'[current]) \in Nat
      BY <1>10, <2>5
    <3>2. \A n \in off + 1 .. Len(text'[current]) :
            \/ n \in Len(text[current]) + 1 .. Len(text'[current])
            \/ n \in off + 1 .. Len(text[current]) /\ n \in 1 .. Len(text[current])
      BY <2>1, <3>1
    <3> QED
      BY <2>5, <3>1, <3>2 DEF Beyond
  <2>9. Beyond(job[lock].saved.off)' = {text'[current'][n] : n \in off + 1 .. Len(text'[current'])}
    BY <2>4 DEF Beyond
  <2>10. UpTo(job[lock].saved.off)' = {text'[current'][n] : n \in 1 .. off}
    BY <2>4 DEF UpTo
  <2> QED
    BY <2>1, <2>2, <2>7, <2>8, <2>9, <2>10 DEF off
<1>16. Ahead' \subseteq Ahead \union {l} /\ Coming' \subseteq Coming \union {l}
  <2>1. Coming' \subseteq Coming \union {l}
    BY <1>9, <1>15 DEF Coming
  <2> QED
    BY <1>9, <1>14, <2>1 DEF Ahead
<1>17. /\ Done \subseteq Known /\ reread \subseteq Known /\ l \notin Done /\ l \notin reread
       /\ counted[l] = 0 /\ detail[l] = 0 /\ windows[l] = 0
  <2>1. Done \subseteq Known
    BY <1>3, AheadKnown
  <2> QED
    BY <1>3, <1>5, <1>6, <2>1 DEF HistoryTypes, CountsOK, WindowsOK
<1>18. JobOK'
  <2>1. At("record") => Recording'
    BY <1>2, <1>3, <1>4, <1>9, <1>10, <1>15 DEF JobOK, Recording, FileTypes
  <2> QED
    BY <1>2, <1>3, <1>9, <2>1 DEF JobOK
<1>19. CountsOK'
  <2> SUFFICES ASSUME NEW m \in Lines
               PROVE  /\ counted[m] <= did.mishap + 1 /\ detail[m] <= did.mishap + did.hand + 1
                      /\ counted[m] > 1 => m \in reread
                      /\ detail[m] > 1 => m \in reread \union early
                      /\ m \in Ahead' \ Done =>
                           /\ counted[m] <= did.mishap /\ detail[m] <= did.mishap + did.hand
                           /\ counted[m] > 0 => m \in reread
                           /\ detail[m] > 0 => m \in reread \union early
                      /\ m \notin Known' => counted[m] = 0 /\ detail[m] = 0
    BY <1>2, <1>4, <1>9 DEF CountsOK
  <2>1. CASE m = l
    <3>1. did.mishap \in Nat /\ did.hand \in Nat
      BY <1>3, Numbers
    <3> QED
      BY <1>17, <2>1, <3>1
  <2>2. CASE m # l
    BY <1>3, <1>6, <1>16, <2>2 DEF CountsOK
  <2> QED
    BY <2>1, <2>2
<1>20. WindowsOK'
  <2> SUFFICES ASSUME NEW m \in Lines
               PROVE  windows[m] <= 1 /\ (m \in Ahead' \union Done \/ m \notin Known' => windows[m] = 0)
    BY <1>4, <1>9 DEF WindowsOK
  <2> QED
    BY <1>3, <1>6, <1>16, <1>17 DEF WindowsOK
<1>21. RowsOK'
  <2> SUFFICES ASSUME NEW d \in Clients
               PROVE  /\ alerts[d].id < nextId
                      /\ alerts[d].id = 0 => alerts[d] = NoAlert
                      /\ alerts[d].id # 0 => alerts[d].first \in Known' /\ alerts[d].last \in Known'
                      /\ alerts[d].notified <= Len(written')
                      /\ d \notin registered => alerts[d].id = 0
                      /\ \A e \in Clients : alerts[d].id = alerts[e].id /\ alerts[d].id # 0 => d = e
    BY <1>4 DEF RowsOK
  <2>1. alerts[d].notified \in Nat /\ alerts[d].notified <= Len(written) /\ Len(written') = Len(written) + 1
    BY <1>3, <1>5 DEF RecordTypes, AlertRow, RowsOK, l
  <2>2. alerts[d].notified <= Len(written')
    BY <1>5, <2>1
  <2> QED
    BY <1>3, <1>6, <2>2 DEF RowsOK
<1>22. IdsOK'
  <2>1. Used \subseteq Used'
    BY <1>2, <1>6, <1>9, <1>16 DEF Used
  <2>2. IsFiniteSet(Used')
    <3>1. Used' \subseteq Known' /\ Known' = 1 .. l
      BY <1>5 DEF Used, Known
    <3>2. IsFiniteSet(Known')
      BY <1>5, <3>1, FS_Interval
    <3> QED
      BY <3>1, <3>2, FS_Subset
  <2> DEFINE a == Cardinality(Used)
             b == Cardinality(Used')
  <2>3. a \in Nat /\ b \in Nat /\ a <= b
    BY <2>1, <2>2, FS_Subset, FS_CardinalityType
  <2>4. nextId - 1 <= a /\ nextId \in Nat /\ nextId' = nextId
    BY <1>3, <1>4 DEF IdsOK, RecordTypes
  <2> HIDE DEF a, b
  <2>5. nextId' - 1 <= b
    BY <2>3, <2>4
  <2>6. Again' \subseteq Again /\ Again \subseteq Known
    BY <1>2, <1>9, <1>16, <1>17 DEF Again
  <2>7. \A m \in Again' : written'[m] \in registered' => alerts'[written'[m]].id # 0
    BY <1>3, <1>4, <1>6, <2>6 DEF IdsOK
  <2>8. At("maintain")' => Again' = {}
    BY <1>3, <1>9, <2>6 DEF IdsOK
  <2>9. Coming' \intersect reread' = {}
    BY <1>2, <1>3, <1>16, <1>17 DEF IdsOK
  <2> QED
    BY <2>5, <2>7, <2>8, <2>9 DEF IdsOK, b
<1>23. SumsOK'
  <2> SUFFICES ASSUME NEW d \in Clients
               PROVE  alerts'[d].count <= SumFunctionOnSet(CountsOf(d), Lines)'
    BY DEF SumsOK
  <2>1. \A m \in Lines : CountsOf(d)'[m] = CountsOf(d)[m]
    <3> SUFFICES ASSUME NEW m \in Lines
                 PROVE  (IF m \in Known' /\ written'[m] = d THEN counted'[m] ELSE 0) =
                        (IF m \in Known /\ written[m] = d THEN counted[m] ELSE 0)
      BY DEF CountsOf, Lines
    <3>1. CASE m = l
      BY <1>4, <1>6, <1>17, <3>1
    <3>2. CASE m # l
      BY <1>4, <1>6, <3>2
    <3> QED
      BY <3>1, <3>2
  <2>2. CountsOf(d)' = CountsOf(d)
    BY <2>1 DEF CountsOf, Lines
  <2>3. SumFunctionOnSet(CountsOf(d), Lines)' = SumFunctionOnSet(CountsOf(d), Lines)
    BY <2>2 DEF Lines
  <2> QED
    BY <1>3, <1>4, <2>3 DEF SumsOK
<1>24. \A m \in Known : Seen(m) => Seen(m)'
  BY <1>2, <1>4, <1>6 DEF Seen
<1>25. ReadingOK'
  <2> SUFFICES ASSUME ~ behind PROVE ReadingOK'
    BY <1>2 DEF ReadingOK
  <2>1. /\ \/ saved.ino \in {NoFile, current} \union rotated
           \/ current # NoFile /\ ~ At("maintain") /\ ~ At("rename") /\ ~ At("create")
        /\ saved.ino = current /\ saved.ino # NoFile =>
             saved.off <= Len(text[current]) /\ \A m \in UpTo(saved.off) : Seen(m)
        /\ At("record") => \A m \in UpTo(job[lock].saved.off) : Seen(m) \/ m \in Todo \union Done
    BY <1>3 DEF ReadingOK
  <2>2. ASSUME NEW off \in Nat, current # NoFile, off <= Len(text[current]) PROVE UpTo(off) \subseteq Known
    <3>1. \A n \in 1 .. Len(text[current]) : text[current][n] \in Known
      BY <1>3, <2>2 DEF FileTypes, ToSet
    <3>2. \A n \in 1 .. off : n \in 1 .. Len(text[current])
      BY <1>3, <1>10, <2>2 DEF FileTypes
    <3> QED
      BY <3>1, <3>2 DEF UpTo
  <2>3. ASSUME saved.ino = current, saved.ino # NoFile
        PROVE  saved.off <= Len(text'[current]) /\ \A m \in UpTo(saved.off)' : Seen(m)'
    <3>1. saved.off \in Nat /\ saved.off <= Len(text[current]) /\ current \in Inodes
      BY <1>3, <2>1, <2>3, Bounds DEF RecordTypes, Saved, FileTypes
    <3>2. UpTo(saved.off) \subseteq Known
      BY <2>2, <2>3, <3>1
    <3>3. UpTo(saved.off)' = UpTo(saved.off)
      <4>1. \A n \in 1 .. saved.off : text'[current][n] = text[current][n]
        BY <1>10, <3>1
      <4> QED
        BY <1>2, <4>1 DEF UpTo
    <3>4. saved.off <= Len(text'[current])
      BY <1>10, <3>1
    <3> QED
      BY <1>24, <2>1, <2>3, <3>2, <3>3, <3>4
  <2>4. ASSUME At("record")
        PROVE  \A m \in UpTo(job[lock].saved.off)' : Seen(m)' \/ m \in Todo' \union Done'
    <3>1. UpTo(job[lock].saved.off) \subseteq Known
      BY <1>15, <2>2, <2>4
    <3> QED
      BY <1>9, <1>15, <1>24, <2>1, <2>4, <3>1
  <2> QED
    BY <1>2, <1>9, <2>1, <2>3, <2>4 DEF ReadingOK
<1>26. KeepingOK'
  <2>1. late \subseteq late'
    BY <1>2
  <2>2. open # current => l \in late'
    <3> SUFFICES ASSUME open # current PROVE l \in late'
      OBVIOUS
    <3>1. cut \/ At("create") \/ At("pack") \/ At("unlink") \/ At("reopen")
      BY <1>3 DEF KeepingOK
    <3>2. Rotating \/ cut
      <4>1. lock # NoProc => lock \in Procs
        BY <1>3 DEF LockTypes
      <4> QED
        BY <3>1, <4>1 DEF At, Rotating
    <3> QED
      BY <1>2, <1>5, <3>2
  <2>3. ASSUME At("unlink") PROVE \A m \in ToSet(text'[job[lock].file]) : m \in late' \union UNION archive
    <3>1. job[lock].file \in rotated /\ job[lock].file \in Inodes /\ job[lock].file # current
      BY <1>3, <2>3 DEF JobOK, FileTypes
    <3>2. \A m \in ToSet(text[job[lock].file]) : m \in late \union UNION archive
      BY <1>3, <2>3 DEF KeepingOK
    <3>3. CASE job[lock].file = open
      BY <1>8, <2>1, <2>2, <3>1, <3>2, <3>3
    <3>4. CASE job[lock].file # open
      BY <1>8, <2>1, <3>1, <3>2, <3>4
    <3> QED
      BY <3>3, <3>4
  <2>4. \A m \in Known' :
          m > old => \/ m \in late'
                     \/ current # NoFile /\ m \in ToSet(text'[current])
                     \/ \E i \in rotated : m \in ToSet(text'[i])
                     \/ m \in UNION archive
    <3> SUFFICES ASSUME NEW m \in Known', m > old, m \notin late', m \notin UNION archive
                 PROVE  \/ current # NoFile /\ m \in ToSet(text'[current])
                        \/ \E i \in rotated : m \in ToSet(text'[i])
      OBVIOUS
    <3>1. CASE m = l
      <4>1. open = current /\ current # NoFile
        BY <1>7, <2>2, <3>1, NoFileIsNone
      <4> QED
        BY <1>8, <3>1, <4>1
    <3>2. CASE m # l
      <4>1. \/ current # NoFile /\ m \in ToSet(text[current])
            \/ \E i \in rotated : m \in ToSet(text[i])
        BY <1>3, <1>6, <2>1, <3>2 DEF KeepingOK
      <4>2. (current # NoFile => current \in Inodes) /\ rotated \subseteq Inodes
        BY <1>3 DEF FileTypes
      <4> QED
        BY <1>10, <4>1, <4>2
    <3> QED
      BY <3>1, <3>2
  <2> QED
    BY <1>2, <1>3, <1>4, <1>9, <2>3, <2>4 DEF KeepingOK
<1> QED
  BY <1>12, <1>18, <1>19, <1>20, <1>21, <1>22, <1>23, <1>25, <1>26 DEF LogInv

-----------------------------------------------------------------------------
LEMMA LogInitInv == LogInit => LogInv
<1> SUFFICES ASSUME LogInit PROVE LogInv
  OBVIOUS
<1>1. /\ written = <<>> /\ text = [i \in Inodes |-> <<>>] /\ current = (CHOOSE i \in Inodes : TRUE)
      /\ open = current /\ rotated = {} /\ archive = {} /\ saved = [ino |-> NoFile, off |-> 0]
      /\ windows = None /\ counted = None /\ detail = None /\ alerts = [c \in Clients |-> NoAlert]
      /\ nextId = 1 /\ capture = (IF "enable" \in kit THEN {} ELSE Clients) /\ registered = Clients
      /\ old = 0 /\ lock = NoProc /\ pc = [p \in Procs |-> "idle"] /\ job = [p \in Procs |-> NoJob]
      /\ did = [hand |-> 0, mishap |-> 0]
      /\ reread = {} /\ early = {} /\ passed = {} /\ late = {} /\ behind = FALSE /\ cut = FALSE
  BY DEF LogInit
<1>2. current \in Inodes /\ current # NoFile /\ Len(written) = 0 /\ Known = {}
  <2>1. current \in Inodes
    BY <1>1, ActivityAssumption
  <2>2. Len(written) = 0
    BY <1>1
  <2> QED
    BY <2>1, <2>2, NoFileIsNone DEF Known
<1>3. \A i \in Inodes : text[i] = <<>> /\ text[i] \in Seq(Lines) /\ Len(text[i]) = 0
                        /\ ToSet(text[i]) = {} /\ Rising(text[i])
  <2>1. <<>> \in Seq(Lines) /\ Len(<<>>) = 0 /\ ToSet(<<>>) = {} /\ Rising(<<>>)
    BY EmptySeq DEF ToSet, Rising
  <2> QED
    BY <1>1, <2>1
<1>4. FileTypes
  <2>1. written \in Seq(Clients)
    BY <1>1, EmptySeq
  <2>2. text \in [Inodes -> Seq(Lines)]
    BY <1>1, <1>3
  <2> QED
    BY <1>1, <1>2, <1>3, <2>1, <2>2, Bounds DEF FileTypes
<1>5. NoAlert \in AlertRow /\ NoAlert.id = 0 /\ NoAlert.notified = 0 /\ NoAlert.count = 0
  BY DEF NoAlert, AlertRow
<1>6. RecordTypes
  <2>1. saved \in Saved
    BY <1>1, Bounds DEF Saved
  <2>2. None \in [Lines -> Nat]
    BY NoJobType
  <2>3. alerts \in [Clients -> AlertRow]
    BY <1>1, <1>5
  <2>4. capture \subseteq registered
    BY <1>1
  <2> QED
    BY <1>1, <1>2, <2>1, <2>2, <2>3, <2>4 DEF RecordTypes
<1>7. JobTypes /\ HistoryTypes
  <2>1. "idle" \in FreeSteps /\ "idle" \notin LockSteps
    BY DEF FreeSteps, LockSteps
  <2>2. \A p \in Procs : p # NoProc
    BY NoFileIsNone
  <2>3. LockTypes
    BY <1>1, <2>1, <2>2, NoJobType DEF LockTypes
  <2>4. DidTypes
    BY <1>1, Bounds DEF DidTypes
  <2> QED
    BY <1>1, <2>3, <2>4 DEF JobTypes, HistoryTypes
<1>8. /\ \A s : ~ At(s)
      /\ Todo = {} /\ Done = {} /\ Coming = {} /\ Ahead = NotRead
  BY <1>1, NoHolder
<1>9. NotRead = {}
  <2>1. ReadTo = 0
    BY <1>1, <1>2 DEF ReadTo
  <2>2. \A n \in 0 + 1 .. Len(text[current]) : FALSE
    BY <1>2, <1>3
  <2> QED
    BY <1>2, <2>1, <2>2 DEF NotRead, Beyond
<1>10. JobOK /\ ReadingOK /\ KeepingOK
  <2>1. saved.ino = NoFile
    BY <1>1
  <2> QED
    BY <1>1, <1>2, <1>8, <2>1 DEF JobOK, ReadingOK, KeepingOK
<1>11. CountsOK /\ WindowsOK
  <2>1. \A l \in Lines : counted[l] = 0 /\ detail[l] = 0 /\ windows[l] = 0
    BY <1>1 DEF None
  <2>2. did.mishap = 0 /\ did.hand = 0
    BY <1>1
  <2> QED
    BY <1>8, <1>9, <2>1, <2>2 DEF CountsOK, WindowsOK
<1>12. RowsOK
  <2>1. \A c \in Clients : alerts[c] = NoAlert
    BY <1>1
  <2> QED
    BY <1>1, <1>2, <1>5, <2>1 DEF RowsOK
<1>13. IdsOK
  <2>1. Used = {} /\ Again = {}
    BY <1>2, <1>8, <1>9 DEF Used, Again
  <2>2. Cardinality(Used) = 0
    BY <2>1, FS_EmptySet
  <2> QED
    BY <1>1, <1>8, <2>1, <2>2 DEF IdsOK
<1>14. SumsOK
  <2> SUFFICES ASSUME NEW c \in Clients PROVE alerts[c].count <= SumFunctionOnSet(CountsOf(c), Lines)
    BY DEF SumsOK
  <2>1. LogTypes
    BY <1>4, <1>6, <1>7 DEF LogTypes
  <2>2. SumFunctionOnSet(CountsOf(c), Lines) \in Nat
    BY <2>1, CountsOfType
  <2>3. alerts[c].count = 0
    BY <1>1, <1>5
  <2> QED
    BY <2>2, <2>3
<1> QED
  BY <1>4, <1>6, <1>7, <1>10, <1>11, <1>12, <1>13, <1>14 DEF LogInv, LogTypes

LEMMA LogStep == ASSUME LogInv, LogNext PROVE LogInv'
<1>1. ASSUME NEW p \in Procs, Command(p) PROVE LogInv'
  BY <1>1, SyncInv, RecordInv, RecordFailsInv, SaveInv, MaintainInv, RenameInv, CreateInv, PackInv,
     UnlinkInv, ReopenInv, BackfillInv, EnableInv, EnablingInv, SettingsInv, KillInv DEF Command
<1> QED
  BY <1>1, WriteInv, XrayRestartsInv, SettingsInv, RemoveInv DEF LogNext

-----------------------------------------------------------------------------
(***************************************************************************)
(* What the log's part says of the properties.                             *)
(***************************************************************************)
LEMMA CountedIfLog == ASSUME LogInv PROVE CountedOnce
  BY DEF LogInv, CountsOK, WindowsOK, CountedOnce

LEMMA MinPair == ASSUME NEW a \in Int, NEW b \in Int, a <= b PROVE Min({a, b}) = a
<1>1. a \in {a, b} /\ \A y \in {a, b} : a <= y
  OBVIOUS
<1>2. \A x \in {a, b} : (\A y \in {a, b} : x <= y) => x = a
  OBVIOUS
<1> QED
  BY <1>1, <1>2 DEF Min

LEMMA ReadIfLog == ASSUME LogInv PROVE NoneUnread
<1>1. SUFFICES ASSUME saved.ino # NoFile, saved.ino = current, ~ behind,
                      NEW n \in 1 .. Min({saved.off, Len(text[current])})
               PROVE  Seen(text[current][n])
  BY DEF NoneUnread, Seen
<1>2. saved.off \in Int /\ Len(text[current]) \in Int
  BY <1>1 DEF LogInv, LogTypes, FileTypes, RecordTypes, Saved
<1>3. saved.off <= Len(text[current]) /\ \A l \in UpTo(saved.off) : Seen(l)
  BY <1>1 DEF LogInv, ReadingOK
<1>4. n \in 1 .. saved.off
  BY <1>1, <1>2, <1>3, MinPair
<1>5. text[current][n] \in UpTo(saved.off)
  BY <1>4 DEF UpTo
<1> QED
  BY <1>3, <1>5

LEMMA KeptIfLog == ASSUME LogInv PROVE NoneRotatedAway
<1>1. SUFFICES ASSUME NEW l \in Known, l > old, l \in Lost PROVE l \in late
  BY DEF NoneRotatedAway, Known
<1>2. \/ l \in late
      \/ current # NoFile /\ l \in ToSet(text[current])
      \/ \E i \in rotated : l \in ToSet(text[i])
      \/ l \in UNION archive
  BY <1>1 DEF LogInv, KeepingOK
<1>3. l \notin InLog
  BY <1>1 DEF Lost
<1>4. ~ (current # NoFile /\ l \in ToSet(text[current]))
  BY <1>3 DEF InLog
<1>5. ASSUME NEW f, f \in {ToSet(text[i]) : i \in rotated} \union archive PROVE l \notin f
  BY <1>1, <1>5 DEF Lost
<1>6. \A i \in rotated : l \notin ToSet(text[i])
  BY <1>5
<1>7. l \notin UNION archive
  BY <1>5
<1> QED
  BY <1>2, <1>4, <1>6, <1>7

-----------------------------------------------------------------------------
(***************************************************************************)
(* The steps of notify-geoip, of the exceptions and of the summaries leave *)
(* the log's part alone.                                                   *)
(***************************************************************************)
\* A set of numbers below a bound has a greatest one.
LEMMA MaxOf ==
  ASSUME NEW n \in Nat, NEW S, S \subseteq 0 .. n, S # {}
  PROVE  Max(S) \in S /\ \A x \in S : x <= Max(S)
<1> DEFINE Bound == {m \in Nat : \A x \in S : x <= m}
<1>1. Bound \subseteq Nat /\ n \in Bound /\ Bound # {}
  OBVIOUS
<1>2. PICK m \in Bound : \A k \in Bound : <<k, m>> \notin OpToRel(<, Nat)
  <2> HIDE DEF Bound
  <2> QED
    BY <1>1, NatLessThanWellFounded, WFMin
<1>3. m \in Nat /\ \A x \in S : x \in Nat /\ x <= m
  OBVIOUS
<1>4. m \in S
  <2>1. SUFFICES ASSUME m \notin S PROVE FALSE
    OBVIOUS
  <2>2. \A x \in S : x < m
    <3>1. \A x \in S : x # m
      BY <2>1
    <3> QED
      BY <1>3, <3>1
  <2>3. m - 1 \in Nat /\ \A x \in S : x <= m - 1
    <3>1. PICK y : y \in S
      OBVIOUS
    <3> QED
      BY <1>3, <2>2, <3>1
  <2>4. m - 1 \in Bound
    BY <2>3
  <2>5. <<m - 1, m>> \in OpToRel(<, Nat)
    BY <1>3, <2>3 DEF OpToRel
  <2> QED
    BY <1>2, <2>4, <2>5
<1>5. \E x \in S : \A y \in S : x >= y
  BY <1>3, <1>4
<1>6. Max(S) \in S /\ \A y \in S : Max(S) >= y
  BY <1>5 DEF Max
<1> QED
  BY <1>3, <1>6

LEMMA LogStays == ASSUME LogInv, UNCHANGED logVars PROVE LogInv'
<1>1. UNCHANGED <<written, files, saved, records, setup, lock, pc, job, history>>
  BY DEF logVars
<1>2. UNCHANGED <<text, current, open, rotated, archive, windows, counted, detail, alerts, nextId,
                  kit, capture, registered, old, did, reread, early, passed, late, behind, cut>>
  BY <1>1 DEF files, records, setup, history
<1>3. LogTypes /\ FileTypes /\ RecordTypes /\ LockTypes /\ DidTypes /\ HistoryTypes /\ RowsOK
  BY DEF LogInv, LogTypes, JobTypes
<1>4. (\A s : At(s)' <=> At(s)) /\ Known' = Known
  BY <1>1 DEF At, Known
<1>5. LogTypes'
  <2>1. FileTypes' /\ HistoryTypes' /\ LockTypes' /\ DidTypes'
    BY <1>1, <1>2, <1>3, <1>4 DEF FileTypes, HistoryTypes, LockTypes, DidTypes
  <2>2. RecordTypes'
    BY <1>1, <1>2, <1>3 DEF RecordTypes
  <2> QED
    BY <2>1, <2>2 DEF LogTypes, JobTypes
<1>6. SameRows
  BY <1>2, <1>3, NoChangeRows
<1>7. did'.mishap >= did.mishap /\ did'.hand >= did.hand /\ old' >= old
  BY <1>2, <1>3, Numbers DEF RecordTypes
<1> QED
  BY <1>1, <1>2, <1>4, <1>5, <1>6, <1>7, AsideInv

\* One step of a process that does not hold activity.lock.
LEMMA AsideStep ==
  ASSUME LogInv, NEW p \in Procs, pc[p] \in FreeSteps, NEW step \in FreeSteps, Goto(p, step),
         UNCHANGED <<written, files, saved, windows, counted, detail, nextId, setup, lock, job,
                     reread, early, passed, late, behind, cut>>,
         alerts' \in [Clients -> AlertRow], SameRows,
         DidTypes', did'.mishap >= did.mishap, did'.hand >= did.hand
  PROVE  LogInv'
<1>1. UNCHANGED <<text, current, open, rotated, archive, kit, capture, registered, old>>
  BY DEF files, setup
<1>2. LogTypes /\ FileTypes /\ RecordTypes /\ LockTypes /\ HistoryTypes
  BY DEF LogInv, LogTypes, JobTypes
<1>3. LockTypes' /\ \A s : At(s)' <=> At(s)
  BY <1>2, StepsBeside
<1>4. Known' = Known
  BY DEF Known
<1>5. FileTypes' /\ HistoryTypes' /\ RecordTypes'
  <2>1. FileTypes' /\ HistoryTypes'
    BY <1>1, <1>2, <1>4 DEF FileTypes, HistoryTypes
  <2>2. RecordTypes'
    BY <1>1, <1>2 DEF RecordTypes
  <2> QED
    BY <2>1, <2>2
<1>6. LogTypes'
  BY <1>3, <1>5 DEF LogTypes, JobTypes
<1>7. old' >= old /\ registered' = registered
  BY <1>1, <1>2 DEF RecordTypes
<1> QED
  BY <1>3, <1>6, <1>7, AsideInv

-----------------------------------------------------------------------------
(***************************************************************************)
(* What the log's steps do to the alert rows and to the processes, as far  *)
(* as the runs of notify-geoip depend on it.                               *)
(***************************************************************************)
\* A row stays with its first line, or goes, or is a new one with an id of its own.
RowsMove ==
  /\ nextId' >= nextId
  /\ \A c \in Clients : \/ alerts'[c].id = 0
                        \/ alerts'[c].id = alerts[c].id /\ alerts'[c].first = alerts[c].first
                        \/ alerts'[c].id >= nextId

\* Those that notify or summarise stay where they are; the timer goes on to notify.
StepsMove ==
  \A p \in Procs :
    \/ pc'[p] = pc[p]
    \/ /\ pc[p] \in LockSteps \union {"idle"}
       /\ pc'[p] \in LockSteps \union {"idle"} \/ (pc'[p] = "notice" /\ p = Timer)

LEMMA MovesOf ==
  ASSUME LockTypes, NEW p \in Procs, pc[p] \in LockSteps \union {"idle"}, NEW step \in LockSteps,
         Goto(p, step)
  PROVE  StepsMove
<1>1. pc'[p] = step /\ \A q \in Procs \ {p} : pc'[q] = pc[q]
  BY DEF LockTypes, Goto
<1>2. \A q \in Procs : q = p \/ pc'[q] = pc[q]
  BY <1>1
<1>3. pc'[p] \in LockSteps \union {"idle"}
  BY <1>1
<1> QED
  BY <1>2, <1>3 DEF StepsMove

LEMMA EndMoves ==
  ASSUME LockTypes, NEW p \in Procs, pc[p] \in LockSteps, End(p) PROVE StepsMove
<1>1. pc' = [pc EXCEPT ![p] = IF p = Timer THEN "notice" ELSE "idle"]
  BY DEF End, Goto
<1>2. pc'[p] = (IF p = Timer THEN "notice" ELSE "idle") /\ \A q \in Procs \ {p} : pc'[q] = pc[q]
  BY <1>1 DEF LockTypes
<1>3. \A q \in Procs : q = p \/ pc'[q] = pc[q]
  BY <1>2
<1>4. pc'[p] \in LockSteps \union {"idle"} \/ (pc'[p] = "notice" /\ p = Timer)
  BY <1>2
<1>5. pc[p] \in LockSteps \union {"idle"}
  OBVIOUS
<1> QED
  BY <1>3, <1>4, <1>5 DEF StepsMove

LEMMA NobodyMoves == ASSUME UNCHANGED pc PROVE StepsMove
  BY DEF StepsMove

LEMMA RowsStay == ASSUME LogTypes, UNCHANGED <<alerts, nextId>> PROVE RowsMove
  BY DEF LogTypes, RecordTypes, RowsMove

LEMMA RowsGo ==
  ASSUME LogTypes, nextId' = nextId, NEW Gone, 
         alerts' = [c \in Clients |-> IF c \in Gone THEN NoAlert ELSE alerts[c]]
  PROVE  RowsMove
<1>1. \A c \in Clients : alerts'[c].id = 0 \/ alerts'[c] = alerts[c]
  BY DEF NoAlert
<1> QED
  BY <1>1 DEF LogTypes, RecordTypes, RowsMove

LEMMA RecordMoves == ASSUME LogInv, NEW p \in Procs, Record(p) PROVE RowsMove
<1> DEFINE l == Head(job[p].todo)
           c == written[l]
<1>1. pc[p] = "record" /\ job[p].todo # <<>>
  BY DEF Record
<1>2. LogTypes /\ RecordTypes /\ written[l] \in Clients
  BY <1>1, NextLine DEF LogInv, LogTypes
<1>3. CASE c \notin registered
  <2>1. UNCHANGED records
    BY <1>3 DEF Record
  <2> QED
    BY <1>2, <2>1, RowsStay DEF records
<1>4. CASE c \in registered
  <2>1. alerts' = Alerted(l) /\ nextId' = IF alerts[c].id = 0 THEN nextId + 1 ELSE nextId
    BY <1>4 DEF Record
  <2>2. nextId \in Nat
    BY <1>2 DEF RecordTypes
  <2>3. nextId' >= nextId
    BY <2>1, <2>2
  <2>4. \A d \in Clients \ {c} : alerts'[d] = alerts[d]
    BY <1>2, <2>1 DEF Alerted, RecordTypes
  <2>5. alerts[c].id = 0 => alerts'[c].id = nextId
    BY <1>2, <2>1 DEF Alerted, RecordTypes, FreshId
  <2>6. alerts[c].id # 0 => alerts'[c].id = alerts[c].id /\ alerts'[c].first = alerts[c].first
    <3>1. alerts[c] \in AlertRow /\ alerts \in [Clients -> AlertRow]
      BY <1>2 DEF RecordTypes
    <3>2. alerts[c].id # 0 =>
            alerts'[c] = [alerts[c] EXCEPT !.count = @ + 1, !.last = Max({alerts[c].last, l})]
      BY <1>2, <2>1, <3>1 DEF Alerted
    <3> QED
      BY <3>1, <3>2 DEF AlertRow
  <2> QED
    BY <2>2, <2>3, <2>4, <2>5, <2>6 DEF RowsMove
<1> QED
  BY <1>3, <1>4

LEMMA OpenMoves ==
  ASSUME LogTypes, NEW p \in Procs, pc[p] = "idle", NEW op, Open(p, op)
  PROVE  RowsMove /\ StepsMove
<1>1. UNCHANGED records /\ (Goto(p, "maintain") \/ Goto(p, "record"))
  BY DEF Open
<1>2. {"record", "maintain"} \subseteq LockSteps
  BY DEF LockSteps
<1> QED
  BY <1>1, <1>2, RowsStay, MovesOf DEF records, LogTypes, JobTypes

\* A step of the log moves rows and processes no further than that.
LEMMA LogMoves == ASSUME LogInv, LogNext PROVE RowsMove /\ StepsMove
<1>1. LogTypes /\ LockTypes /\ RecordTypes
  BY DEF LogInv, LogTypes, JobTypes
<1>2. {"record", "maintain", "rename", "create", "pack", "unlink", "reopen", "enabling"} \subseteq LockSteps
  BY DEF LockSteps
<1>4. ASSUME NEW p \in Procs, Command(p) PROVE RowsMove /\ StepsMove
  <2>1. CASE Sync(p)
    <3>1. pc[p] = "idle" /\ Open(p, "sync")
      BY <2>1 DEF Sync, ByHand
    <3> QED
      BY <1>1, <3>1, OpenMoves
  <2>2. CASE Rotate(p)
    <3>1. pc[p] = "idle" /\ Open(p, "rotate")
      BY <2>2 DEF Rotate, ByHand
    <3> QED
      BY <1>1, <3>1, OpenMoves
  <2>3. CASE Record(p)
    <3>1. RowsMove
      BY <2>3, RecordMoves
    <3>2. UNCHANGED pc
      BY <2>3 DEF Record
    <3> QED
      BY <3>1, <3>2, NobodyMoves
  <2>4. CASE RecordFails(p)
    <3>1. pc[p] \in LockSteps /\ UNCHANGED records
      BY <2>4 DEF RecordFails, LockSteps
    <3>2. End(p) \/ Goto(p, "rename")
      BY <2>4 DEF RecordFails
    <3>3. RowsMove
      BY <1>1, <3>1, RowsStay DEF records
    <3>4. StepsMove
      BY <1>1, <1>2, <3>1, <3>2, MovesOf, EndMoves
    <3> QED
      BY <3>3, <3>4
  <2>5. CASE Save(p)
    <3>1. pc[p] \in LockSteps /\ Goto(p, "maintain") /\ UNCHANGED <<alerts, nextId>>
      BY <2>5 DEF Save, LockSteps
    <3> QED
      BY <1>1, <1>2, <3>1, RowsStay, MovesOf
  <2>6. CASE Maintain(p)
    <3>1. pc[p] \in LockSteps /\ nextId' = nextId
      BY <2>6 DEF Maintain, LockSteps
    <3>2. End(p) \/ Goto(p, "rename")
      BY <2>6 DEF Maintain
    <3>3. StepsMove
      BY <1>1, <1>2, <3>1, <3>2, MovesOf, EndMoves
    <3> DEFINE Gone == {c \in Clients : alerts[c].last <= old}
    <3>4. alerts' = [c \in Clients |-> IF c \in Gone THEN NoAlert ELSE alerts[c]]
      BY <2>6 DEF Maintain
    <3> HIDE DEF Gone
    <3> QED
      BY <1>1, <3>1, <3>3, <3>4, RowsGo
  <2>7. CASE Rename(p)
    <3>1. pc[p] = "rename" /\ UNCHANGED records
      BY <2>7 DEF Rename
    <3>2. Goto(p, "reopen") \/ Goto(p, "create")
      BY <2>7 DEF Rename
    <3>3. pc[p] \in LockSteps
      BY <3>1 DEF LockSteps
    <3> QED
      BY <1>1, <1>2, <3>1, <3>2, <3>3, RowsStay, MovesOf DEF records
  <2>8. CASE Create(p)
    <3>1. pc[p] \in LockSteps /\ Goto(p, "pack") /\ UNCHANGED records
      BY <2>8 DEF Create, LockSteps
    <3> QED
      BY <1>1, <1>2, <3>1, RowsStay, MovesOf DEF records
  <2>9. CASE Pack(p)
    <3>1. pc[p] \in LockSteps /\ Goto(p, "unlink") /\ UNCHANGED records
      BY <2>9 DEF Pack, LockSteps
    <3> QED
      BY <1>1, <1>2, <3>1, RowsStay, MovesOf DEF records
  <2>10. CASE Unlink(p)
    <3>1. pc[p] \in LockSteps /\ Goto(p, "reopen") /\ UNCHANGED records
      BY <2>10 DEF Unlink, LockSteps
    <3> QED
      BY <1>1, <1>2, <3>1, RowsStay, MovesOf DEF records
  <2>11. CASE Reopen(p)
    <3>1. pc[p] \in LockSteps /\ End(p) /\ UNCHANGED records
      BY <2>11 DEF Reopen, LockSteps
    <3> QED
      BY <1>1, <3>1, RowsStay, EndMoves DEF records
  <2>12. CASE Backfill(p)
    BY <1>1, <2>12, RowsStay, NobodyMoves DEF Backfill
  <2>13. CASE Enable(p)
    <3>1. pc[p] = "idle" /\ Goto(p, "enabling") /\ UNCHANGED records
      BY <2>13 DEF Enable, ByHand
    <3> QED
      BY <1>1, <1>2, <3>1, RowsStay, MovesOf DEF records
  <2>14. CASE Enabling(p)
    <3>1. pc[p] \in LockSteps /\ End(p) /\ UNCHANGED records
      BY <2>14 DEF Enabling, LockSteps
    <3> QED
      BY <1>1, <3>1, RowsStay, EndMoves DEF records
  <2>15. CASE Capture(p)
    BY <1>1, <2>15, RowsStay, NobodyMoves DEF Capture, records
  <2>16. CASE Kill(p)
    <3>1. lock = p /\ End(p) /\ UNCHANGED records
      BY <2>16 DEF Kill
    <3>2. pc[p] \in LockSteps
      BY <1>1, <3>1 DEF LockTypes
    <3> QED
      BY <1>1, <3>1, <3>2, RowsStay, EndMoves DEF records
  <2> QED
    BY <1>4, <2>1, <2>2, <2>3, <2>4, <2>5, <2>6, <2>7, <2>8, <2>9, <2>10, <2>11, <2>12, <2>13,
       <2>14, <2>15, <2>16 DEF Command
<1>5. CASE Write \/ XrayRestarts \/ Age
  <2>1. UNCHANGED <<records, pc>>
    BY <1>5 DEF Write, XrayRestarts, Age
  <2> QED
    BY <1>1, <2>1, RowsStay, NobodyMoves DEF records
<1>6. ASSUME NEW c \in Clients, RemoveClient(c) PROVE RowsMove /\ StepsMove
  <2>1. alerts' = [alerts EXCEPT ![c] = NoAlert] /\ UNCHANGED <<pc, nextId>>
    BY <1>6 DEF RemoveClient
  <2>2. alerts' = [d \in Clients |-> IF d \in {c} THEN NoAlert ELSE alerts[d]]
    BY <1>1, <2>1 DEF RecordTypes
  <2> QED
    BY <1>1, <2>1, <2>2, RowsGo, NobodyMoves
<1> QED
  BY <1>4, <1>5, <1>6 DEF LogNext

-----------------------------------------------------------------------------
(***************************************************************************)
(* What a run of notify-geoip relies on, from the moment it has read the   *)
(* alerts, while the log goes on and another run sends and saves.          *)
(***************************************************************************)
Events == (Nat \ {0}) \X Nat
States == [cursor : Nat, sent : SUBSET Events, chats : SUBSET Events]
Batches == [state : States, cursor : Nat, admin : SUBSET AlertRow, chats : SUBSET AlertRow]
NoticeTypes == bot \in States /\ batch \in [Procs -> Batches]

\* What a state holds as sent was told, and its ids have been given.
Honest(state) ==
  /\ state.cursor < nextId
  /\ \A e \in state.sent \union state.chats : e[1] < nextId
  /\ \A c \in Rows : \A e \in state.sent : e[1] = alerts[c].id => alerts[c].first \in told
  /\ \A c \in Rows : \A e \in state.chats : e[1] = alerts[c].id => alerts[c].first \in chatTold

\* A row up to an id was told, or covered, or is among those still to send.
Reported(id, ids, chatIds) ==
  \A c \in Rows :
    alerts[c].id <= id /\ alerts[c].first \notin excused =>
      /\ alerts[c].first \in told \/ alerts[c].id \in ids
      /\ c \in Chats => alerts[c].first \in chatTold \/ alerts[c].id \in chatIds

\* A row that was read may have been counted on or be gone, but not be another.
Faithful(rows) ==
  \A a \in rows : /\ a.id # 0 /\ a.id < nextId
                  /\ \A c \in Rows : alerts[c].id = a.id => alerts[c].first = a.first

Sending == {"send", "mark", "chats", "keep"}
Fits(b, step) ==
  /\ Honest(b.state) /\ b.cursor < nextId
  /\ Faithful(b.admin \union b.chats)
  /\ step \in {"mark", "chats", "keep"} => Firsts(b.admin) \subseteq told
  /\ step = "keep" => Firsts(b.chats) \subseteq chatTold
  /\ step \in Sending =>
       Reported(b.cursor, IF step = "send" THEN IdsOf(b.admin) ELSE {},
                IF step = "keep" THEN {} ELSE IdsOf(b.chats))

NoticeInv ==
  /\ NoticeTypes
  /\ Honest(bot) /\ Reported(bot.cursor, {}, {})
  /\ \A p \in Procs : Fits(batch[p], pc[p])

LEMMA PassedIfNotice == ASSUME NoticeInv PROVE NothingPassedOver
  BY DEF NoticeInv, Reported, NothingPassedOver

\* More was told, and rows moved: what was known of them stays known.
LEMMA StaysKnown ==
  ASSUME LogTypes, LogTypes', RowsMove,
         told \subseteq told', chatTold \subseteq chatTold', excused \subseteq excused'
  PROVE  /\ nextId' >= nextId
         /\ \A s \in States : Honest(s) => Honest(s)'
         /\ \A id \in Nat : \A ids, chatIds :
              id < nextId /\ Reported(id, ids, chatIds) => Reported(id, ids, chatIds)'
         /\ \A rows \in SUBSET AlertRow : Faithful(rows) => Faithful(rows)'
<1>1. /\ nextId \in Nat /\ nextId' \in Nat /\ nextId' >= nextId
      /\ \A c \in Clients : alerts[c].id \in Nat /\ alerts'[c].id \in Nat
  BY DEF RowsMove, LogTypes, RecordTypes, AlertRow
<1>2. ASSUME NEW c \in Rows', alerts'[c].id < nextId
      PROVE  c \in Rows /\ alerts'[c].id = alerts[c].id /\ alerts'[c].first = alerts[c].first
  BY <1>1, <1>2 DEF Rows, RowsMove
<1>3. ASSUME NEW s \in States, Honest(s) PROVE Honest(s)'
  <2>1. s.cursor \in Nat /\ \A e \in s.sent \union s.chats : e[1] \in Nat
    BY DEF States, Events
  <2>2. s.cursor < nextId' /\ \A e \in s.sent \union s.chats : e[1] < nextId'
    BY <1>1, <1>3, <2>1 DEF Honest
  <2>3. \A c \in Rows' : \A e \in s.sent : e[1] = alerts'[c].id => alerts'[c].first \in told'
    BY <1>2, <1>3 DEF Honest
  <2>4. \A c \in Rows' : \A e \in s.chats : e[1] = alerts'[c].id => alerts'[c].first \in chatTold'
    BY <1>2, <1>3 DEF Honest
  <2> QED
    BY <2>2, <2>3, <2>4 DEF Honest
<1>4. ASSUME NEW id \in Nat, NEW ids, NEW chatIds, id < nextId, Reported(id, ids, chatIds)
      PROVE  Reported(id, ids, chatIds)'
  <2>1. SUFFICES ASSUME NEW c \in Rows', alerts'[c].id <= id, alerts'[c].first \notin excused'
                 PROVE  /\ alerts'[c].first \in told' \/ alerts'[c].id \in ids
                        /\ c \in Chats => alerts'[c].first \in chatTold' \/ alerts'[c].id \in chatIds
    BY DEF Reported
  <2>2. c \in Clients
    BY DEF Rows
  <2>3. alerts'[c].id < nextId
    BY <1>1, <1>4, <2>1, <2>2
  <2>4. c \in Rows /\ alerts'[c].id = alerts[c].id /\ alerts'[c].first = alerts[c].first
    BY <1>2, <2>3
  <2> QED
    BY <1>4, <2>1, <2>4 DEF Reported
<1>5. ASSUME NEW rows \in SUBSET AlertRow, Faithful(rows) PROVE Faithful(rows)'
  <2>1. \A a \in rows : a.id \in Nat /\ a.id # 0 /\ a.id < nextId
    BY <1>5 DEF Faithful, AlertRow
  <2>2. \A a \in rows : a.id < nextId'
    BY <1>1, <2>1
  <2>3. \A a \in rows : \A c \in Rows' : alerts'[c].id = a.id => alerts'[c].first = a.first
    BY <1>2, <1>5, <2>1 DEF Faithful
  <2> QED
    BY <2>1, <2>2, <2>3 DEF Faithful
<1> QED
  BY <1>1, <1>3, <1>4, <1>5

\* Before the first row is sent a batch has nothing to answer for; later, what it had told.
LEMMA StaysFit ==
  ASSUME NoticeInv, LogTypes, LogTypes', RowsMove,
         told \subseteq told', chatTold \subseteq chatTold', excused \subseteq excused',
         NEW b \in Batches, NEW step, Fits(b, step)
  PROVE  Fits(b, step)'
<1>1. /\ b.state \in States /\ b.cursor \in Nat
      /\ b.admin \union b.chats \in SUBSET AlertRow
  BY DEF Batches
<1>2. nextId \in Nat /\ nextId' \in Nat /\ nextId' >= nextId
  BY StaysKnown DEF LogTypes, RecordTypes
<1>3. Honest(b.state)' /\ Faithful(b.admin \union b.chats)'
  BY <1>1, StaysKnown DEF Fits
<1>4. b.cursor < nextId /\ b.cursor < nextId'
  BY <1>1, <1>2 DEF Fits
<1> DEFINE ids == IF step = "send" THEN IdsOf(b.admin) ELSE {}
           chatIds == IF step = "keep" THEN {} ELSE IdsOf(b.chats)
<1>5. step \in Sending => Reported(b.cursor, ids, chatIds)
  BY DEF Fits
<1> HIDE DEF ids, chatIds
<1>6. step \in Sending => Reported(b.cursor, ids, chatIds)'
  BY <1>1, <1>4, <1>5, StaysKnown
<1> USE DEF ids, chatIds
<1> QED
  BY <1>3, <1>4, <1>6 DEF Fits

\* A batch that is not touched, at a step that is not one of sending or stays the same.
LEMMA BatchStays ==
  ASSUME NoticeInv, LogTypes, LogTypes', RowsMove,
         told \subseteq told', chatTold \subseteq chatTold', excused \subseteq excused',
         NEW p \in Procs, batch'[p] = batch[p], pc'[p] = pc[p] \/ pc'[p] \notin Sending
  PROVE  Fits(batch[p], pc[p])'
<1>1. PICK b, step : b = batch[p] /\ step = pc[p]
  OBVIOUS
<1>2. b \in Batches /\ Fits(b, step) 
  BY <1>1 DEF NoticeInv, NoticeTypes
<1>3. Fits(b, step)'
  BY <1>2, StaysFit
<1>4. batch'[p] = b /\ (pc'[p] = step \/ pc'[p] \notin Sending)
  BY <1>1
<1>5. {"send", "mark", "chats", "keep"} = Sending
  BY DEF Sending
<1> QED
  BY <1>3, <1>4, <1>5 DEF Fits

-----------------------------------------------------------------------------
(***************************************************************************)
(* The steps of notify-geoip.                                              *)
(***************************************************************************)
DidMore == DidTypes' /\ did'.mishap >= did.mishap /\ did'.hand >= did.hand

LEMMA DidGrows ==
  ASSUME LogInv, NEW p \in Procs, UNCHANGED did \/ Mishap \/ \E op : ByHand(p, op)
  PROVE  DidMore
<1>1. DidTypes
  BY DEF LogInv, LogTypes, JobTypes
<1>2. CASE UNCHANGED did
  BY <1>1, <1>2, SameDid DEF DidMore
<1>3. CASE Mishap
  <2>1. /\ DidTypes' /\ did'.mishap = did.mishap + 1 /\ did'.hand = did.hand
        /\ did.mishap \in Nat /\ did.hand \in Nat
    BY <1>1, <1>3, MishapDid
  <2> QED
    BY <2>1 DEF DidMore
<1>4. CASE \E op : ByHand(p, op)
  <2>1. /\ DidTypes' /\ did'.mishap = did.mishap /\ did'.hand = did.hand + 1
        /\ did.mishap \in Nat /\ did.hand \in Nat
    BY <1>1, <1>4, HandDid
  <2> QED
    BY <2>1 DEF DidMore
<1> QED
  BY <1>2, <1>3, <1>4

LEMMA SameMoves == ASSUME LogTypes, SameRows, UNCHANGED nextId PROVE RowsMove
  BY DEF LogTypes, RecordTypes, SameRows, RowsMove

\* A step that leaves the records as they are.
LEMMA QuietStep ==
  ASSUME LogInv, NEW p \in Procs, pc[p] \in FreeSteps, NEW step \in FreeSteps, Goto(p, step),
         UNCHANGED <<written, files, saved, records, setup, lock, job,
                     reread, early, passed, late, behind, cut>>,
         DidMore
  PROVE  LogInv' /\ RowsMove
<1>1. UNCHANGED <<windows, counted, detail, alerts, nextId>>
  BY DEF records
<1>2. LogTypes /\ RowsOK /\ alerts' \in [Clients -> AlertRow]
  BY <1>1 DEF LogInv, LogTypes, RecordTypes
<1>3. SameRows
  BY <1>1, <1>2, NoChangeRows
<1>4. LogInv'
  BY <1>1, <1>2, <1>3, AsideStep DEF DidMore
<1>5. RowsMove
  BY <1>1, <1>2, RowsStay
<1> QED
  BY <1>4, <1>5

LEMMA BotStays ==
  ASSUME LogInv, NoticeInv, LogTypes', RowsMove, UNCHANGED bot,
         told \subseteq told', chatTold \subseteq chatTold', excused \subseteq excused'
  PROVE  bot' \in States /\ Honest(bot)' /\ Reported(bot.cursor, {}, {})'
<1>1. PICK s : s = bot
  OBVIOUS
<1>2. s \in States /\ s.cursor \in Nat /\ s.cursor < nextId /\ Honest(s) /\ Reported(s.cursor, {}, {})
  BY <1>1 DEF NoticeInv, NoticeTypes, States, Honest
<1>3. Honest(s)' /\ Reported(s.cursor, {}, {})'
  BY <1>2, StaysKnown DEF LogInv
<1>4. bot' = s
  BY <1>1
<1> QED
  BY <1>2, <1>3, <1>4 DEF Honest, Reported

\* One process goes on with its batch, the others stay where they are.
LEMMA BatchStep ==
  ASSUME LogInv, NoticeInv, LogTypes', RowsMove,
         told \subseteq told', chatTold \subseteq chatTold', excused \subseteq excused',
         bot' \in States, Honest(bot)', Reported(bot.cursor, {}, {})',
         NEW p \in Procs, NEW step, Goto(p, step),
         NEW b \in Batches, batch' = [batch EXCEPT ![p] = b], Fits(b, step)'
  PROVE  NoticeInv'
<1>1. LockTypes /\ LogTypes
  BY DEF LogInv, LogTypes, JobTypes
<1>2. pc'[p] = step /\ \A q \in Procs \ {p} : pc'[q] = pc[q]
  BY <1>1 DEF LockTypes, Goto
<1>3. /\ batch' \in [Procs -> Batches] /\ batch'[p] = b
      /\ \A q \in Procs \ {p} : batch'[q] = batch[q]
  BY DEF NoticeInv, NoticeTypes
<1>4. ASSUME NEW q \in Procs PROVE Fits(batch[q], pc[q])'
  <2>1. CASE q = p
    BY <1>2, <1>3, <2>1 DEF Fits
  <2>2. CASE q # p
    BY <1>1, <1>2, <1>3, <2>2, BatchStays
  <2> QED
    BY <2>1, <2>2
<1> QED
  BY <1>3, <1>4 DEF NoticeInv, NoticeTypes

LEMMA NoBatchFits == ASSUME LogTypes' PROVE
  NoBatch \in Batches /\ \A step : step \notin Sending => Fits(NoBatch, step)'
<1>1. NoBatch.state \in States /\ NoBatch \in Batches
  BY DEF NoBatch, Batches, States
<1>2. nextId' \in Nat \ {0}
  BY DEF LogTypes, RecordTypes
<1>3. /\ NoBatch.cursor = 0 /\ NoBatch.admin = {} /\ NoBatch.chats = {}
      /\ NoBatch.state.cursor = 0 /\ NoBatch.state.sent = {} /\ NoBatch.state.chats = {}
  BY DEF NoBatch
<1>4. Honest(NoBatch.state)' /\ Faithful({})'
  BY <1>2, <1>3 DEF Honest, Faithful
<1> QED
  BY <1>1, <1>2, <1>3, <1>4 DEF Fits, Sending

\* What was read goes, whether all of it was sent or not.
LEMMA LeaveInv ==
  ASSUME LogInv, NoticeInv, NEW p \in Procs, pc[p] \in FreeSteps, Leave(p),
         UNCHANGED <<records, told, chatTold, excused>>, DidMore
  PROVE  /\ LogInv' /\ RowsMove
         /\ bot' \in States /\ Honest(bot)' /\ Reported(bot.cursor, {}, {})' => NoticeInv'
<1>1. PICK step \in {"morning", "idle"} : Goto(p, step)
  BY DEF Leave
<1>2. step \in FreeSteps /\ step \notin Sending
  BY DEF FreeSteps, Sending
<1>3. LogInv' /\ RowsMove
  BY <1>1, <1>2, QuietStep DEF Leave
<1>4. LogTypes' /\ NoBatch \in Batches /\ Fits(NoBatch, step)'
  BY <1>2, <1>3, NoBatchFits DEF LogInv
<1>5. batch' = [batch EXCEPT ![p] = NoBatch]
  BY DEF Leave
<1>6. ASSUME bot' \in States, Honest(bot)', Reported(bot.cursor, {}, {})' PROVE NoticeInv'
  BY <1>1, <1>3, <1>4, <1>5, <1>6, BatchStep
<1> QED
  BY <1>3, <1>6

\* The rows a batch is made of are those of the store, each of a client of its own.
LEMMA RowsFaithful ==
  ASSUME LogInv, NEW rows, rows \subseteq {alerts[c] : c \in Rows}
  PROVE  rows \in SUBSET AlertRow /\ Faithful(rows) /\ EventIds(rows) \subseteq Events
<1>1. \A c \in Rows : alerts[c] \in AlertRow /\ alerts[c].id # 0 /\ alerts[c].id < nextId
  BY DEF LogInv, LogTypes, RecordTypes, RowsOK, Rows
<1>2. \A c, d \in Rows : alerts[d].id = alerts[c].id => alerts[d].first = alerts[c].first
  BY DEF LogInv, RowsOK, Rows
<1>3. \A a \in rows : \E c \in Rows : a = alerts[c]
  OBVIOUS
<1>4. Faithful(rows)
  BY <1>1, <1>2, <1>3 DEF Faithful
<1>5. rows \in SUBSET AlertRow
  BY <1>1, <1>3
<1>6. EventIds(rows) \subseteq Events
  BY <1>1, <1>3 DEF EventIds, Events, AlertRow
<1> QED
  BY <1>4, <1>5, <1>6

\* The cursor that will be saved is behind every row there is, and no id.
LEMMA NewCursorIs ==
  ASSUME LogInv, bot \in States, bot.cursor < nextId
  PROVE  /\ NewCursor(bot.cursor) \in Nat /\ NewCursor(bot.cursor) < nextId
         /\ \A c \in Rows : alerts[c].id <= NewCursor(bot.cursor)
<1> DEFINE ids == {alerts[c].id : c \in Clients}
<1>1. nextId \in Nat /\ nextId - 1 \in Nat /\ ids # {} /\ bot.cursor \in Nat
  BY ActivityAssumption DEF LogInv, LogTypes, RecordTypes, States
<1>2. \A c \in Clients : alerts[c].id \in Nat /\ alerts[c].id < nextId
  BY DEF LogInv, LogTypes, RecordTypes, AlertRow, RowsOK
<1>3. ids \subseteq 0 .. nextId - 1
  BY <1>1, <1>2
<1>4. Max(ids) \in ids /\ \A x \in ids : x <= Max(ids)
  <2> HIDE DEF ids
  <2> QED
    BY <1>1, <1>3, MaxOf
<1>5. MaxId = Max(ids)
  BY DEF MaxId
<1>6. MaxId \in Nat /\ MaxId < nextId /\ \A c \in Clients : alerts[c].id <= MaxId
  <2>1. \A c \in Clients : alerts[c].id \in ids
    OBVIOUS
  <2> HIDE DEF ids
  <2>2. MaxId \in 0 .. nextId - 1
    BY <1>3, <1>4, <1>5
  <2>3. \A c \in Clients : alerts[c].id <= MaxId
    BY <1>4, <1>5, <2>1
  <2>4. MaxId \in Nat /\ MaxId < nextId
    BY <1>1, <2>2
  <2> QED
    BY <2>3, <2>4
<1>7. /\ Max({bot.cursor, MaxId}) \in {bot.cursor, MaxId}
      /\ Max({bot.cursor, MaxId}) >= MaxId
  <2>1. PICK a \in Int, m \in Int : a = bot.cursor /\ m = MaxId
    BY <1>1, <1>6
  <2>2. Max({a, m}) \in {a, m} /\ Max({a, m}) >= a /\ Max({a, m}) >= m
    BY ONLY MaxPair, a \in Int, m \in Int
  <2> QED
    BY <2>1, <2>2
<1>8. NewCursor(bot.cursor) \in Nat /\ NewCursor(bot.cursor) < nextId /\ NewCursor(bot.cursor) >= MaxId
  BY <1>1, <1>6, <1>7 DEF NewCursor
<1> HIDE DEF ids
<1>9. \A c \in Rows : alerts[c].id <= NewCursor(bot.cursor)
  BY <1>2, <1>6, <1>8 DEF Rows
<1> QED
  BY <1>8, <1>9

\* What notify_geoip reads is all that is not reported yet.
LEMMA ReadInv == ASSUME LogInv, NoticeInv, NEW p \in Procs, Read(p) PROVE LogInv' /\ NoticeInv'
<1> DEFINE seen == IF bot.cursor = 0 THEN {} ELSE After(bot.cursor)
           due == seen \ excepted
           silent == IF bot.cursor = 0 THEN Rows ELSE seen \intersect excepted
           admin == {a \in {alerts[c] : c \in due} : <<a.id, a.count>> \notin bot.sent}
           chats == {a \in {alerts[c] : c \in due \intersect Chats} : <<a.id, a.count>> \notin bot.chats}
           b == [state |-> bot, cursor |-> NewCursor(bot.cursor), admin |-> admin, chats |-> chats]
           step == IF admin # {} THEN "send" ELSE IF chats # {} THEN "chats" ELSE "keep"
<1>1. /\ batch' = [batch EXCEPT ![p] = b]
      /\ excused' = excused \union {alerts[c].first : c \in silent}
      /\ Step(p, step)
      /\ UNCHANGED <<reread, early, passed, late, behind, cut, bot, told, chatTold>>
  BY DEF Read
<1>2. pc[p] \in {"notice", "idle"} /\ (UNCHANGED did \/ \E op : ByHand(p, op))
  BY DEF Read, ByHand
<1>3. pc[p] \in FreeSteps /\ step \in FreeSteps /\ DidMore
  BY <1>2, DidGrows DEF FreeSteps
<1>4. seen \subseteq Rows
  BY DEF After
<1>5. admin \subseteq {alerts[c] : c \in Rows} /\ chats \subseteq {alerts[c] : c \in Rows}
  BY <1>4
<1>6. bot \in States /\ Honest(bot) /\ bot.cursor < nextId /\ Reported(bot.cursor, {}, {})
  BY DEF NoticeInv, NoticeTypes, Honest
<1>7. /\ b.state = bot /\ b.cursor = NewCursor(bot.cursor) /\ b.admin = admin /\ b.chats = chats
      /\ b \in Batches
  <2>1. admin \in SUBSET AlertRow /\ chats \in SUBSET AlertRow
    <3> HIDE DEF admin, chats
    <3> QED
      BY <1>5, RowsFaithful
  <2>2. NewCursor(bot.cursor) \in Nat
    BY <1>6, NewCursorIs
  <2> HIDE DEF admin, chats
  <2> QED
    BY <1>6, <2>1, <2>2 DEF Batches
<1>8. ASSUME NEW c \in Rows, alerts[c].first \notin excused', alerts[c].first \notin told
      PROVE  alerts[c] \in admin
  <2>1. c \notin silent
    BY <1>1, <1>8
  <2>2. bot.cursor # 0
    BY <1>8, <2>1
  <2>3. c \in After(bot.cursor) 
    <3>1. SUFFICES ASSUME ~ alerts[c].id > bot.cursor PROVE FALSE
      BY DEF After
    <3>2. alerts[c].id \in Nat /\ bot.cursor \in Nat
      BY <1>6 DEF LogInv, LogTypes, RecordTypes, AlertRow, Rows, States
    <3>3. alerts[c].id <= bot.cursor
      BY <3>1, <3>2
    <3> QED
      BY <1>1, <1>6, <1>8, <3>3 DEF Reported
  <2>4. c \in due
    BY <1>8, <2>1, <2>2, <2>3
  <2>5. <<alerts[c].id, alerts[c].count>> \notin bot.sent
    BY <1>6, <1>8 DEF Honest
  <2> QED
    BY <2>4, <2>5
<1>9. ASSUME NEW c \in Rows, alerts[c].first \notin excused', alerts[c].first \notin chatTold, c \in Chats
      PROVE  alerts[c] \in chats
  <2>1. c \notin silent
    BY <1>1, <1>9
  <2>2. bot.cursor # 0
    BY <1>9, <2>1
  <2>3. c \in After(bot.cursor) 
    <3>1. SUFFICES ASSUME ~ alerts[c].id > bot.cursor PROVE FALSE
      BY DEF After
    <3>2. alerts[c].id \in Nat /\ bot.cursor \in Nat
      BY <1>6 DEF LogInv, LogTypes, RecordTypes, AlertRow, Rows, States
    <3>3. alerts[c].id <= bot.cursor
      BY <3>1, <3>2
    <3> QED
      BY <1>1, <1>6, <1>9, <3>3 DEF Reported
  <2>4. c \in due \intersect Chats
    BY <1>9, <2>1, <2>2, <2>3
  <2>5. <<alerts[c].id, alerts[c].count>> \notin bot.chats
    BY <1>6, <1>9 DEF Honest
  <2> QED
    BY <2>4, <2>5
<1>10. LogInv' /\ RowsMove
  <2> HIDE DEF step
  <2> QED
    BY <1>1, <1>3, QuietStep DEF Step
<1>11. alerts' = alerts /\ nextId' = nextId /\ told' = told /\ chatTold' = chatTold
  BY <1>1 DEF Step, records
<1>12. ASSUME NEW c \in Rows, alerts[c].first \notin excused' 
       PROVE  /\ alerts[c].first \in told \/ (step = "send" /\ alerts[c].id \in IdsOf(admin))
              /\ c \in Chats => alerts[c].first \in chatTold \/ (step # "keep" /\ alerts[c].id \in IdsOf(chats))
  <2>1. alerts[c].first \in told \/ alerts[c] \in admin
    BY <1>8, <1>12
  <2>2. alerts[c] \in admin => step = "send"
    OBVIOUS
  <2>3. c \in Chats => alerts[c].first \in chatTold \/ alerts[c] \in chats
    BY <1>9, <1>12
  <2>4. alerts[c] \in chats => step # "keep"
    OBVIOUS
  <2> HIDE DEF admin, chats, step
  <2> QED
    BY <2>1, <2>2, <2>3, <2>4 DEF IdsOf
<1>13. PICK n, rows, texts, s, state :
         /\ n = NewCursor(bot.cursor) /\ rows = admin /\ texts = chats /\ s = step /\ state = bot
  OBVIOUS
<1>14. b = [state |-> state, cursor |-> n, admin |-> rows, chats |-> texts]
  BY <1>13
<1>15. (s = "keep" => rows = {} /\ texts = {}) /\ (s = "chats" => rows = {}) /\ s # "mark"
  BY <1>13
<1>16. n \in Nat /\ n < nextId /\ Faithful(rows \union texts) /\ Honest(state)
  <2>1. rows \union texts \subseteq {alerts[c] : c \in Rows}
    BY <1>5, <1>13
  <2> HIDE DEF admin, chats, step
  <2> QED
    BY <1>6, <1>13, <2>1, NewCursorIs, RowsFaithful
<1>17. Reported(n, IF s = "send" THEN IdsOf(rows) ELSE {}, IF s = "keep" THEN {} ELSE IdsOf(texts))'
  <2> HIDE DEF admin, chats, step
  <2>1. Rows' = Rows
    BY <1>11 DEF Rows
  <2> QED
    BY <1>11, <1>12, <1>13, <2>1 DEF Reported
<1> HIDE DEF seen, due, silent, admin, chats, step, b
<1>18. Fits([state |-> state, cursor |-> n, admin |-> rows, chats |-> texts], s)'
  <2>1. Rows' = Rows
    BY <1>11 DEF Rows
  <2>2. Honest(state)'
    BY <1>11, <1>16, <2>1 DEF Honest
  <2>3. Faithful(rows \union texts)'
    BY <1>11, <1>16, <2>1 DEF Faithful
  <2>4. s = "chats" \/ s = "keep" => Firsts(rows) \subseteq told'
    BY <1>15 DEF Firsts
  <2>5. s = "keep" => Firsts(texts) \subseteq chatTold'
    BY <1>15 DEF Firsts
  <2> QED
    BY <1>11, <1>15, <1>16, <1>17, <2>2, <2>3, <2>4, <2>5 DEF Fits
<1>19. /\ bot' \in States /\ Honest(bot)' /\ Reported(bot.cursor, {}, {})'
       /\ told \subseteq told' /\ chatTold \subseteq chatTold' /\ excused \subseteq excused'
  <2>1. /\ told \subseteq told' /\ chatTold \subseteq chatTold' /\ excused \subseteq excused'
        /\ UNCHANGED bot
    BY <1>1
  <2> QED
    BY <1>10, <2>1, BotStays DEF LogInv
<1>20. Goto(p, s) /\ batch' = [batch EXCEPT ![p] = [state |-> state, cursor |-> n, admin |-> rows, chats |-> texts]]
  BY <1>1, <1>13, <1>14 DEF Step
<1> QED
  BY <1>7, <1>10, <1>14, <1>18, <1>19, <1>20, BatchStep DEF LogInv

\* The steps after the reading: told first, then marked, then the chats, then saved.
LEMMA BatchIs ==
  ASSUME NoticeInv, NEW p \in Procs
  PROVE  \E b \in Batches : b = batch[p] /\ Fits(b, pc[p])
  BY DEF NoticeInv, NoticeTypes

LEMMA SameBatch == ASSUME NoticeInv, UNCHANGED batch, NEW p \in Procs, NEW b, b = batch[p]
                   PROVE  batch' = [batch EXCEPT ![p] = b]
  BY DEF NoticeInv, NoticeTypes

LEMMA SendInv == ASSUME LogInv, NoticeInv, NEW p \in Procs, Send(p) PROVE LogInv' /\ NoticeInv'
<1>1. /\ pc[p] = "send" /\ told' = told \union Firsts(batch[p].admin) /\ Step(p, "mark")
      /\ UNCHANGED <<history, bot, batch, chatTold, excused>>
  BY DEF Send
<1>2. pc[p] \in FreeSteps /\ "mark" \in FreeSteps /\ DidMore
  BY <1>1, DidGrows DEF FreeSteps, history
<1>3. LogInv' /\ RowsMove
  BY <1>1, <1>2, QuietStep DEF Step, history
<1>4. PICK b \in Batches : b = batch[p] /\ Fits(b, "send")
  BY <1>1, BatchIs
<1>5. told \subseteq told' /\ Firsts(b.admin) \subseteq told'
  BY <1>1, <1>4
<1>6. Fits(b, "send")'
  BY <1>1, <1>3, <1>4, <1>5, StaysFit DEF LogInv
<1>7. Fits(b, "mark")'
  <2>1. Reported(b.cursor, IdsOf(b.admin), IdsOf(b.chats))' /\ Faithful(b.admin \union b.chats)'
    BY <1>6 DEF Fits, Sending
  <2>2. \A c \in Rows' : alerts'[c].id \in IdsOf(b.admin) => alerts'[c].first \in told'
    BY <1>5, <2>1 DEF Faithful, IdsOf, Firsts
  <2>3. Reported(b.cursor, {}, IdsOf(b.chats))'
    BY <2>1, <2>2 DEF Reported
  <2> QED
    BY <1>5, <1>6, <2>3 DEF Fits
<1>8. /\ bot' \in States /\ Honest(bot)' /\ Reported(bot.cursor, {}, {})'
  BY <1>1, <1>3, <1>5, BotStays DEF LogInv
<1>9. batch' = [batch EXCEPT ![p] = b] /\ Goto(p, "mark")
  BY <1>1, <1>4, SameBatch DEF Step
<1> QED
  BY <1>1, <1>3, <1>5, <1>7, <1>8, <1>9, BatchStep DEF LogInv

\* A run that failed or was killed leaves the saved state as it is.
LEMMA NotSavedInv == ASSUME LogInv, NoticeInv, NEW p \in Procs, SendFails(p) \/ NoticeKilled(p)
                     PROVE  LogInv' /\ NoticeInv'
<1>1. /\ pc[p] \in FreeSteps /\ Mishap /\ Leave(p)
      /\ UNCHANGED <<records, bot, told, chatTold, excused>>
  BY DEF SendFails, NoticeKilled, FreeSteps, reports
<1>2. DidMore
  BY <1>1, DidGrows
<1>3. LogInv' /\ RowsMove
  BY <1>1, <1>2, LeaveInv
<1>4. bot' \in States /\ Honest(bot)' /\ Reported(bot.cursor, {}, {})'
  BY <1>1, <1>3, BotStays DEF LogInv
<1> QED
  BY <1>1, <1>2, <1>3, <1>4, LeaveInv

LEMMA MarkInv == ASSUME LogInv, NoticeInv, NEW p \in Procs, Mark(p) PROVE LogInv' /\ NoticeInv'
<1>1. PICK b \in Batches : b = batch[p] /\ Fits(b, "mark")
  BY BatchIs DEF Mark
<1>2. PICK step \in {"chats", "keep"} :
        Goto(p, step) /\ (step = "keep" => b.chats = {})
  BY <1>1 DEF Mark
<1>3. /\ pc[p] = "mark"
      /\ UNCHANGED <<written, files, saved, windows, counted, detail, nextId, setup, lock, job,
                 reread, early, passed, late, behind, cut>>
      /\ UNCHANGED <<bot, batch, told, chatTold, excused>>
      /\ UNCHANGED did \/ Mishap
  BY DEF Mark, noticeVars
<1>4. pc[p] \in FreeSteps /\ step \in FreeSteps /\ DidMore
  BY <1>2, <1>3, DidGrows DEF FreeSteps
<1>5. LogTypes /\ RowsOK /\ alerts \in [Clients -> AlertRow] /\ Len(written) \in Nat
  BY Bounds DEF LogInv, LogTypes, RecordTypes, FileTypes
<1>6. SameRows /\ alerts' \in [Clients -> AlertRow]
  <2>1. CASE UNCHANGED alerts
    BY <1>5, <2>1, NoChangeRows
  <2>2. CASE alerts' = [c \in Clients |->
               IF alerts[c].id \in IdsOf(b.admin)
               THEN [alerts[c] EXCEPT !.notified = Len(written)] ELSE alerts[c]]
    <3>1. \A a \in b.admin : a.id # 0
      BY <1>1 DEF Fits, Faithful
    <3>2. 0 \notin IdsOf(b.admin)
      BY <3>1 DEF IdsOf
    <3>3. \A c \in Clients : alerts[c].notified \in 0 .. Len(written)
      BY <1>5 DEF RowsOK, AlertRow
    <3>4. ASSUME NEW c \in Clients
          PROVE  /\ alerts'[c] \in AlertRow
                 /\ alerts'[c].id = alerts[c].id /\ alerts'[c].count = alerts[c].count
                 /\ alerts'[c].first = alerts[c].first /\ alerts'[c].last = alerts[c].last
                 /\ alerts'[c].notified \in 0 .. Len(written)
                 /\ alerts[c].id = 0 => alerts'[c] = alerts[c]
      <4>0. alerts[c] \in AlertRow /\ Len(written) \in 0 .. Len(written)
        BY <1>5
      <4>1. CASE alerts[c].id \in IdsOf(b.admin)
        <5>1. alerts'[c] = [alerts[c] EXCEPT !.notified = Len(written)] /\ alerts[c].id # 0
          BY <2>2, <3>2, <4>1
        <5> QED
          BY <1>5, <4>0, <5>1 DEF AlertRow
      <4>2. CASE alerts[c].id \notin IdsOf(b.admin)
        <5>1. alerts'[c] = alerts[c]
          BY <2>2, <4>2
        <5> QED
          BY <3>3, <4>0, <5>1
      <4> QED
        BY <4>1, <4>2
    <3>5. alerts' \in [Clients -> AlertRow]
      <4> DEFINE rows == [c \in Clients |->
               IF alerts[c].id \in IdsOf(b.admin)
               THEN [alerts[c] EXCEPT !.notified = Len(written)] ELSE alerts[c]]
      <4>1. alerts' = rows
        BY <2>2
      <4>2. rows = [c \in Clients |-> rows[c]]
        OBVIOUS
      <4> HIDE DEF rows
      <4> QED
        BY <3>4, <4>1, <4>2
    <3> QED
      BY <3>4, <3>5 DEF SameRows
  <2> QED
    BY <1>1, <2>1, <2>2 DEF Mark
<1>7. LogInv'
  BY <1>2, <1>3, <1>4, <1>6, AsideStep DEF DidMore
<1>8. RowsMove
  BY <1>3, <1>5, <1>6, SameMoves
<1>9. Fits(b, "mark")'
  BY <1>1, <1>3, <1>5, <1>7, <1>8, StaysFit DEF LogInv
<1>10. Fits(b, step)'
  <2>1. step = "keep" => IdsOf(b.chats) = {} /\ Firsts(b.chats) = {}
    BY <1>2 DEF IdsOf, Firsts
  <2>2. Reported(b.cursor, {}, IdsOf(b.chats))'
    BY <1>9 DEF Fits, Sending
  <2>3. Reported(b.cursor, {}, IF step = "keep" THEN {} ELSE IdsOf(b.chats))'
    BY <2>1, <2>2 DEF Reported
  <2>4. step # "send" /\ step \in {"chats", "keep"}
    BY <1>2
  <2> QED
    BY <1>9, <2>1, <2>3, <2>4 DEF Fits
<1>11. /\ bot' \in States /\ Honest(bot)' /\ Reported(bot.cursor, {}, {})'
  BY <1>3, <1>5, <1>7, <1>8, BotStays DEF LogInv
<1>12. batch' = [batch EXCEPT ![p] = b]
  BY <1>1, <1>3, SameBatch
<1> QED
  BY <1>2, <1>3, <1>5, <1>7, <1>8, <1>10, <1>11, <1>12, BatchStep DEF LogInv

LEMMA SendChatsInv == ASSUME LogInv, NoticeInv, NEW p \in Procs, SendChats(p)
                      PROVE  LogInv' /\ NoticeInv'
<1>1. PICK b \in Batches : b = batch[p] /\ Fits(b, "chats")
  BY BatchIs DEF SendChats
<1>2. PICK failed \in SUBSET b.chats :
        /\ UNCHANGED did \/ Mishap
        /\ batch' = [batch EXCEPT ![p].chats = @ \ failed]
  BY <1>1 DEF SendChats
<1>3. /\ pc[p] = "chats" /\ chatTold' = chatTold \union Firsts(b.chats) /\ Step(p, "keep")
      /\ UNCHANGED <<reread, early, passed, late, behind, cut, bot, told, excused>>
  BY <1>1 DEF SendChats
<1> DEFINE kept == [b EXCEPT !.chats = b.chats \ failed]
<1>4. /\ kept \in Batches /\ kept.state = b.state /\ kept.cursor = b.cursor /\ kept.admin = b.admin
      /\ kept.chats = b.chats \ failed
  BY DEF Batches
<1>5. batch' = [batch EXCEPT ![p] = kept]
  BY <1>1, <1>2 DEF NoticeInv, NoticeTypes
<1> HIDE DEF kept
<1>6. pc[p] \in FreeSteps /\ "keep" \in FreeSteps /\ DidMore
  BY <1>2, <1>3, DidGrows DEF FreeSteps
<1>7. LogInv' /\ RowsMove
  BY <1>3, <1>6, QuietStep DEF Step
<1>8. chatTold \subseteq chatTold' /\ Firsts(b.chats) \subseteq chatTold'
  BY <1>3
<1>9. Fits(b, "chats")'
  BY <1>1, <1>3, <1>7, <1>8, StaysFit DEF LogInv
<1>10. Fits(kept, "keep")'
  <2>1. Reported(b.cursor, {}, IdsOf(b.chats))' /\ Faithful(b.admin \union b.chats)'
    BY <1>9 DEF Fits, Sending
  <2>2. \A c \in Rows' : alerts'[c].id \in IdsOf(b.chats) => alerts'[c].first \in chatTold'
    BY <1>8, <2>1 DEF Faithful, IdsOf, Firsts
  <2>3. Reported(b.cursor, {}, {})'
    BY <2>1, <2>2 DEF Reported
  <2>4. Faithful(kept.admin \union kept.chats)'
    BY <1>4, <2>1 DEF Faithful
  <2>5. Firsts(kept.chats) \subseteq chatTold'
    BY <1>4, <1>8 DEF Firsts
  <2>6. /\ Honest(b.state)' /\ b.cursor < nextId' /\ Firsts(b.admin) \subseteq told'
    BY <1>9 DEF Fits
  <2>7. Honest(kept.state)'
    BY <1>4, <2>6 DEF Honest
  <2>8. Reported(kept.cursor, {}, {})'
    BY <1>4, <2>3 DEF Reported
  <2> QED
    BY <1>4, <2>4, <2>5, <2>6, <2>7, <2>8 DEF Fits
<1>11. /\ bot' \in States /\ Honest(bot)' /\ Reported(bot.cursor, {}, {})'
  BY <1>3, <1>7, <1>8, BotStays DEF LogInv
<1> QED
  BY <1>3, <1>4, <1>5, <1>7, <1>8, <1>10, <1>11, BatchStep DEF LogInv, Step

LEMMA KeepInv == ASSUME LogInv, NoticeInv, NEW p \in Procs, Keep(p) PROVE LogInv' /\ NoticeInv'
<1>1. PICK b \in Batches : b = batch[p] /\ Fits(b, "keep")
  BY BatchIs DEF Keep
<1>2. PICK new : /\ bot' = new
                 /\ new = [cursor |-> b.cursor, sent |-> b.state.sent \union EventIds(b.admin),
                           chats |-> b.state.chats \union EventIds(b.chats)]
  BY <1>1 DEF Keep
<1>3. pc[p] \in FreeSteps /\ Leave(p) /\ UNCHANGED <<records, did, told, chatTold, excused>>
  BY DEF Keep, FreeSteps, reports
<1>4. DidMore
  BY <1>3, DidGrows
<1>5. LogInv' /\ RowsMove
  BY <1>3, <1>4, LeaveInv
<1>6. /\ b.state \in States /\ b.cursor \in Nat
      /\ b.admin \subseteq AlertRow /\ b.chats \subseteq AlertRow
  BY DEF Batches
<1>7. /\ new.cursor = b.cursor /\ new.sent = b.state.sent \union EventIds(b.admin)
      /\ new.chats = b.state.chats \union EventIds(b.chats)
  BY <1>2
<1>8. \A a \in b.admin \union b.chats : a.id \in Nat \ {0} /\ a.count \in Nat /\ a.id < nextId
  BY <1>1, <1>6 DEF Fits, Faithful, AlertRow
<1>9. new \in States
  <2>1. EventIds(b.admin) \subseteq Events /\ EventIds(b.chats) \subseteq Events
    BY <1>8 DEF EventIds, Events
  <2> QED
    BY <1>2, <1>6, <2>1 DEF States
<1>10. Honest(new)
  <2>1. Honest(b.state) /\ b.cursor < nextId /\ Faithful(b.admin \union b.chats)
        /\ Firsts(b.admin) \subseteq told /\ Firsts(b.chats) \subseteq chatTold
    BY <1>1 DEF Fits
  <2>2. \A e \in EventIds(b.admin) : \E a \in b.admin : e[1] = a.id
    BY DEF EventIds
  <2>3. \A e \in EventIds(b.chats) : \E a \in b.chats : e[1] = a.id
    BY DEF EventIds
  <2>4. \A e \in new.sent \union new.chats : e[1] < nextId
    BY <1>7, <1>8, <2>1, <2>2, <2>3 DEF Honest
  <2>5. \A c \in Rows : \A e \in new.sent : e[1] = alerts[c].id => alerts[c].first \in told
    BY <1>7, <2>1, <2>2 DEF Honest, Faithful, Firsts
  <2>6. \A c \in Rows : \A e \in new.chats : e[1] = alerts[c].id => alerts[c].first \in chatTold
    BY <1>7, <2>1, <2>3 DEF Honest, Faithful, Firsts
  <2> QED
    BY <1>7, <2>1, <2>4, <2>5, <2>6 DEF Honest
<1>11. Reported(new.cursor, {}, {})
  BY <1>1, <1>7 DEF Fits, Sending
<1>12. new.cursor \in Nat /\ new.cursor < nextId
  BY <1>1, <1>6, <1>7 DEF Fits
<1>13. Honest(new)' /\ Reported(new.cursor, {}, {})'
  BY <1>3, <1>5, <1>9, <1>10, <1>11, <1>12, StaysKnown DEF LogInv
<1>14. bot' \in States /\ Honest(bot)' /\ Reported(bot.cursor, {}, {})'
  BY <1>2, <1>9, <1>13 DEF Honest, Reported
<1> QED
  BY <1>3, <1>4, <1>5, <1>14, LeaveInv

\* Steps that leave the batches and the reports alone.
LEMMA ReportsStay ==
  ASSUME LogInv, NoticeInv, LogTypes', RowsMove, UNCHANGED <<bot, batch, told, chatTold, excused>>,
         \A p \in Procs : pc'[p] = pc[p] \/ pc'[p] \notin Sending
  PROVE  NoticeInv'
<1>1. \A p \in Procs : Fits(batch[p], pc[p])'
  BY BatchStays DEF LogInv
<1>2. bot' \in States /\ Honest(bot)' /\ Reported(bot.cursor, {}, {})'
  BY BotStays
<1> QED
  BY <1>1, <1>2 DEF NoticeInv, NoticeTypes

LEMMA StepReports ==
  ASSUME LogInv, NoticeInv, NEW p \in Procs, pc[p] \in FreeSteps,
         NEW step \in FreeSteps \ Sending, Step(p, step), DidMore,
         UNCHANGED <<reread, early, passed, late, behind, cut, bot, batch, reports>>
  PROVE  LogInv' /\ NoticeInv'
<1>1. LogInv' /\ RowsMove
  BY QuietStep DEF Step
<1>2. \A q \in Procs : pc'[q] = pc[q] \/ pc'[q] \notin Sending
  BY DEF LogInv, LogTypes, JobTypes, LockTypes, Step, Goto
<1> QED
  BY <1>1, <1>2, ReportsStay DEF LogInv, reports

\* The exceptions and the summaries.
LEMMA ExceptInv == ASSUME LogInv, NoticeInv, NEW p \in Procs,
                          Except(p) \/ Summarise(p) \/ Summed(p)
                   PROVE  LogInv' /\ NoticeInv'
<1>1. /\ pc[p] \in {"idle", "morning", "summed"}
      /\ UNCHANGED did \/ Mishap \/ \E op : ByHand(p, op)
  BY DEF Except, ByHand, Summarise, Summed
<1>2. DidMore
  BY <1>1, DidGrows
<1>3. pc[p] \in FreeSteps /\ {"idle", "summed"} \subseteq FreeSteps \ Sending
  BY <1>1 DEF FreeSteps, Sending
<1>4. CASE Except(p)
  <2>1. Step(p, "idle") /\ UNCHANGED <<reread, early, passed, late, behind, cut, bot, batch, reports>>
    BY <1>4 DEF Except
  <2> QED
    BY <1>2, <1>3, <2>1, StepReports
<1>5. CASE Summarise(p)
  <2>1. /\ Step(p, "idle") \/ Step(p, "summed")
        /\ UNCHANGED <<reread, early, passed, late, behind, cut, bot, batch, reports>>
    BY <1>5 DEF Summarise
  <2> QED
    BY <1>2, <1>3, <2>1, StepReports
<1>6. CASE Summed(p)
  <2>1. Step(p, "idle") /\ UNCHANGED <<reread, early, passed, late, behind, cut, bot, batch, reports>>
    BY <1>6 DEF Summed
  <2> QED
    BY <1>2, <1>3, <2>1, StepReports
<1> QED
  BY <1>4, <1>5, <1>6

\* Every step keeps what is known of the log and of the notices.
LEMMA NoticeStep == ASSUME LogInv, NoticeInv, [Next]_vars PROVE LogInv' /\ NoticeInv'
<1>1. CASE LogNext /\ UNCHANGED noticeVars
  <2>1. LogInv' /\ RowsMove /\ StepsMove
    BY <1>1, LogStep, LogMoves
  <2>2. \A p \in Procs : pc'[p] = pc[p] \/ pc'[p] \notin Sending
    BY <2>1 DEF StepsMove, LockSteps, Sending
  <2> QED
    BY <1>1, <2>1, <2>2, ReportsStay DEF LogInv, noticeVars
<1>2. ASSUME NEW p \in Procs, Notice(p) PROVE LogInv' /\ NoticeInv'
  BY <1>2, ReadInv, SendInv, NotSavedInv, MarkInv, SendChatsInv, KeepInv, ExceptInv DEF Notice
<1>3. CASE UNCHANGED logVars /\ UNCHANGED <<bot, batch, told, chatTold, excused>>
  <2>1. LogInv' /\ LogTypes
    BY <1>3, LogStays DEF LogInv
  <2>2. UNCHANGED <<records, pc>>
    BY <1>3 DEF logVars
  <2>3. RowsMove
    BY <2>1, <2>2, RowsStay DEF records
  <2> QED
    BY <1>3, <2>1, <2>2, <2>3, ReportsStay DEF LogInv
<1>4. CASE Morning
  BY <1>3, <1>4 DEF Morning, reports
<1>5. CASE UNCHANGED vars
  BY <1>3, <1>5 DEF vars, noticeVars
<1> QED
  BY <1>1, <1>2, <1>4, <1>5 DEF Next

-----------------------------------------------------------------------------
(***************************************************************************)
(* The summaries.  Only the timer's service sends them, so that between    *)
(* the question whether one is due and its record no other run is about    *)
(* to send one; what may come between is another morning.                  *)
(***************************************************************************)
Recorded(d) == d \in unsure \/ summary >= d
SummaryInv ==
  /\ day \in 0 .. MaxDays /\ summary \in 0 .. day
  /\ sums \in [0 .. MaxDays -> Nat]
  /\ \A p \in Procs : pc[p] \in {"notice", "morning", "summed"} => p = Timer
  /\ pc[Timer] = "morning" => summary < day
  /\ pc[Timer] = "summed" => \E d \in 0 .. day : sums[d] > 0
  /\ \A d \in 0 .. MaxDays :
       /\ sums[d] > 1 => d \in unsure
       /\ sums[d] > 0 =>
            /\ d <= day
            /\ Recorded(d) \/ (pc[Timer] = "summed" /\ \A e \in 0 .. MaxDays : sums[e] > 0 => e <= d)

LEMMA OnceIfSummary == ASSUME SummaryInv PROVE SummaryOnce
  BY DEF SummaryInv, SummaryOnce

LEMMA SummaryStays ==
  ASSUME SummaryInv, UNCHANGED daily,
         \A p \in Procs :
           \/ pc'[p] = pc[p]
           \/ /\ pc[p] # "summed" /\ pc'[p] # "summed"
              /\ pc'[p] \in {"notice", "morning"} => p = Timer
              /\ pc'[p] = "morning" => summary < day
  PROVE  SummaryInv'
<1>1. Timer \in Procs /\ UNCHANGED <<day, summary, sums, unsure>>
  BY NoFileIsNone DEF daily
<1>2. pc'[Timer] = "summed" <=> pc[Timer] = "summed"
  BY <1>1
<1>3. \A p \in Procs : pc'[p] \in {"notice", "morning", "summed"} => p = Timer
  BY DEF SummaryInv
<1>4. pc'[Timer] = "morning" => summary < day
  BY <1>1 DEF SummaryInv
<1>5. \A d : Recorded(d)' <=> Recorded(d)
  BY <1>1 DEF Recorded
<1> QED
  BY <1>1, <1>2, <1>3, <1>4, <1>5 DEF SummaryInv

\* Where a step of notify-geoip may leave its process.
LEMMA StepStays ==
  ASSUME LockTypes, SummaryInv, NEW p \in Procs, pc[p] # "summed", NEW step, Goto(p, step),
         step \notin {"notice", "morning", "summed"}, UNCHANGED daily
  PROVE  SummaryInv'
<1>1. pc'[p] = step /\ \A q \in Procs : q = p \/ pc'[q] = pc[q]
  BY DEF LockTypes, Goto
<1> QED
  BY <1>1, SummaryStays

LEMMA LeaveStays ==
  ASSUME LockTypes, SummaryInv, NEW p \in Procs, pc[p] # "summed", Leave(p), UNCHANGED daily
  PROVE  SummaryInv'
<1>1. PICK step : /\ Goto(p, step)
                  /\ step = IF p = Timer /\ Due THEN "morning" ELSE "idle"
  BY DEF Leave
<1>2. pc'[p] = step /\ \A q \in Procs : q = p \/ pc'[q] = pc[q]
  BY <1>1 DEF LockTypes, Goto
<1>3. Due => summary < day
  BY DEF Due, SummaryInv
<1>4. step \in {"morning", "idle"} /\ (step = "morning" => p = Timer /\ summary < day)
  BY <1>1, <1>3
<1> QED
  BY <1>2, <1>4, SummaryStays

LEMMA SummariseInv ==
  ASSUME LockTypes, SummaryInv, NEW p \in Procs, Summarise(p) PROVE SummaryInv'
<1>1. p = Timer /\ pc[Timer] = "morning" /\ UNCHANGED <<day, summary, unsure>>
  BY DEF Summarise, SummaryInv
<1>2. CASE Step(p, "idle") /\ UNCHANGED sums
  BY <1>1, <1>2, StepStays DEF Step, daily
<1>3. CASE Step(p, "summed") /\ sums' = [sums EXCEPT ![day] = @ + 1]
  <2>1. pc'[p] = "summed" /\ \A q \in Procs : q = p \/ pc'[q] = pc[q]
    BY <1>3 DEF LockTypes, Step, Goto
  <2>2. MaxDays \in Nat /\ day \in 0 .. MaxDays /\ summary < day /\ sums \in [0 .. MaxDays -> Nat]
    BY <1>1, NoticesAssumption DEF SummaryInv
  <2>3. /\ sums' \in [0 .. MaxDays -> Nat] /\ sums'[day] = sums[day] + 1
        /\ \A d \in 0 .. MaxDays : d # day => sums'[d] = sums[d]
    BY <1>3, <2>2
  <2>4. /\ summary \in Int /\ summary <= day
        /\ \A d \in 0 .. MaxDays : sums[d] > 0 => d <= day /\ Recorded(d)
        /\ \A d \in 0 .. MaxDays : sums[d] > 1 => d \in unsure
    BY <1>1, <2>2 DEF SummaryInv
  <2>5. ~ summary >= day
    BY <2>2, <2>4
  <2>6. sums[day] > 0 => day \in unsure
    BY <2>2, <2>4, <2>5 DEF Recorded
  <2>7. \A d \in 0 .. MaxDays : sums'[d] > 0 => d <= day
    BY <2>2, <2>3, <2>4
  <2>8. sums[day] \in Nat /\ sums'[day] > 0 /\ (sums'[day] > 1 => day \in unsure)
    BY <2>2, <2>3, <2>6
  <2>9. \A d \in 0 .. MaxDays : Recorded(d)' <=> Recorded(d)
    BY <1>1 DEF Recorded
  <2>10. \A d \in 0 .. MaxDays :
       /\ sums'[d] > 1 => d \in unsure'
       /\ sums'[d] > 0 =>
            /\ d <= day
            /\ Recorded(d)' \/ (pc'[Timer] = "summed" /\ \A e \in 0 .. MaxDays : sums'[e] > 0 => e <= d)
    BY <1>1, <2>1, <2>3, <2>4, <2>7, <2>8, <2>9
  <2>11. day \in 0 .. day
    BY <2>2
  <2>12. \A q \in Procs : pc'[q] \in {"notice", "morning", "summed"} => q = Timer
    BY <1>1, <2>1 DEF SummaryInv
  <2> QED
    BY <1>1, <2>1, <2>2, <2>3, <2>4, <2>8, <2>10, <2>11, <2>12 DEF SummaryInv
<1> QED
  BY <1>2, <1>3 DEF Summarise

LEMMA SummedInv == ASSUME LockTypes, SummaryInv, NEW p \in Procs, Summed(p) PROVE SummaryInv'
<1> DEFINE days == {d \in 0 .. day : sums[d] > 0}
<1>1. p = Timer /\ pc[Timer] = "summed" /\ UNCHANGED <<day, sums>> /\ Step(p, "idle")
  BY DEF Summed, SummaryInv
<1>2. MaxDays \in Nat /\ day \in 0 .. MaxDays /\ day \in Nat /\ summary \in 0 .. day
  BY NoticesAssumption DEF SummaryInv
<1>3. PICK sent : sent = Max(days)
  OBVIOUS
<1>4. \/ summary' = sent /\ UNCHANGED unsure
      \/ unsure' = unsure \union {sent} /\ UNCHANGED summary
  BY <1>3 DEF Summed
<1>5. days # {} /\ days \subseteq 0 .. day
  BY <1>1 DEF SummaryInv
<1>6. sent \in days /\ \A d \in days : d <= sent
  <2> HIDE DEF days
  <2> QED
    BY <1>2, <1>3, <1>5, MaxOf
<1>7. \A d \in 0 .. MaxDays : sums[d] > 0 => d \in days
  <2>1. \A d \in 0 .. MaxDays : sums[d] > 0 => d <= day
    BY DEF SummaryInv
  <2> QED
    BY <1>2, <2>1
<1>8. sent \in 0 .. day /\ sent \in 0 .. MaxDays /\ sums[sent] > 0
  BY <1>2, <1>6
<1> HIDE DEF days
<1>9. \A d \in 0 .. MaxDays : sums[d] > 0 => d <= sent
  BY <1>6, <1>7
<1>10. ASSUME NEW d \in 0 .. MaxDays, sums[d] > 0 PROVE Recorded(d)'
  <2>1. CASE summary' = sent
    BY <1>8, <1>9, <1>10, <2>1 DEF Recorded
  <2>2. CASE unsure' = unsure \union {sent} /\ UNCHANGED summary
    <3>1. CASE Recorded(d)
      BY <2>2, <3>1 DEF Recorded
    <3>2. CASE \A e \in 0 .. MaxDays : sums[e] > 0 => e <= d
      <4>1. sent <= d /\ d <= sent
        BY <1>8, <1>9, <1>10, <3>2
      <4>2. d = sent
        BY <1>8, <4>1
      <4> QED
        BY <2>2, <4>2 DEF Recorded
    <3> QED
      BY <1>1, <1>10, <3>1, <3>2 DEF SummaryInv
  <2> QED
    BY <1>4, <2>1, <2>2
<1>11. pc'[p] = "idle" /\ \A q \in Procs : q = p \/ pc'[q] = pc[q]
  BY <1>1 DEF LockTypes, Step, Goto
<1>12. \A q \in Procs : pc'[q] \in {"notice", "morning", "summed"} => q = Timer
  BY <1>1, <1>11 DEF SummaryInv
<1>13. summary' \in 0 .. day /\ unsure \subseteq unsure'
  BY <1>2, <1>4, <1>8
<1> QED
  BY <1>1, <1>10, <1>11, <1>12, <1>13 DEF SummaryInv

LEMMA MorningInv == ASSUME SummaryInv, Morning PROVE SummaryInv'
<1>1. day' = day + 1 /\ day < MaxDays /\ UNCHANGED <<pc, summary, sums, unsure>>
  BY DEF Morning, logVars
<1>2. MaxDays \in Nat /\ day \in Nat /\ summary \in 0 .. day
  BY NoticesAssumption DEF SummaryInv
<1>3. day' \in 0 .. MaxDays /\ summary' \in 0 .. day' /\ (summary < day => summary < day')
      /\ \A d \in Nat : d <= day => d <= day' /\ d \in 0 .. day'
  BY <1>1, <1>2
<1>4. \A d : Recorded(d)' <=> Recorded(d)
  BY <1>1 DEF Recorded
<1>5. \A d \in 0 .. MaxDays : d \in Nat
  OBVIOUS
<1>6. pc[Timer] = "summed" => \E d \in 0 .. day' : sums[d] > 0
  BY <1>2, <1>3 DEF SummaryInv
<1>7. \A d \in 0 .. MaxDays : sums[d] > 0 => d <= day'
  BY <1>3, <1>5 DEF SummaryInv
<1> QED
  BY <1>1, <1>3, <1>4, <1>6, <1>7 DEF SummaryInv

LEMMA SummaryStep == ASSUME LogInv, SummaryInv, [Next]_vars PROVE SummaryInv'
<1>1. LockTypes
  BY DEF LogInv, LogTypes, JobTypes
<1>2. CASE LogNext /\ UNCHANGED noticeVars
  <2>1. StepsMove
    BY <1>2, LogMoves
  <2>2. \A p \in Procs :
           \/ pc'[p] = pc[p]
           \/ /\ pc[p] # "summed" /\ pc'[p] # "summed"
              /\ pc'[p] \in {"notice", "morning"} => p = Timer
              /\ pc'[p] = "morning" => summary < day
    BY <2>1 DEF StepsMove, LockSteps
  <2> QED
    BY <1>2, <2>2, SummaryStays DEF noticeVars, daily
<1>3. ASSUME NEW p \in Procs, Notice(p) PROVE SummaryInv'
  <2>1. CASE Read(p)
    <3>1. pc[p] # "summed" /\ UNCHANGED daily
      BY <2>1 DEF Read, ByHand
    <3>2. \E step \in {"send", "chats", "keep"} : Goto(p, step)
      BY <2>1 DEF Read, Step
    <3> QED
      BY <1>1, <3>1, <3>2, StepStays
  <2>2. CASE Send(p)
    BY <1>1, <2>2, StepStays DEF Send, Step
  <2>3. CASE Mark(p)
    <3>1. pc[p] # "summed" /\ UNCHANGED daily
      BY <2>3 DEF Mark, noticeVars, daily
    <3>2. \E step \in {"chats", "keep"} : Goto(p, step)
      BY <2>3 DEF Mark
    <3> QED
      BY <1>1, <3>1, <3>2, StepStays
  <2>4. CASE SendChats(p)
    BY <1>1, <2>4, StepStays DEF SendChats, Step
  <2>5. CASE SendFails(p) \/ Keep(p) \/ NoticeKilled(p)
    <3>1. pc[p] # "summed" /\ Leave(p) /\ UNCHANGED daily
      BY <2>5 DEF SendFails, Keep, NoticeKilled
    <3> QED
      BY <1>1, <3>1, LeaveStays
  <2>6. CASE Except(p)
    BY <1>1, <2>6, StepStays DEF Except, ByHand, Step
  <2>7. CASE Summarise(p) \/ Summed(p)
    BY <1>1, <2>7, SummariseInv, SummedInv
  <2> QED
    BY <1>3, <2>1, <2>2, <2>3, <2>4, <2>5, <2>6, <2>7 DEF Notice
<1>4. CASE UNCHANGED vars
  BY <1>4, SummaryStays DEF vars, noticeVars, logVars, daily
<1> QED
  BY <1>2, <1>3, <1>4, MorningInv DEF Next

-----------------------------------------------------------------------------
(***************************************************************************)
(* The bounds of the types: no more ids than lines, and no more counts of  *)
(* a client than its lines can have been counted.                          *)
(***************************************************************************)
LEMMA LinesFinite == IsFiniteSet(Lines) /\ Cardinality(Lines) = MaxLines
<1>1. IsFiniteSet(Lines)
  BY Bounds, FS_Interval DEF Lines
<1>2. Cardinality(1 .. MaxLines) = IF 1 > MaxLines THEN 0 ELSE MaxLines - 1 + 1
  BY Bounds, FS_Interval
<1>3. (IF 1 > MaxLines THEN 0 ELSE MaxLines - 1 + 1) = MaxLines
  BY Bounds
<1> QED
  BY <1>1, <1>2, <1>3 DEF Lines

LEMMA IdsBounded == ASSUME LogInv PROVE nextId - 1 <= MaxLines
<1>1. Used \subseteq Lines
  BY AheadKnown DEF LogInv, Used
<1>2. Cardinality(Used) <= Cardinality(Lines) /\ Cardinality(Used) \in Nat
  BY <1>1, LinesFinite, FS_Subset, FS_CardinalityType
<1>3. nextId - 1 <= Cardinality(Used) /\ nextId \in Nat
  BY DEF LogInv, IdsOK, LogTypes, RecordTypes
<1> QED
  BY <1>2, <1>3, LinesFinite, Bounds

LEMMA CountsBounded ==
  ASSUME LogInv, NEW c \in Clients
  PROVE  alerts[c].count <= MaxLines * (MaxMishaps + 1)
<1> DEFINE f == CountsOf(c)
           k == MaxMishaps + 1
<1>1. k \in Nat /\ MaxMishaps \in Nat
  BY Bounds
<1>2. \A l \in Lines : f[l] \in Int /\ f[l] <= k
  <2>1. ASSUME NEW l \in Lines PROVE counted[l] \in Nat /\ counted[l] <= k
    <3>1. counted[l] \in Nat /\ counted[l] <= did.mishap + 1
      BY DEF LogInv, LogTypes, RecordTypes, CountsOK
    <3>2. did.mishap \in Nat /\ did.mishap <= MaxMishaps
      BY <1>1 DEF LogInv, LogTypes, JobTypes, DidTypes
    <3> QED
      BY <1>1, <3>1, <3>2
  <2>2. ASSUME NEW l \in Lines PROVE f[l] = counted[l] \/ f[l] = 0
    BY DEF CountsOf
  <2> HIDE DEF f
  <2> QED
    BY <1>1, <2>1, <2>2
<1>3. SumFunctionOnSet(f, Lines) <= MaxLines * k
  <2> HIDE DEF f, k
  <2> QED
    BY <1>1, <1>2, LinesFinite, SumAtMost
<1>4. SumFunctionOnSet(f, Lines) \in Int
  <2> HIDE DEF f, k
  <2> QED
    BY <1>2, LinesFinite, SumInt
<1>5. MaxLines * k \in Int
  BY <1>1, Bounds
<1>6. alerts[c].count \in Nat /\ alerts[c].count <= SumFunctionOnSet(f, Lines)
  BY DEF LogInv, LogTypes, RecordTypes, AlertRow, SumsOK
<1> QED
  BY <1>3, <1>4, <1>5, <1>6

LEMMA TypesIfInv == ASSUME LogInv, NoticeInv PROVE TypeOK
<1>1. LogTypes /\ FileTypes /\ RecordTypes /\ LockTypes /\ DidTypes /\ RowsOK
  BY DEF LogInv, LogTypes, JobTypes
<1>2. /\ Len(written) \in Nat /\ Len(written) <= MaxLines /\ Known \subseteq Lines
      /\ \A l \in Known : l \in Nat /\ l <= MaxLines
  BY <1>1, AheadKnown, Bounds DEF LogInv, FileTypes, Known
<1>3. /\ nextId \in Nat /\ nextId - 1 <= MaxLines
  BY <1>1, IdsBounded DEF RecordTypes
<1>4. {windows, counted, detail} \subseteq [Lines -> 0 .. MaxMishaps + MaxByHand + 1]
  <2>1. /\ did.mishap \in Nat /\ did.mishap <= MaxMishaps
        /\ did.hand \in Nat /\ did.hand <= MaxByHand
    BY <1>1, Bounds DEF DidTypes
  <2>2. \A l \in Lines : /\ windows[l] \in Nat /\ windows[l] <= 1
                         /\ counted[l] \in Nat /\ counted[l] <= did.mishap + 1
                         /\ detail[l] \in Nat /\ detail[l] <= did.mishap + did.hand + 1
    BY <1>1 DEF RecordTypes, LogInv, CountsOK, WindowsOK
  <2>3. \A l \in Lines : /\ windows[l] \in 0 .. MaxMishaps + MaxByHand + 1
                         /\ counted[l] \in 0 .. MaxMishaps + MaxByHand + 1
                         /\ detail[l] \in 0 .. MaxMishaps + MaxByHand + 1
    BY <2>1, <2>2, Bounds
  <2>4. /\ windows = [l \in Lines |-> windows[l]] /\ counted = [l \in Lines |-> counted[l]]
        /\ detail = [l \in Lines |-> detail[l]]
    BY <1>1 DEF RecordTypes
  <2>5. /\ windows \in [Lines -> 0 .. MaxMishaps + MaxByHand + 1]
        /\ counted \in [Lines -> 0 .. MaxMishaps + MaxByHand + 1]
        /\ detail \in [Lines -> 0 .. MaxMishaps + MaxByHand + 1]
    BY <2>3, <2>4
  <2> QED
    BY <2>5
<1>5. alerts \in [Clients -> AlertType]
  <2>1. ASSUME NEW c \in Clients PROVE alerts[c] \in AlertType
    <3>1. alerts[c] \in AlertRow
      BY <1>1 DEF RecordTypes
    <3>2. alerts[c].id \in 0 .. MaxLines
      BY <1>1, <1>3, <3>1, Bounds DEF RowsOK, AlertRow
    <3>3. alerts[c].count \in 0 .. MaxLines * (MaxMishaps + 1)
      <4>1. alerts[c].count \in Nat /\ alerts[c].count <= MaxLines * (MaxMishaps + 1)
        BY <3>1, CountsBounded DEF AlertRow
      <4>2. MaxLines * (MaxMishaps + 1) \in Int
        BY Bounds
      <4> QED
        BY <4>1, <4>2
    <3>4. alerts[c].first \in 0 .. MaxLines /\ alerts[c].last \in 0 .. MaxLines
      <4>1. CASE alerts[c].id = 0
        BY <1>1, <4>1, Bounds DEF RowsOK, NoAlert
      <4>2. CASE alerts[c].id # 0
        <5>1. alerts[c].first \in Known /\ alerts[c].last \in Known
          BY <1>1, <4>2 DEF RowsOK
        <5> QED
          BY <1>2, <5>1, Bounds
      <4> QED
        BY <4>1, <4>2
    <3>5. alerts[c].notified \in 0 .. MaxLines
      BY <1>1, <1>2, <3>1, Bounds DEF RowsOK, AlertRow
    <3> QED
      BY <3>1, <3>2, <3>3, <3>4, <3>5 DEF AlertRow, AlertType
  <2> QED
    BY <1>1, <2>1 DEF RecordTypes
<1>6. bot.sent \union bot.chats \subseteq (Lines \X Nat) /\ bot.cursor < nextId
  <2>1. bot \in States /\ Honest(bot)
    BY DEF NoticeInv, NoticeTypes
  <2>2. ASSUME NEW e \in bot.sent \union bot.chats PROVE e \in Lines \X Nat
    <3>1. e \in Events
      BY <2>1 DEF States
    <3>2. e = <<e[1], e[2]>> /\ e[1] \in Nat \ {0} /\ e[2] \in Nat
      BY <3>1 DEF Events
    <3>3. e[1] < nextId
      BY <2>1 DEF Honest
    <3>4. e[1] \in Lines
      BY <1>3, <3>2, <3>3, Bounds DEF Lines
    <3> QED
      BY <3>2, <3>4
  <2> QED
    BY <2>1, <2>2 DEF Honest
<1>7. /\ archive \subseteq SUBSET Lines /\ rotated \subseteq Inodes
      /\ saved.ino \in Inodes \union {NoFile} /\ saved.off \in 0 .. MaxLines
  BY <1>1, <1>2 DEF FileTypes, RecordTypes, Saved
<1> QED
  BY <1>1, <1>2, <1>4, <1>5, <1>6, <1>7 DEF TypeOK, FileTypes, RecordTypes, LockTypes

-----------------------------------------------------------------------------
(***************************************************************************)
(* The theorems.                                                           *)
(***************************************************************************)
LEMMA InitInv == Init => LogInv /\ NoticeInv /\ SummaryInv
<1> SUFFICES ASSUME Init PROVE LogInv /\ NoticeInv /\ SummaryInv
  OBVIOUS
<1>1. LogInit /\ LogInv
  BY LogInitInv DEF Init
<1>2. NoticeInv
  <2>1. /\ bot = NoBatch.state /\ batch = [p \in Procs |-> NoBatch]
        /\ \A p \in Procs : pc[p] = "idle"
        /\ Rows = {} /\ nextId = 1
    BY <1>1 DEF Init, LogInit, Rows, NoAlert
  <2>2. NoBatch.state \in States /\ NoBatch \in Batches
    BY DEF NoBatch, Batches, States
  <2>3. /\ NoBatch.cursor = 0 /\ NoBatch.admin = {} /\ NoBatch.chats = {}
        /\ NoBatch.state.cursor = 0 /\ NoBatch.state.sent = {} /\ NoBatch.state.chats = {}
    BY DEF NoBatch
  <2>4. Honest(NoBatch.state) /\ Faithful({}) /\ Reported(0, {}, {})
    BY <2>1, <2>3 DEF Honest, Faithful, Reported
  <2>5. Fits(NoBatch, "idle")
    BY <2>1, <2>3, <2>4 DEF Fits, Sending
  <2> QED
    BY <2>1, <2>2, <2>3, <2>4, <2>5 DEF NoticeInv, NoticeTypes
<1>3. SummaryInv
  <2>1. /\ day = 0 /\ summary = 0 /\ sums = [d \in 0 .. MaxDays |-> 0]
        /\ \A p \in Procs : pc[p] = "idle"
    BY <1>1 DEF Init, LogInit
  <2> QED
    BY <2>1, NoFileIsNone, NoticesAssumption DEF SummaryInv
<1> QED
  BY <1>1, <1>2, <1>3

LEMMA KnownAlways == Spec => [](LogInv /\ NoticeInv /\ SummaryInv)
<1>1. LogInv /\ NoticeInv /\ SummaryInv /\ [Next]_vars => (LogInv /\ NoticeInv /\ SummaryInv)'
  BY NoticeStep, SummaryStep
<1> QED
  BY <1>1, InitInv, PTL DEF Spec

\* Type correctness of everything the activity commands and the notices store; no more
\* alert ids are given than lines written, and a row counts no more than its lines can.
THEOREM ActivityTypes == Spec => []TypeOK
<1>1. LogInv /\ NoticeInv /\ SummaryInv => TypeOK
  BY TypesIfInv
<1> QED
  BY <1>1, KnownAlways, PTL

\* However often a sync fails, is killed and reads a line again, the alert windows hold it
\* once, and counters and details hold it twice only after such a run or a backfill.
THEOREM LinesCountedOnce == Spec => []CountedOnce
<1>1. LogInv /\ NoticeInv /\ SummaryInv => CountedOnce
  BY CountedIfLog
<1> QED
  BY <1>1, KnownAlways, PTL

\* No line below the saved offset is left out, and no line younger than the retention is
\* in no file, wherever the rotation is killed and whatever inode numbers are used again.
THEOREM NoLineLost == Spec => []NoneLost
<1>1. LogInv /\ NoticeInv /\ SummaryInv => NoneLost
  BY ReadIfLog, KeptIfLog DEF NoneLost
<1> QED
  BY <1>1, KnownAlways, PTL

\* Runs of notify-geoip that overlap, fail and save over one another pass no alert over.
THEOREM NoAlertPassedOver == Spec => []NothingPassedOver
<1>1. LogInv /\ NoticeInv /\ SummaryInv => NothingPassedOver
  BY PassedIfNotice
<1> QED
  BY <1>1, KnownAlways, PTL

\* A morning's summary is sent again only after one that was sent and not recorded.
THEOREM SummarySentOnce == Spec => []SummaryOnce
<1>1. LogInv /\ NoticeInv /\ SummaryInv => SummaryOnce
  BY OnceIfSummary
<1> QED
  BY <1>1, KnownAlways, PTL
=============================================================================
