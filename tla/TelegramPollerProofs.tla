------------------------ MODULE TelegramPollerProofs ------------------------
(***************************************************************************)
(* Proofs about TelegramPoller, for any set of pollers, any number of      *)
(* updates and any bounds.                                                 *)
(*                                                                         *)
(* The first part follows poller.lock alone (IInv): one holder, one batch  *)
(* in work, for the owner it was fetched for.  The second follows what the *)
(* batches hold (QInv): the numbering Telegram uses, the cursor and the    *)
(* signatures in manager.db, the batch a poller was answered with and the  *)
(* copies of the row that are written back.                                *)
(***************************************************************************)
EXTENDS TelegramPoller, WellFoundedInduction, SequenceTheorems, FiniteSetTheorems, TLAPS

\* A copy is always a pair of a row and an owner.
Copies == mine = [c \in Consumers |-> [row |-> mine[c].row, owner |-> mine[c].owner]]

Shape ==
  /\ pc \in [Consumers -> Steps]
  /\ lock \in Consumers \union {NoOne}
  /\ Copies
  /\ OneHolder

\* Once a poller has been let in before the registered owner, none is about to ask
\* Telegram again.
LastBatch ==
  /\ overtaken \in {0, 1}
  /\ OwnerRegistered /\ overtaken = 1 => \A c \in Pollers : pc[c] # "loaded"

IInv == Shape /\ LastBatch /\ WorksForOwner

LEMMA InitIInv == Init => IInv
  BY ConsumersAssumption
  DEF Init, IInv, Shape, Copies, OneHolder, LastBatch, WorksForOwner, Steps, Holding, Batch,
      Consumers, NoCopy, OwnerRegistered

\* How a consumer leaves: it holds nothing any more.
LEMMA LeaveKeeps ==
  ASSUME IInv, NEW c \in Consumers, Leave(c), UNCHANGED <<owner, overtaken>>
  PROVE  IInv'
  <1>1. Shape'
    BY ConsumersAssumption
    DEF IInv, Shape, Copies, OneHolder, Leave, Goto, Steps, Holding, NoCopy, Consumers
  <1>2. LastBatch'
    BY ConsumersAssumption
    DEF IInv, Shape, LastBatch, OwnerRegistered, Leave, Goto, Consumers, Steps, Holding
  <1>3. WorksForOwner'
    BY ConsumersAssumption
    DEF IInv, Shape, WorksForOwner, Leave, Goto, Consumers, Batch, Holding
  <1> QED
    BY <1>1, <1>2, <1>3 DEF IInv

\* The holder of the lock goes on with its batch, for the same owner.
LEMMA BatchContinues ==
  ASSUME IInv, NEW c \in Consumers, NEW step \in Batch \ {"loaded"}, pc[c] \in Batch,
         Goto(c, step), UNCHANGED <<lock, owner, overtaken>>,
         OwnerRegistered' => OwnerRegistered,
         NEW r, NEW o \in {mine[c].owner, owner},
         mine' = [mine EXCEPT ![c] = [row |-> r, owner |-> o]]
  PROVE  IInv'
  <1>1. Shape'
    BY ConsumersAssumption
    DEF IInv, Shape, Copies, OneHolder, Goto, Steps, Holding, Batch, Consumers
  <1>2. LastBatch'
    BY ConsumersAssumption
    DEF IInv, Shape, LastBatch, OwnerRegistered, Goto, Consumers, Steps, Holding, Batch
  <1>3. WorksForOwner'
    BY ConsumersAssumption DEF IInv, Shape, WorksForOwner, Goto, Consumers, Batch, Holding
  <1> QED
    BY <1>1, <1>2, <1>3 DEF IInv

LEMMA CopyKept ==
  ASSUME IInv, NEW c \in Consumers, mine' = mine
  PROVE  mine' = [mine EXCEPT ![c] = [row |-> mine[c].row, owner |-> mine[c].owner]]
  BY DEF IInv, Shape, Copies

\* Assigning the row of a copy leaves its owner.
LEMMA RowAssigned ==
  ASSUME IInv, NEW c \in Consumers, NEW r, mine' = [mine EXCEPT ![c].row = r]
  PROVE  mine' = [mine EXCEPT ![c] = [row |-> r, owner |-> mine[c].owner]]
  <1>1. mine[c] = [row |-> mine[c].row, owner |-> mine[c].owner]
    BY DEF IInv, Shape, Copies
  <1>2. [mine[c] EXCEPT !.row = r] = [row |-> r, owner |-> mine[c].owner]
    BY <1>1
  <1>3. mine' = [mine EXCEPT ![c] = [mine[c] EXCEPT !.row = r]]
    OBVIOUS
  <1> QED
    BY <1>2, <1>3

-----------------------------------------------------------------------------
LEMMA ChecksKeeps ==
  ASSUME IInv, NEW c \in Pollers, Checks(c)
  PROVE  IInv'
  BY ConsumersAssumption
  DEF IInv, Shape, Copies, OneHolder, LastBatch, WorksForOwner, OwnerRegistered, Checks, Goto,
      Steps, Holding, Batch, Consumers, stored, history

LEMMA TakesLockKeeps ==
  ASSUME IInv, NEW c \in Pollers, TakesLock(c)
  PROVE  IInv'
  <1> USE ConsumersAssumption DEF TakesLock, Goto, Consumers, Holding, stored, history
  <1>1. CASE lock = NoOne
    BY <1>1 DEF IInv, Shape, Copies, OneHolder, LastBatch, WorksForOwner, OwnerRegistered,
                Steps, Batch
  <1>2. CASE lock # NoOne
    BY <1>2 DEF IInv, Shape, Copies, OneHolder, LastBatch, WorksForOwner, OwnerRegistered,
                Steps, Batch
  <1> QED
    BY <1>1, <1>2

LEMMA LoadsKeeps ==
  ASSUME IInv, NEW c \in Pollers, Loads(c)
  PROVE  IInv'
  <1>1. CASE OwnerRegistered \/ owner = 0
    BY <1>1, LeaveKeeps DEF Loads, Consumers, stored, history
  <1>2. CASE ~(OwnerRegistered \/ owner = 0)
    <2>1. Goto(c, "loaded") /\ mine' = [mine EXCEPT ![c] = [row |-> row, owner |-> owner]]
      BY <1>2 DEF Loads
    <2>2. UNCHANGED <<lock, owner, overtaken>> /\ pc[c] = "locked"
      BY <1>2 DEF Loads, stored, history
    <2>3. Shape'
      BY <2>1, <2>2, ConsumersAssumption
      DEF IInv, Shape, Copies, OneHolder, Goto, Steps, Holding, Consumers
    <2>4. LastBatch'
      BY <1>2, <2>1, <2>2, ConsumersAssumption
      DEF IInv, Shape, LastBatch, OwnerRegistered, Goto, Consumers
    <2>5. WorksForOwner'
      <3>1. /\ mine'[c] = [row |-> row, owner |-> owner]
            /\ \A d \in Pollers \ {c} : mine'[d] = mine[d] /\ pc'[d] = pc[d]
        BY <2>1 DEF IInv, Shape, Copies, Goto, Consumers
      <3> QED
        BY <2>2, <3>1 DEF IInv, WorksForOwner
    <2> QED
      BY <2>3, <2>4, <2>5 DEF IInv
  <1> QED
    BY <1>1, <1>2

\* The owner before it has the lock, and when it gets it.
LEMMA OwnerEnters ==
  ASSUME IInv, OwnerSearches \/ OwnerRegisters \/ OwnerTakesLock \/ OwnerTimesOut
  PROVE  IInv'
  <1> USE ConsumersAssumption DEF Consumers
  <1>1. CASE OwnerSearches
    BY <1>1 DEF IInv, Shape, Copies, OneHolder, LastBatch, WorksForOwner, OwnerRegistered,
                OwnerSearches, Goto, Steps, Holding, Batch, stored
  <1>2. CASE OwnerRegisters
    BY <1>2 DEF IInv, Shape, Copies, OneHolder, LastBatch, WorksForOwner, OwnerRegistered,
                OwnerRegisters, Goto, Steps, Holding, Batch, stored
  <1>3. CASE OwnerTakesLock
    <2>1. Shape'
      BY <1>3 DEF IInv, Shape, Copies, OneHolder, OwnerTakesLock, Goto, Steps, Holding
    <2>2. LastBatch' /\ WorksForOwner'
      BY <1>3 DEF IInv, Shape, LastBatch, WorksForOwner, OwnerRegistered, OwnerTakesLock, Goto,
                  Batch, Holding, stored, history
    <2> QED
      BY <2>1, <2>2 DEF IInv
  <1>4. CASE OwnerTimesOut
    BY <1>4, LeaveKeeps DEF OwnerTimesOut, stored, history
  <1> QED
    BY <1>1, <1>2, <1>3, <1>4

\* A poller's request while the owner is registered counts, and leaves no other poller
\* that could make one.
LEMMA FetchesKeeps ==
  ASSUME IInv, NEW c \in Consumers, Fetches(c)
  PROVE  IInv'
  <1>1. PICK step \in {"again", "fetched"} : Goto(c, step)
    BY DEF Fetches
  <1>2. pc[c] = "loaded" /\ UNCHANGED <<lock, owner, mine>>
    BY DEF Fetches, stored
  <1>3. Shape'
    BY <1>1, <1>2, ConsumersAssumption
    DEF IInv, Shape, Copies, OneHolder, Goto, Steps, Holding
  <1>4. WorksForOwner'
    BY <1>1, <1>2 DEF IInv, Shape, WorksForOwner, Goto, Batch, Holding
  <1>5. \A d \in Pollers \ {c} : pc'[d] = pc[d] /\ pc[d] # "loaded"
    BY <1>1, <1>2, ConsumersAssumption DEF IInv, Shape, OneHolder, Goto, Consumers, Holding
  <1>6. pc'[c] # "loaded"
    BY <1>1 DEF IInv, Shape, Goto
  <1>7. OwnerRegistered' = OwnerRegistered
    BY <1>1, <1>2, ConsumersAssumption DEF IInv, Shape, OwnerRegistered, Goto, Consumers
  <1>8. overtaken' \in {0, 1}
    BY <1>2 DEF IInv, LastBatch, Fetches, Consumers
  <1> QED
    BY <1>3, <1>4, <1>5, <1>6, <1>8 DEF IInv, LastBatch

\* The other steps of a batch: reading again, claiming, acting and answering.
LEMMA BatchKeeps ==
  ASSUME IInv, NEW c \in Consumers,
         \/ FetchesFromHead(c) \/ Claims(c) \/ TakesMessage(c) \/ AcceptsTap(c) \/ RefusesTap(c)
         \/ Replies(c) \/ SendsNothing(c)
  PROVE  IInv'
  <1> USE ConsumersAssumption DEF Consumers
  <1>1. CASE FetchesFromHead(c)
    <2>1. OwnerRegistered' => OwnerRegistered
      BY <1>1 DEF FetchesFromHead, IInv, Shape, OwnerRegistered, Goto
    <2>2. Goto(c, "fetched") /\ pc[c] = "again" /\ UNCHANGED <<lock, owner, overtaken, mine>>
      BY <1>1 DEF FetchesFromHead, stored
    <2> QED
      BY <2>1, <2>2, CopyKept, BatchContinues DEF Batch, Holding
  <1>2. CASE Claims(c)
    <2>1. CASE row.sequence # mine[c].row.sequence
      BY <1>2, <2>1, LeaveKeeps DEF Claims
    <2>2. CASE row.sequence = mine[c].row.sequence
      <3>1. /\ Goto(c, "acting") /\ pc[c] = "fetched" /\ c \in Pollers
            /\ UNCHANGED <<lock, owner, overtaken>>
            /\ mine' = [mine EXCEPT ![c].row = Recursored(mine[c].row, row')]
        BY <1>2, <2>2 DEF Claims
      <3>2. mine' = [mine EXCEPT ![c] = [row |-> Recursored(mine[c].row, row'),
                                         owner |-> mine[c].owner]]
        BY <3>1, RowAssigned
      <3>3. OwnerRegistered' => OwnerRegistered
        BY <3>1 DEF IInv, Shape, OwnerRegistered, Goto
      <3> QED
        BY <3>1, <3>2, <3>3, BatchContinues DEF Batch, Holding
    <2> QED
      BY <2>1, <2>2
  <1>3. CASE TakesMessage(c)
    <2>1. /\ Goto(c, "replying") /\ pc[c] = "acting"
          /\ UNCHANGED <<lock, owner, overtaken, mine>>
      BY <1>3 DEF TakesMessage, Acting, stored
    <2>2. OwnerRegistered' => OwnerRegistered
      BY <2>1 DEF IInv, Shape, OwnerRegistered, Goto
    <2> QED
      BY <2>1, <2>2, CopyKept, BatchContinues DEF Batch, Holding
  <1>4. CASE AcceptsTap(c)
    <2> DEFINE guarded == MarkUsed(mine[c].row, Head(todo[c]).tap)
    <2>1. /\ Goto(c, "replying") /\ pc[c] = "acting"
          /\ UNCHANGED <<lock, owner, overtaken>>
      BY <1>4 DEF AcceptsTap, Acting
    <2>2. mine' = [mine EXCEPT ![c] = [row |-> guarded, owner |-> mine[c].owner]]
      <3>1. mine' = [mine EXCEPT ![c].row = guarded]
        BY <1>4 DEF AcceptsTap
      <3> QED
        BY <3>1, RowAssigned
    <2>3. OwnerRegistered' => OwnerRegistered
      BY <2>1 DEF IInv, Shape, OwnerRegistered, Goto
    <2> QED
      BY <2>1, <2>2, <2>3, BatchContinues DEF Batch, Holding
  <1>5. CASE RefusesTap(c)
    BY <1>5 DEF IInv, Shape, Copies, OneHolder, LastBatch, WorksForOwner, OwnerRegistered,
                RefusesTap, stored
  <1>6. CASE Replies(c)
    <2>1. /\ Goto(c, "acting") /\ pc[c] = "replying"
          /\ UNCHANGED <<lock, owner, overtaken>>
      BY <1>6 DEF Replies
    <2>2. PICK base \in {mine[c], [row |-> row, owner |-> owner]} :
            mine' = [mine EXCEPT ![c] = [base EXCEPT !.row.active = menus']]
      BY <1>6 DEF Replies
    <2>3. base = [row |-> base.row, owner |-> base.owner]
      BY <2>2 DEF IInv, Shape, Copies
    <2>4. [base EXCEPT !.row.active = menus'] =
            [row |-> [base.row EXCEPT !.active = menus'], owner |-> base.owner]
      BY <2>3
    <2>5. base.owner \in {mine[c].owner, owner}
      BY <2>2
    <2>6. OwnerRegistered' => OwnerRegistered
      BY <2>1 DEF IInv, Shape, OwnerRegistered, Goto
    <2> QED
      BY <2>1, <2>2, <2>4, <2>5, <2>6, BatchContinues DEF Batch, Holding
  <1>7. CASE SendsNothing(c)
    <2>1. /\ Goto(c, "acting") /\ pc[c] = "replying"
          /\ UNCHANGED <<lock, owner, overtaken, mine>>
      BY <1>7 DEF SendsNothing, stored, history
    <2>2. OwnerRegistered' => OwnerRegistered
      BY <2>1 DEF IInv, Shape, OwnerRegistered, Goto
    <2> QED
      BY <2>1, <2>2, CopyKept, BatchContinues DEF Batch, Holding
  <1> QED
    BY <1>1, <1>2, <1>3, <1>4, <1>5, <1>6, <1>7

\* The lock is free again after each of these, whatever has been written.
LEMMA LeavingKeeps ==
  ASSUME IInv, NEW c \in Consumers, FetchFails(c) \/ ClaimFails(c) \/ Finishes(c) \/ Killed(c)
  PROVE  IInv'
  BY LeaveKeeps DEF FetchFails, ClaimFails, Finishes, Killed, stored, history

\* The owner changes only under the lock, so that no poller holds a batch.
LEMMA OwnerBindsKeeps ==
  ASSUME IInv, OwnerBinds
  PROVE  IInv'
  <1> USE ConsumersAssumption DEF Consumers
  <1>1. pc[Owner] = "fetched" /\ overtaken' = overtaken
    BY DEF OwnerBinds
  <1>2. \A d \in Pollers : pc[d] \notin Holding
    BY <1>1 DEF IInv, Shape, OneHolder, Holding
  <1>3. CASE row.sequence # mine[Owner].row.sequence
    <2>1. /\ mine' = [mine EXCEPT ![Owner] = [row |-> row, owner |-> owner]]
          /\ Goto(Owner, "loaded") /\ UNCHANGED <<lock, owner>>
      BY <1>3 DEF OwnerBinds, stored
    <2>2. Shape'
      BY <1>1, <2>1 DEF IInv, Shape, Copies, OneHolder, Goto, Steps, Holding
    <2>3. LastBatch' /\ WorksForOwner'
      BY <1>1, <1>2, <2>1
      DEF IInv, Shape, LastBatch, WorksForOwner, OwnerRegistered, Goto, Batch, Holding
    <2> QED
      BY <2>2, <2>3 DEF IInv
  <1>4. CASE row.sequence = mine[Owner].row.sequence
    <2>1. Leave(Owner)
      BY <1>4 DEF OwnerBinds
    <2>2. Shape'
      BY <1>1, <2>1 DEF IInv, Shape, Copies, OneHolder, Leave, Goto, Steps, Holding, NoCopy
    <2>3. LastBatch' /\ WorksForOwner'
      BY <1>1, <1>2, <2>1
      DEF IInv, Shape, LastBatch, WorksForOwner, OwnerRegistered, Leave, Goto, Batch, Holding
    <2> QED
      BY <2>2, <2>3 DEF IInv
  <1> QED
    BY <1>3, <1>4

\* Telegram, its users and the notifier touch nothing of this.
LEMMA OthersKeep ==
  ASSUME IInv, UserSends \/ Ages \/ Renumbers \/ Notifies
  PROVE  IInv'
  <1>1. UNCHANGED <<pc, lock, mine, owner, overtaken>>
    BY DEF UserSends, Ages, Renumbers, Notifies, NotifierLoads, NotifierSends, NotifierSaves,
           NotifierKilled, stored, history
  <1> QED
    BY <1>1 DEF IInv, Shape, Copies, OneHolder, LastBatch, WorksForOwner, OwnerRegistered

LEMMA NextIInv == IInv /\ [Next]_vars => IInv'
  <1> SUFFICES ASSUME IInv, [Next]_vars PROVE IInv'
    OBVIOUS
  <1>1. ASSUME NEW c \in Pollers, Polls(c) PROVE IInv'
    BY <1>1, ChecksKeeps, TakesLockKeeps, LoadsKeeps DEF Polls
  <1>2. ASSUME NEW c \in Consumers, Works(c) PROVE IInv'
    BY <1>2, FetchesKeeps, BatchKeeps, LeavingKeeps DEF Works
  <1>3. ASSUME NEW c \in Consumers, Killed(c) PROVE IInv'
    BY <1>3, LeavingKeeps
  <1>4. CASE OwnerSearches \/ OwnerWorks
    BY <1>4, OwnerEnters, OwnerBindsKeeps DEF OwnerWorks
  <1>5. CASE UNCHANGED vars
    BY <1>5 DEF vars, stored, history, IInv, Shape, Copies, OneHolder, LastBatch, WorksForOwner,
                OwnerRegistered
  <1> QED
    BY <1>1, <1>2, <1>3, <1>4, <1>5, OthersKeep DEF Next

\* poller.lock has at most one holder, and it is the consumer whose step says so: two
\* batches are never in work at once.
THEOREM LockExclusion == Spec => []OneHolder
  <1>1. IInv => OneHolder
    BY DEF IInv, Shape
  <1> QED
    BY <1>1, InitIInv, NextIInv, PTL DEF Spec

\* A batch is finished for the owner it was fetched for (telegram_poller_lock around
\* _poll_user_subscriptions and the binding).
THEOREM BatchesServeTheirOwner == Spec => []WorksForOwner
  <1>1. IInv => WorksForOwner
    BY DEF IInv
  <1> QED
    BY <1>1, InitIInv, NextIInv, PTL DEF Spec

\* A waiting owner sees at most one more request, however many pollers there are
\* (the two looks at the entry file in telegram_poller_lock).
THEOREM OwnerIsNextAfterBatch == Spec => []OvertakenOnce
  <1>1. IInv => OvertakenOnce
    BY DEF IInv, LastBatch, OvertakenOnce
  <1> QED
    BY <1>1, InitIInv, NextIInv, PTL DEF Spec
-----------------------------------------------------------------------------
(***************************************************************************)
(* Sequences of updates.  Telegram keeps them in the order of their ids,   *)
(* which is also the order they were sent in.                              *)
(***************************************************************************)
Ordered(s) == \A i, j \in 1 .. Len(s) : i < j => s[i].id < s[j].id /\ s[i].n < s[j].n

\* Every natural number is good if zero is and the successor of a good one is.
LEMMA Counting ==
  ASSUME NEW Good, 0 \in Good, \A n \in Nat : n \in Good => n + 1 \in Good
  PROVE  \A n \in Nat : n \in Good
<1> DEFINE Bad == {n \in Nat : n \notin Good}
<1>1. SUFFICES ASSUME Bad # {} PROVE FALSE
  OBVIOUS
<1>2. PICK n \in Bad : \A m \in Bad : <<m, n>> \notin OpToRel(<, Nat)
  <2>1. Bad \subseteq Nat
    OBVIOUS
  <2> HIDE DEF Bad
  <2> QED
    BY <1>1, <2>1, NatLessThanWellFounded, WFMin
<1>3. n # 0 /\ n - 1 \in Nat /\ (n - 1) + 1 = n /\ <<n - 1, n>> \in OpToRel(<, Nat)
  BY DEF OpToRel
<1>4. n - 1 \in Good
  BY <1>2, <1>3
<1>5. (n - 1) + 1 \in Good
  BY <1>3, <1>4
<1> QED
  BY <1>3, <1>5

\* What From computes, as an equation its recursion satisfies.
KeptBy(s, id, kept, i) ==
  IF i = 0 THEN <<>>
  ELSE IF s[i].id >= id THEN Append(kept[i - 1], s[i])
  ELSE kept[i - 1]

Keeps(s, id, n, kept) == kept = [i \in 0 .. n |-> KeptBy(s, id, kept, i)]

LEMMA KeepsStep ==
  ASSUME NEW s, NEW id, NEW n \in Nat, NEW kept, Keeps(s, id, n, kept)
  PROVE  \A i \in 0 .. n : kept[i] = KeptBy(s, id, kept, i)
  BY DEF Keeps

LEMMA KeepsExists == ASSUME NEW s, NEW id PROVE \A n \in Nat : \E kept : Keeps(s, id, n, kept)
<1> DEFINE Good == {n \in Nat : \E kept : Keeps(s, id, n, kept)}
<1>1. 0 \in Good
  <2> DEFINE kept == [i \in 0 .. 0 |-> <<>>]
  <2>1. Keeps(s, id, 0, kept)
    BY DEF Keeps
  <2> QED
    BY <2>1
<1>2. ASSUME NEW n \in Nat, n \in Good PROVE n + 1 \in Good
  <2>1. PICK kept : Keeps(s, id, n, kept)
    BY <1>2
  <2> DEFINE more == [i \in 0 .. n + 1 |->
                       IF i = n + 1 THEN KeptBy(s, id, kept, n + 1) ELSE kept[i]]
  <2>2. /\ more[n + 1] = KeptBy(s, id, kept, n + 1)
        /\ \A i \in 0 .. n : more[i] = kept[i]
    OBVIOUS
  <2>3. more = [i \in 0 .. n + 1 |-> more[i]]
    OBVIOUS
  <2> HIDE DEF more
  <2>4. ASSUME NEW i \in 0 .. n + 1 PROVE more[i] = KeptBy(s, id, more, i)
    <3>1. CASE i = n + 1
      <4>1. n + 1 # 0 /\ (n + 1) - 1 = n /\ n \in 0 .. n
        OBVIOUS
      <4>2. more[n] = kept[n]
        BY <2>2, <4>1
      <4>3. KeptBy(s, id, more, n + 1) = KeptBy(s, id, kept, n + 1)
        BY <4>1, <4>2 DEF KeptBy
      <4> QED
        BY <2>2, <3>1, <4>3
    <3>2. CASE i # n + 1
      <4>1. i \in 0 .. n /\ (i # 0 => i - 1 \in 0 .. n)
        BY <3>2
      <4>2. kept[i] = KeptBy(s, id, kept, i)
        BY <2>1, <4>1, KeepsStep
      <4>3. i # 0 => more[i - 1] = kept[i - 1]
        BY <2>2, <4>1
      <4>4. KeptBy(s, id, more, i) = KeptBy(s, id, kept, i)
        BY <4>3 DEF KeptBy
      <4> QED
        BY <2>2, <4>1, <4>2, <4>4
    <3> QED
      BY <3>1, <3>2
  <2>5. Keeps(s, id, n + 1, more)
    BY <2>3, <2>4, Zenon DEF Keeps
  <2> QED
    BY <2>5
<1> HIDE DEF Good
<1>3. \A n \in Nat : n \in Good
  BY <1>1, <1>2, Counting
<1> QED
  BY <1>3 DEF Good

\* A later update is appended.
LEMMA AppendUpdate ==
  ASSUME NEW t \in Seq(Update), Ordered(t), NEW w \in Update,
         \A k \in 1 .. Len(t) : t[k].id < w.id /\ t[k].n < w.n
  PROVE  /\ Append(t, w) \in Seq(Update) /\ Ordered(Append(t, w))
         /\ ToSet(Append(t, w)) = ToSet(t) \union {w}
<1>1. /\ Append(t, w) \in Seq(Update) /\ Len(Append(t, w)) = Len(t) + 1
      /\ \A k \in 1 .. Len(t) : Append(t, w)[k] = t[k]
      /\ Append(t, w)[Len(t) + 1] = w
  BY AppendProperties
<1>2. /\ Len(t) \in Nat /\ DOMAIN t = 1 .. Len(t)
      /\ DOMAIN Append(t, w) = 1 .. Len(t) + 1
  BY <1>1
<1>3. ASSUME NEW j \in 1 .. Len(t) + 1, NEW k \in 1 .. Len(t) + 1, j < k
      PROVE  /\ Append(t, w)[j].id < Append(t, w)[k].id
             /\ Append(t, w)[j].n < Append(t, w)[k].n
  <2>1. CASE k = Len(t) + 1
    BY <1>1, <1>2, <1>3, <2>1
  <2>2. CASE k # Len(t) + 1
    <3>1. j \in 1 .. Len(t) /\ k \in 1 .. Len(t)
      BY <1>2, <1>3, <2>2
    <3>2. t[j].id < t[k].id /\ t[j].n < t[k].n
      BY <1>3, <3>1 DEF Ordered
    <3> QED
      BY <1>1, <3>1, <3>2
  <2> QED
    BY <2>1, <2>2
<1>4. Ordered(Append(t, w))
  BY <1>1, <1>3 DEF Ordered
<1>5. ToSet(Append(t, w)) = ToSet(t) \union {w}
  BY <1>1, <1>2 DEF ToSet
<1> QED
  BY <1>1, <1>4, <1>5

\* From keeps exactly the updates from id on, in their order.
LEMMA FromKeeps ==
  ASSUME NEW s \in Seq(Update), Ordered(s), NEW id \in Int
  PROVE  /\ From(s, id) \in Seq(Update) /\ Ordered(From(s, id))
         /\ ToSet(From(s, id)) = {u \in ToSet(s) : u.id >= id}
<1> DEFINE N == Len(s)
           kept == CHOOSE k : Keeps(s, id, N, k)
<1>1. From(s, id) = kept[N]
  BY DEF From, Keeps, KeptBy
<1>2. N \in Nat /\ \A i \in 1 .. N : s[i] \in Update
  OBVIOUS
<1>3. Keeps(s, id, N, kept)
  BY <1>2, KeepsExists
<1> HIDE DEF kept
<1> DEFINE Holds(i) ==
             /\ kept[i] \in Seq(Update) /\ Ordered(kept[i])
             /\ ToSet(kept[i]) = {u \in {s[j] : j \in 1 .. i} : u.id >= id}
           Good == {i \in Nat : i <= N => Holds(i)}
<1>4. 0 \in Good
  <2>1. 0 \in 0 .. N
    BY <1>2
  <2>2. kept[0] = KeptBy(s, id, kept, 0)
    BY <1>2, <1>3, <2>1, KeepsStep
  <2>3. kept[0] = <<>>
    BY <2>2 DEF KeptBy
  <2>4. <<>> \in Seq(Update) /\ Ordered(<<>>) /\ ToSet(<<>>) = {}
    BY DEF Ordered, ToSet
  <2>5. {s[j] : j \in 1 .. 0} = {}
    OBVIOUS
  <2> QED
    BY <2>3, <2>4, <2>5
<1>5. ASSUME NEW i \in Nat, i \in Good PROVE i + 1 \in Good
  <2> SUFFICES ASSUME i + 1 <= N PROVE Holds(i + 1)
    OBVIOUS
  <2>1. i + 1 \in 0 .. N /\ i + 1 # 0 /\ (i + 1) - 1 = i /\ i + 1 \in 1 .. N
    BY <1>2
  <2>2. kept[i + 1] = IF s[i + 1].id >= id THEN Append(kept[i], s[i + 1]) ELSE kept[i]
    <3>1. kept[i + 1] = KeptBy(s, id, kept, i + 1)
      BY <1>2, <1>3, <2>1, KeepsStep
    <3> QED
      BY <2>1, <3>1 DEF KeptBy
  <2>3. /\ kept[i] \in Seq(Update) /\ Ordered(kept[i])
        /\ ToSet(kept[i]) = {u \in {s[j] : j \in 1 .. i} : u.id >= id}
    BY <1>5
  <2>4. {s[j] : j \in 1 .. i + 1} = {s[j] : j \in 1 .. i} \union {s[i + 1]}
    <3>1. \A j \in Int : j \in 1 .. i + 1 <=> j \in 1 .. i \/ j = i + 1
      OBVIOUS
    <3> QED
      BY <3>1
  <2>5. CASE s[i + 1].id >= id
    <3> DEFINE t == kept[i]
               w == s[i + 1]
    <3>1. kept[i + 1] = Append(t, w) /\ w \in Update
      BY <1>2, <2>1, <2>2, <2>5
    <3>2. /\ Append(t, w) \in Seq(Update) /\ Len(Append(t, w)) = Len(t) + 1
          /\ \A k \in 1 .. Len(t) : Append(t, w)[k] = t[k]
          /\ Append(t, w)[Len(t) + 1] = w
      BY <2>3, <3>1, AppendProperties
    <3>3. ASSUME NEW k \in 1 .. Len(t) PROVE t[k].id < w.id /\ t[k].n < w.n
      <4>1. t[k] \in ToSet(t)
        BY <2>3 DEF ToSet
      <4>2. PICK j \in 1 .. i : t[k] = s[j]
        BY <2>3, <4>1
      <4> QED
        BY <2>1, <4>2 DEF Ordered
    <3>4. Ordered(Append(t, w)) /\ ToSet(Append(t, w)) = ToSet(t) \union {w}
      <4> HIDE DEF t, w
      <4> QED
        BY <2>3, <3>1, <3>3, AppendUpdate DEF t
    <3> QED
      BY <2>3, <2>4, <2>5, <3>1, <3>2, <3>4
  <2>6. CASE ~ (s[i + 1].id >= id)
    BY <2>2, <2>3, <2>4, <2>6
  <2> QED
    BY <2>5, <2>6
<1>6. N \in Good
  <2> HIDE DEF Good
  <2> QED
    BY <1>2, <1>4, <1>5, Counting
<1>7. ToSet(s) = {s[j] : j \in 1 .. N}
  BY DEF ToSet
<1> QED
  BY <1>1, <1>2, <1>6, <1>7

\* The smallest and the greatest id of a batch are those of its ends.
LEMMA EndsOfBatch ==
  ASSUME NEW s \in Seq(Update), Ordered(s), s # <<>>
  PROVE  /\ s[1] \in ToSet(s) /\ Head(s) = s[1]
         /\ Min(Ids(ToSet(s))) = s[1].id
         /\ \A u \in ToSet(s) : s[1].id <= u.id
         /\ \E v \in ToSet(s) : Max(Ids(ToSet(s))) = v.id /\ \A u \in ToSet(s) : u.id <= v.id
<1> DEFINE N == Len(s)
<1>1. N \in Nat /\ N >= 1 /\ DOMAIN s = 1 .. N /\ \A i \in 1 .. N : s[i].id \in Int
  <2>1. N \in Nat /\ N >= 1 /\ DOMAIN s = 1 .. N
    BY EmptySeq, LenProperties
  <2>2. \A i \in 1 .. N : s[i] \in Update
    BY <2>1
  <2>3. \A u \in Update : u.id \in Int
    BY ConsumersAssumption DEF Update
  <2> QED
    BY <2>1, <2>2, <2>3
<1>2. \A i \in 1 .. N : s[1].id <= s[i].id /\ s[i].id <= s[N].id
  BY <1>1 DEF Ordered
<1>3. /\ s[1] \in ToSet(s) /\ s[N] \in ToSet(s) /\ Head(s) = s[1]
      /\ \A u \in ToSet(s) : u.id \in Int /\ s[1].id <= u.id /\ u.id <= s[N].id
  BY <1>1, <1>2 DEF ToSet
<1>4. /\ s[1].id \in Ids(ToSet(s)) /\ s[N].id \in Ids(ToSet(s))
      /\ \A x \in Ids(ToSet(s)) : x \in Int /\ s[1].id <= x /\ x <= s[N].id
  BY <1>3 DEF Ids
<1>5. Min(Ids(ToSet(s))) = s[1].id
  BY <1>4 DEF Min
<1>6. Max(Ids(ToSet(s))) = s[N].id
  BY <1>4 DEF Max
<1> QED
  BY <1>3, <1>5, <1>6

-----------------------------------------------------------------------------
(***************************************************************************)
(* The types.                                                              *)
(***************************************************************************)
Fate == [claimed : BOOLEAN, skipped : BOOLEAN, done : Nat, gone : {"no", "forgotten", "expired"}]
Deeds == {"try", "notice", "kill", "age", "reminder", "unsaved"}

\* A row whose count of restarts of the numbering is not bounded yet.
RowShape ==
  [offset : 0 .. 2 * MaxSent + 2, confirmed : {"absent", "no", "yes"},
   sequence : Nat, signatures : SUBSET Update, active : 0 .. MaxSent + 1,
   consumed : SUBSET (1 .. MaxSent + 1), reminded : BOOLEAN]

TelegramTypes ==
  /\ queue \in Seq(Update) /\ Ordered(queue)
  /\ next \in 1 .. MaxSent + 1 + sent
  /\ asked \in 0 .. 2 * MaxSent + 2
  /\ \A u \in ToSet(queue) : u.id < next /\ u.n <= sent

\* The sequences in the hands of the consumers.
TodoTypes ==
  /\ todo \in [Consumers -> Seq(Update)]
  /\ \A c \in Consumers :
       /\ Ordered(todo[c])
       /\ \A u \in ToSet(todo[c]) : u.id <= 2 * MaxSent /\ u.n <= sent

CopyTypes ==
  /\ row \in RowShape /\ owner \in Nat
  /\ mine \in [Consumers -> [row : RowShape, owner : Nat]]
  /\ notifier \in [step : {"idle", "loaded", "sent"}, row : RowShape]

HistoryTypes ==
  /\ sent \in 0 .. MaxSent /\ menus \in 0 .. MaxSent + 1
  /\ did \in [Deeds -> Nat]
  /\ fate \in [1 .. MaxSent -> Fate]
  /\ acted \in [1 .. MaxSent + 1 -> Nat]
  /\ reverted \in BOOLEAN /\ recent \in BOOLEAN

Types == TelegramTypes /\ TodoTypes /\ CopyTypes /\ HistoryTypes

LEMMA UpdateFields ==
  \A u \in Update : u.id \in 1 .. 2 * MaxSent + 2 /\ u.n \in 1 .. MaxSent /\ u.tap \in 0 .. MaxSent + 1
  BY DEF Update

LEMMA BoundIsNat == MaxSent \in Nat /\ MaxSent >= 1
  BY ConsumersAssumption

LEMMA RowNumbers ==
  \A r \in RowShape : r.offset \in Nat /\ r.sequence \in Nat /\ r.reminded \in BOOLEAN
  BY BoundIsNat DEF RowShape

LEMMA NewRowShape == NewRow \in RowShape
  BY BoundIsNat DEF NewRow, RowShape

LEMMA NoCopyShape == NoCopy \in [row : RowShape, owner : Nat]
  BY NewRowShape DEF NoCopy

\* The greater of two numbers.
LEMMA MaxOfTwo == \A a, b \in Int : Max({a, b}) = IF a >= b THEN a ELSE b
<1> SUFFICES ASSUME NEW a \in Int, NEW b \in Int PROVE Max({a, b}) = IF a >= b THEN a ELSE b
  OBVIOUS
<1> DEFINE m == IF a >= b THEN a ELSE b
<1>1. m \in {a, b} /\ \A y \in {a, b} : m >= y
  OBVIOUS
<1>2. \A x \in {a, b} : (\A y \in {a, b} : x >= y) => x = m
  OBVIOUS
<1> HIDE DEF m
<1>3. Max({a, b}) = m
  BY <1>1, <1>2 DEF Max
<1> QED
  BY <1>3 DEF m

\* What a claim leaves in the row.
LEMMA ClaimedRow ==
  ASSUME row \in RowShape, NEW copy \in RowShape, NEW s \in Seq(Update), Ordered(s),
         \A u \in ToSet(s) : u.id <= 2 * MaxSent
  PROVE  LET B == ToSet(s)
             r == Claimed(copy, B)
         IN  /\ r \in RowShape
             /\ r.active = row.active /\ r.consumed = row.consumed /\ r.reminded = row.reminded
             /\ s = <<>> /\ row.offset = copy.offset =>
                  /\ r.offset = row.offset /\ r.confirmed = "yes" /\ r.sequence = row.sequence
                  /\ r.signatures = {}
             /\ s # <<>> =>
                  /\ r.confirmed = "no"
                  /\ \E v \in B :
                       /\ \A u \in B : u.id <= v.id
                       /\ Turned(copy, B) =>
                            /\ r.offset = v.id + 1 /\ r.sequence = row.sequence + 1
                            /\ r.signatures = B
                       /\ ~ Turned(copy, B) =>
                            /\ r.offset = IF row.offset >= v.id + 1 THEN row.offset ELSE v.id + 1
                            /\ r.sequence = row.sequence
                            /\ r.signatures =
                                 {u \in row.signatures : u.id \notin Ids(B)} \union B
<1> DEFINE B == ToSet(s)
           r == Claimed(copy, B)
<1>1. /\ row.offset \in 0 .. 2 * MaxSent + 2 /\ row.sequence \in Nat
      /\ row.signatures \in SUBSET Update
  BY DEF RowShape
<1>2. CASE s = <<>>
  <2>1. B = {}
    BY <1>2 DEF ToSet
  <2>2. r = IF row.offset = copy.offset
            THEN [row EXCEPT !.confirmed = "yes", !.signatures = {}] ELSE row
    BY <2>1 DEF Claimed
  <2> HIDE DEF B, r
  <2>3. r \in RowShape /\ r.active = row.active /\ r.consumed = row.consumed
        /\ r.reminded = row.reminded
    BY <2>2 DEF RowShape
  <2>4. row.offset = copy.offset =>
          /\ r.offset = row.offset /\ r.confirmed = "yes" /\ r.sequence = row.sequence
          /\ r.signatures = {}
    BY <2>2 DEF RowShape
  <2> QED
    BY <1>2, <2>3, <2>4 DEF r, B
<1>3. CASE s # <<>>
  <2>1. PICK v \in B : Max(Ids(B)) = v.id /\ \A u \in B : u.id <= v.id
    BY <1>3, EndsOfBatch
  <2>2. B # {} /\ B \subseteq Update /\ v.id \in 1 .. 2 * MaxSent
    BY <2>1, UpdateFields DEF ToSet
  <2> DEFINE turned == Turned(copy, B)
             off == Max({IF turned THEN 0 ELSE row.offset, v.id + 1})
             seq == IF turned THEN row.sequence + 1 ELSE row.sequence
             sig == {u \in (IF turned THEN {} ELSE row.signatures) : u.id \notin Ids(B)} \union B
  <2>3. r = [row EXCEPT !.offset = off, !.confirmed = "no", !.sequence = seq, !.signatures = sig]
    BY <2>1, <2>2 DEF Claimed
  <2>4. off = IF turned THEN v.id + 1
              ELSE IF row.offset >= v.id + 1 THEN row.offset ELSE v.id + 1
    <3>1. v.id + 1 \in Int /\ v.id + 1 >= 0 /\ row.offset \in Int
      BY <1>1, <2>2, BoundIsNat
    <3> HIDE DEF turned
    <3> QED
      BY <3>1, MaxOfTwo
  <2>5. off \in 0 .. 2 * MaxSent + 2 /\ seq \in Nat /\ sig \in SUBSET Update
    <3> HIDE DEF turned, B
    <3>1. off \in 0 .. 2 * MaxSent + 2
      <4> HIDE DEF off
      <4> QED
        BY <1>1, <2>2, <2>4, BoundIsNat
    <3> QED
      BY <1>1, <2>2, <3>1
  <2>6. turned => sig = B
    OBVIOUS
  <2>7. ~ turned => sig = {u \in row.signatures : u.id \notin Ids(B)} \union B
    OBVIOUS
  <2>8. (turned => seq = row.sequence + 1) /\ (~ turned => seq = row.sequence)
    OBVIOUS
  <2> HIDE DEF off, seq, sig, r, turned, B
  <2>9. /\ r \in RowShape
        /\ r.active = row.active /\ r.consumed = row.consumed /\ r.reminded = row.reminded
        /\ r.confirmed = "no" /\ r.offset = off /\ r.sequence = seq /\ r.signatures = sig
    BY <2>3, <2>5 DEF RowShape
  <2>10. /\ \A u \in B : u.id <= v.id
         /\ turned => r.offset = v.id + 1 /\ r.sequence = row.sequence + 1 /\ r.signatures = B
         /\ ~ turned =>
              /\ r.offset = IF row.offset >= v.id + 1 THEN row.offset ELSE v.id + 1
              /\ r.sequence = row.sequence
              /\ r.signatures = {u \in row.signatures : u.id \notin Ids(B)} \union B
    BY <2>1, <2>4, <2>6, <2>7, <2>8, <2>9
  <2> QED
    BY <1>3, <2>1, <2>9, <2>10 DEF r, turned, B
<1> QED
  BY <1>2, <1>3

\* What a saved guard leaves in the row.
LEMMA MergedRow ==
  ASSUME row \in RowShape, NEW r \in RowShape
  PROVE  /\ Merged(r) \in RowShape
         /\ Merged(r).active = r.active /\ Merged(r).consumed = r.consumed
         /\ Merged(r).reminded = (row.reminded \/ r.reminded)
         /\ Merged(r).sequence = row.sequence /\ Merged(r).signatures = row.signatures
         /\ (r.sequence = row.sequence => r.offset <= row.offset) =>
              Merged(r).offset = row.offset /\ Merged(r).confirmed = row.confirmed
<1> DEFINE ahead == r.sequence = row.sequence /\ r.offset > row.offset
           off == IF ahead THEN r.offset ELSE row.offset
           conf == IF ahead THEN "no" ELSE row.confirmed
           m == Merged(r)
<1>1. /\ r.active \in 0 .. MaxSent + 1 /\ r.consumed \in SUBSET (1 .. MaxSent + 1)
      /\ r.reminded \in BOOLEAN /\ row.reminded \in BOOLEAN
      /\ off \in 0 .. 2 * MaxSent + 2 /\ conf \in {"absent", "no", "yes"}
      /\ r.offset \in Int /\ row.offset \in Int
  BY DEF RowShape
<1>2. m = [row EXCEPT !.offset = off, !.confirmed = conf, !.active = r.active,
                      !.consumed = r.consumed, !.reminded = (row.reminded \/ r.reminded)]
  BY DEF Merged
<1>3. (r.sequence = row.sequence => r.offset <= row.offset) =>
        off = row.offset /\ conf = row.confirmed
  BY <1>1
<1>4. (row.reminded \/ r.reminded) \in BOOLEAN
  OBVIOUS
<1> HIDE DEF off, conf, m
<1>5. /\ m \in RowShape
      /\ m.active = r.active /\ m.consumed = r.consumed
      /\ m.reminded = (row.reminded \/ r.reminded)
      /\ m.sequence = row.sequence /\ m.signatures = row.signatures
      /\ m.offset = off /\ m.confirmed = conf
  BY <1>1, <1>2, <1>4 DEF RowShape
<1> QED
  BY <1>3, <1>5 DEF m

LEMMA MarkUsedShape ==
  ASSUME NEW r \in RowShape, NEW m \in 1 .. MaxSent + 1
  PROVE  /\ MarkUsed(r, m) \in RowShape
         /\ MarkUsed(r, m).offset = r.offset /\ MarkUsed(r, m).confirmed = r.confirmed
         /\ MarkUsed(r, m).sequence = r.sequence /\ MarkUsed(r, m).reminded = r.reminded
         /\ MarkUsed(r, m).consumed = r.consumed \union {m}
<1> DEFINE more == r.consumed \union {m}
           k == MarkUsed(r, m)
<1>1. more \in SUBSET (1 .. MaxSent + 1) /\ 0 \in 0 .. MaxSent + 1
  BY BoundIsNat DEF RowShape
<1>2. k = [r EXCEPT !.consumed = more, !.active = 0]
  BY DEF MarkUsed
<1> HIDE DEF more, k
<1>3. /\ k \in RowShape
      /\ k.offset = r.offset /\ k.confirmed = r.confirmed /\ k.sequence = r.sequence
      /\ k.reminded = r.reminded /\ k.consumed = more
  BY <1>1, <1>2 DEF RowShape
<1> QED
  BY <1>3 DEF more, k

LEMMA RecursoredShape ==
  ASSUME NEW r \in RowShape, NEW q \in RowShape
  PROVE  /\ Recursored(r, q) \in RowShape
         /\ Recursored(r, q).offset = q.offset /\ Recursored(r, q).confirmed = q.confirmed
         /\ Recursored(r, q).sequence = q.sequence /\ Recursored(r, q).consumed = r.consumed
         /\ Recursored(r, q).reminded = r.reminded
  BY DEF Recursored, RowShape

-----------------------------------------------------------------------------
(***************************************************************************)
(* What a request leaves at Telegram and what it answers.                  *)
(***************************************************************************)
LEMMA QueueFields ==
  ASSUME TelegramTypes, HistoryTypes
  PROVE  /\ ToSet(queue) \subseteq Update
         /\ \A u \in ToSet(queue) :
              /\ u.id \in 1 .. 2 * MaxSent + 2 /\ u.n \in 1 .. MaxSent
              /\ u.id < next /\ u.n <= sent
         /\ next \in Nat /\ sent \in Nat
         /\ \A u, v \in ToSet(queue) : u.id = v.id \/ u.n = v.n => u = v
<1>1. ToSet(queue) \subseteq Update
  BY DEF TelegramTypes, ToSet
<1>2. next \in Nat /\ sent \in Nat
  BY BoundIsNat DEF TelegramTypes, HistoryTypes
<1>3. ASSUME NEW u \in ToSet(queue), NEW v \in ToSet(queue), u.id = v.id \/ u.n = v.n
      PROVE  u = v
  <2>1. DOMAIN queue = 1 .. Len(queue) /\ Len(queue) \in Nat
    BY DEF TelegramTypes
  <2>2. PICK i \in 1 .. Len(queue), j \in 1 .. Len(queue) : u = queue[i] /\ v = queue[j]
    BY <2>1 DEF ToSet
  <2>3. u.id \in Int /\ v.id \in Int /\ u.n \in Int /\ v.n \in Int
    BY <1>1, UpdateFields
  <2>4. i < j \/ j < i \/ i = j
    BY <2>1
  <2> QED
    BY <1>3, <2>2, <2>3, <2>4 DEF TelegramTypes, Ordered
<1> QED
  BY <1>1, <1>2, <1>3, UpdateFields DEF TelegramTypes

LEMMA KeptUpdates ==
  ASSUME TelegramTypes, NEW offset \in Int
  PROVE  /\ Kept(offset) \in Seq(Update) /\ Ordered(Kept(offset))
         /\ ToSet(Kept(offset)) =
              IF offset > next THEN ToSet(queue) ELSE {u \in ToSet(queue) : u.id >= offset}
  BY FromKeeps DEF TelegramTypes, Kept

\* A request drops updates of the queue and marks them; it changes nothing else that
\* happened to an update.
LEMMA RequestEffect ==
  ASSUME TelegramTypes, HistoryTypes, NEW offset \in 0 .. 2 * MaxSent + 2, Request(offset),
         sent' = sent
  PROVE  /\ TelegramTypes' /\ queue' = Kept(offset) /\ next' = next
         /\ ToSet(queue') \subseteq ToSet(queue)
         /\ \A u \in ToSet(queue) : offset > next \/ u.id >= offset => u \in ToSet(queue')
         /\ fate' \in [1 .. MaxSent -> Fate]
         /\ \A n \in 1 .. MaxSent :
              /\ fate'[n].claimed = fate[n].claimed /\ fate'[n].skipped = fate[n].skipped
              /\ fate'[n].done = fate[n].done
              /\ fate'[n].gone = "forgotten" /\ fate[n].gone # "forgotten" =>
                   \E u \in ToSet(queue) \ ToSet(queue') : u.n = n
<1>1. queue' = Kept(offset) /\ next' = next /\ asked' = offset
  BY DEF Request
<1>2. /\ queue' \in Seq(Update) /\ Ordered(queue')
      /\ ToSet(queue') =
           IF offset > next THEN ToSet(queue) ELSE {u \in ToSet(queue) : u.id >= offset}
  BY <1>1, KeptUpdates, BoundIsNat
<1>3. ToSet(queue') \subseteq ToSet(queue)
  BY <1>2
<1>4. \A u \in ToSet(queue) : offset > next \/ u.id >= offset => u \in ToSet(queue')
  BY <1>2
<1>5. TelegramTypes'
  BY <1>1, <1>2, <1>3 DEF TelegramTypes
<1> DEFINE Lost == Numbers(ToSet(queue)) \ Numbers(ToSet(queue'))
<1>6. fate' = [n \in 1 .. MaxSent |->
                IF n \in Lost THEN [fate[n] EXCEPT !.gone = "forgotten"] ELSE fate[n]]
  BY <1>1 DEF Request, HistoryTypes
<1>7. \A n \in Lost : \E u \in ToSet(queue) \ ToSet(queue') : u.n = n
  BY DEF Numbers
<1> HIDE DEF Lost
<1>8. ASSUME NEW n \in 1 .. MaxSent
      PROVE  /\ fate'[n] \in Fate
             /\ fate'[n].claimed = fate[n].claimed /\ fate'[n].skipped = fate[n].skipped
             /\ fate'[n].done = fate[n].done
             /\ fate'[n].gone = "forgotten" /\ fate[n].gone # "forgotten" => n \in Lost
  <2>1. fate[n] \in Fate
    BY DEF HistoryTypes
  <2>2. fate'[n] = IF n \in Lost THEN [fate[n] EXCEPT !.gone = "forgotten"] ELSE fate[n]
    BY <1>6
  <2> QED
    BY <2>1, <2>2 DEF Fate
<1>9. fate' \in [1 .. MaxSent -> Fate]
  BY <1>6, <1>8
<1> QED
  BY <1>1, <1>3, <1>4, <1>5, <1>7, <1>8, <1>9

LEMMA SubSeqUpdates ==
  ASSUME NEW s \in Seq(Update), Ordered(s), NEW i \in 1 .. Len(s) + 1, NEW j \in 0 .. Len(s)
  PROVE  /\ SubSeq(s, i, j) \in Seq(Update) /\ Ordered(SubSeq(s, i, j))
         /\ ToSet(SubSeq(s, i, j)) = {s[k] : k \in i .. j}
<1> DEFINE t == SubSeq(s, i, j)
           m == IF i <= j THEN (j - i) + 1 ELSE 0
<1>1. Len(s) \in Nat /\ i \in Nat /\ j \in Nat /\ m \in Nat
  OBVIOUS
<1>2. t = [k \in 1 .. m |-> s[i + k - 1]]
  <2>1. t = [k \in 1 .. (1 + j - i) |-> s[i + k - 1]]
    OBVIOUS
  <2>2. 1 .. (1 + j - i) = 1 .. m
    BY <1>1
  <2> QED
    BY <2>1, <2>2
<1>3. \A k \in 1 .. m : i + k - 1 \in 1 .. Len(s) /\ i + k - 1 \in i .. j
  OBVIOUS
<1>4. \A k \in 1 .. m : s[i + k - 1] \in Update
  BY <1>3
<1> HIDE DEF t, m
<1>5. t \in Seq(Update) /\ Len(t) = m
  BY <1>1, <1>2, <1>4
<1>6. Ordered(t)
  <2>1. ASSUME NEW a \in 1 .. m, NEW b \in 1 .. m, a < b
        PROVE  t[a].id < t[b].id /\ t[a].n < t[b].n
    <3>1. i + a - 1 < i + b - 1
      BY <1>1, <2>1
    <3> QED
      BY <1>2, <1>3, <3>1 DEF Ordered
  <2> QED
    BY <1>5, <2>1 DEF Ordered
<1>7. ToSet(t) = {s[k] : k \in i .. j}
  <2>1. ToSet(t) = {s[i + k - 1] : k \in 1 .. m}
    BY <1>1, <1>2 DEF ToSet
  <2>2. \A k \in i .. j : k - i + 1 \in 1 .. m /\ i + (k - i + 1) - 1 = k
    BY <1>1 DEF m
  <2> QED
    BY <1>3, <2>1, <2>2
<1> QED
  BY <1>5, <1>6, <1>7 DEF t

\* Telegram answers with what it keeps, or with the first of it; with nothing only if it
\* keeps nothing.
LEMMA AnswersFirst ==
  ASSUME TelegramTypes, NEW offset \in Int, NEW updates \in Answers(offset)
  PROVE  /\ updates \in Seq(Update) /\ Ordered(updates)
         /\ ToSet(updates) \subseteq ToSet(Kept(offset))
         /\ \A u \in ToSet(updates), v \in ToSet(Kept(offset)) :
              v.id <= u.id => v \in ToSet(updates)
         /\ updates = <<>> => ToSet(Kept(offset)) = {}
<1> DEFINE K == Kept(offset)
<1>1. K \in Seq(Update) /\ Ordered(K)
  BY KeptUpdates
<1>2. Len(K) \in Nat /\ DOMAIN K = 1 .. Len(K)
  BY <1>1
<1>3. CASE updates = K
  BY <1>1, <1>3 DEF ToSet
<1>4. CASE updates # K
  <2>1. updates = SubSeq(K, 1, Min({1, Len(K)}))
    BY <1>4 DEF Answers
  <2> HIDE DEF K
  <2>2. CASE Len(K) = 0
    <3>1. K = <<>>
      BY <1>1, <2>2, EmptySeq
    <3>2. Min({1, Len(K)}) = 0
      BY <2>2 DEF Min
    <3>3. updates = <<>>
      BY <2>1, <3>1, <3>2
    <3> QED
      BY <1>4, <3>1, <3>3
  <2>3. CASE Len(K) > 0
    <3>1. Min({1, Len(K)}) = 1
      BY <1>2, <2>3 DEF Min
    <3>2. 1 \in 1 .. Len(K) + 1 /\ 1 \in 0 .. Len(K) /\ 1 \in 1 .. Len(K)
      BY <1>2, <2>3
    <3>3. /\ updates \in Seq(Update) /\ Ordered(updates)
          /\ ToSet(updates) = {K[k] : k \in 1 .. 1}
      BY <1>1, <2>1, <3>1, <3>2, SubSeqUpdates
    <3>4. ToSet(updates) = {K[1]} /\ K[1] \in ToSet(K)
      <4>1. {K[k] : k \in 1 .. 1} = {K[1]}
        OBVIOUS
      <4>2. K[1] \in ToSet(K)
        BY <1>2, <3>2 DEF ToSet
      <4> QED
        BY <3>3, <4>1, <4>2
    <3>5. \A v \in ToSet(K) : v.id <= K[1].id => v = K[1]
      <4>1. K # <<>>
        BY <2>3
      <4>2. ASSUME NEW i \in 1 .. Len(K), K[i].id <= K[1].id PROVE i = 1
        <5>1. K[i] \in Update /\ K[1] \in Update
          BY <1>1, <3>2
        <5>2. K[i].id \in Int /\ K[1].id \in Int
          BY <5>1, UpdateFields
        <5> QED
          BY <1>1, <1>2, <3>2, <4>2, <5>2 DEF Ordered
      <4> QED
        BY <1>2, <4>2 DEF ToSet
    <3>6. updates # <<>>
      <4>1. ToSet(<<>>) = {}
        BY DEF ToSet
      <4> QED
        BY <3>4, <4>1
    <3> QED
      BY <3>3, <3>4, <3>5, <3>6 DEF K
  <2> QED
    BY <1>2, <2>2, <2>3
<1> QED
  BY <1>3, <1>4

-----------------------------------------------------------------------------
(***************************************************************************)
(* Who is at which step, and how often the owner was bound.                *)
(***************************************************************************)
OwnerSteps == {"idle", "chosen", "waiting", "loaded", "again", "fetched"}
PollerSteps == Steps \ {"chosen", "waiting"}

\* A bound owner, and the binding in progress, are runs of `owner` that chose a chat.
Owners ==
  /\ pc[Owner] \in OwnerSteps
  /\ \A c \in Pollers : pc[c] \in PollerSteps
  /\ owner + (IF pc[Owner] = "idle" THEN 0 ELSE 1) <= 1 + did.try
  /\ did.try <= MaxTries
  /\ \A c \in Consumers : mine[c].owner <= owner

TInv == IInv /\ Types /\ Owners

LEMMA BoundsAreNat == MaxTries \in Nat /\ Owner \in Consumers /\ Pollers \subseteq Consumers
  BY ConsumersAssumption DEF Consumers

LEMMA InitTypes == Init => Types
<1> SUFFICES ASSUME Init PROVE Types
  OBVIOUS
<1>1. PICK past \in {"new", "running", "old"} :
        /\ owner = IF past = "new" THEN 0 ELSE 1
        /\ menus = IF past = "running" THEN 1 ELSE 0
        /\ sent \in IF past = "old" THEN {0, 1} ELSE {0}
        /\ next = IF past = "old" THEN 1 + sent ELSE MaxSent + 1
        /\ queue = [i \in 1 .. sent |-> [id |-> 1, n |-> 1, tap |-> 0]]
        /\ row = CASE past = "new" -> NewRow
                   [] past = "running" -> [NewRow EXCEPT !.offset = MaxSent + 1,
                                                         !.confirmed = "yes", !.active = 1]
                   [] past = "old" -> [NewRow EXCEPT !.offset = MaxSent + 2]
  BY DEF Init
<1>2. sent \in {0, 1} /\ sent \in 0 .. MaxSent
  BY <1>1, BoundIsNat
<1>3. row \in RowShape /\ row.offset \in 0 .. 2 * MaxSent + 2
  <2>1. CASE past = "new"
    BY <1>1, <2>1, NewRowShape DEF RowShape
  <2>2. CASE past = "running"
    <3>1. row = [NewRow EXCEPT !.offset = MaxSent + 1, !.confirmed = "yes", !.active = 1]
      BY <1>1, <2>2
    <3>2. /\ MaxSent + 1 \in 0 .. 2 * MaxSent + 2 /\ MaxSent + 2 \in 0 .. 2 * MaxSent + 2
          /\ 1 \in 0 .. MaxSent + 1
      BY BoundIsNat
    <3> QED
      BY <3>1, <3>2, NewRowShape DEF RowShape
  <2>3. CASE past = "old"
    <3>1. row = [NewRow EXCEPT !.offset = MaxSent + 2]
      BY <1>1, <2>3
    <3>2. /\ MaxSent + 1 \in 0 .. 2 * MaxSent + 2 /\ MaxSent + 2 \in 0 .. 2 * MaxSent + 2
          /\ 1 \in 0 .. MaxSent + 1
      BY BoundIsNat
    <3> QED
      BY <3>1, <3>2, NewRowShape DEF RowShape
  <2> QED
    BY <2>1, <2>2, <2>3
<1>4. TelegramTypes
  <2> DEFINE first == [id |-> 1, n |-> 1, tap |-> 0]
  <2>1. first \in Update
    BY BoundIsNat DEF Update
  <2>2. queue \in Seq(Update) /\ Len(queue) = sent /\ \A i \in 1 .. sent : queue[i] = first
    BY <1>1, <1>2, <2>1
  <2>3. Ordered(queue)
    BY <1>2, <2>2 DEF Ordered
  <2>4. next \in 1 .. MaxSent + 1 + sent /\ (sent = 1 => next = 2)
    BY <1>1, <1>2, BoundIsNat
  <2>5. \A u \in ToSet(queue) : u = first /\ sent = 1
    BY <1>2, <2>2 DEF ToSet
  <2>6. asked = row.offset
    BY DEF Init
  <2> QED
    BY <1>3, <2>2, <2>3, <2>4, <2>5, <2>6 DEF TelegramTypes
<1>5. TodoTypes
  BY DEF Init, TodoTypes, Ordered, ToSet
<1>6. CopyTypes
  BY <1>1, <1>3, NewRowShape, NoCopyShape DEF Init, CopyTypes
<1>7. HistoryTypes
  <2>1. fate \in [1 .. MaxSent -> Fate]
    <3>1. \A n \in 1 .. MaxSent :
            [claimed |-> n <= sent, skipped |-> FALSE, done |-> IF n <= sent THEN 1 ELSE 0,
             gone |-> "no"] \in Fate
      BY DEF Fate
    <3> QED
      BY <3>1 DEF Init
  <2>2. did \in [Deeds -> Nat]
    <3>1. did = [try |-> 0, notice |-> 0, kill |-> 0, age |-> 0, reminder |-> 0, unsaved |-> 0]
      BY DEF Init
    <3>2. DOMAIN did = Deeds
      BY <3>1 DEF Deeds
    <3>3. \A d \in Deeds : did[d] = 0
      BY <3>1 DEF Deeds
    <3> QED
      BY <3>1, <3>2, <3>3
  <2>3. menus \in 0 .. MaxSent + 1 /\ acted \in [1 .. MaxSent + 1 -> Nat]
    BY <1>1, BoundIsNat DEF Init
  <2> QED
    BY <1>2, <2>1, <2>2, <2>3 DEF Init, HistoryTypes
<1> QED
  BY <1>4, <1>5, <1>6, <1>7 DEF Types

LEMMA InitOwners == Init => Owners
  BY BoundsAreNat DEF Init, Owners, OwnerSteps, PollerSteps, Steps, NoCopy

-----------------------------------------------------------------------------
(***************************************************************************)
(* Each step keeps the types.                                              *)
(***************************************************************************)
LEMMA CountsTypes ==
  ASSUME HistoryTypes, NEW what \in Deeds, Counts(what)
  PROVE  /\ did' \in [Deeds -> Nat] /\ did'[what] = did[what] + 1
         /\ \A d \in Deeds \ {what} : did'[d] = did[d]
  BY DEF HistoryTypes, Counts

\* A consumer leaves: its copy is the empty one.
LEMMA LeaveTypes ==
  ASSUME Types, IInv, NEW c \in Consumers, Leave(c)
  PROVE  /\ mine' \in [Consumers -> [row : RowShape, owner : Nat]]
         /\ mine'[c] = NoCopy /\ todo'[c] = <<>> /\ pc'[c] = "idle"
         /\ \A d \in Consumers \ {c} : mine'[d] = mine[d] /\ todo'[d] = todo[d] /\ pc'[d] = pc[d]
         /\ sent' = sent => TodoTypes'
<1>1. /\ pc' = [pc EXCEPT ![c] = "idle"] /\ mine' = [mine EXCEPT ![c] = NoCopy]
      /\ todo' = [todo EXCEPT ![c] = <<>>]
  BY DEF Leave, Goto
<1>2. /\ mine \in [Consumers -> [row : RowShape, owner : Nat]]
      /\ todo \in [Consumers -> Seq(Update)] /\ pc \in [Consumers -> Steps]
  BY DEF Types, CopyTypes, TodoTypes, IInv, Shape
<1>3. /\ mine'[c] = NoCopy /\ todo'[c] = <<>> /\ pc'[c] = "idle"
      /\ \A d \in Consumers \ {c} : mine'[d] = mine[d] /\ todo'[d] = todo[d] /\ pc'[d] = pc[d]
  BY <1>1, <1>2
<1>4. mine' \in [Consumers -> [row : RowShape, owner : Nat]]
  BY <1>1, <1>2, NoCopyShape
<1>5. todo' \in [Consumers -> Seq(Update)]
  BY <1>1, <1>2
<1>6. Ordered(<<>>) /\ ToSet(<<>>) = {}
  BY DEF Ordered, ToSet
<1>7. sent' = sent => TodoTypes'
  BY <1>3, <1>5, <1>6 DEF Types, TodoTypes
<1> QED
  BY <1>3, <1>4, <1>7

\* Another list in the hands of a consumer.
LEMMA TodoAssigned ==
  ASSUME Types, NEW c \in Consumers, NEW s \in Seq(Update), Ordered(s),
         \A u \in ToSet(s) : u.id <= 2 * MaxSent /\ u.n <= sent,
         todo' = [todo EXCEPT ![c] = s], sent' = sent
  PROVE  TodoTypes' /\ todo'[c] = s /\ \A d \in Consumers \ {c} : todo'[d] = todo[d]
  BY DEF Types, TodoTypes

LEMMA TailOfTodo ==
  ASSUME Types, NEW c \in Consumers, todo[c] # <<>>
  PROVE  /\ Head(todo[c]) \in ToSet(todo[c]) /\ Head(todo[c]) \in Update
         /\ Head(todo[c]) = todo[c][1]
         /\ Tail(todo[c]) \in Seq(Update) /\ Ordered(Tail(todo[c]))
         /\ Len(Tail(todo[c])) = Len(todo[c]) - 1 /\ Len(todo[c]) \in Nat
         /\ \A i \in 1 .. Len(Tail(todo[c])) :
              Tail(todo[c])[i] = todo[c][i + 1] /\ i + 1 \in 1 .. Len(todo[c])
         /\ ToSet(Tail(todo[c])) = {u \in ToSet(todo[c]) : u # Head(todo[c])}
         /\ \A u \in ToSet(Tail(todo[c])) : u.n # Head(todo[c]).n
<1> DEFINE s == todo[c]
           t == Tail(s)
<1>1. s \in Seq(Update) /\ Ordered(s) /\ s # <<>>
  BY DEF Types, TodoTypes
<1>2. /\ Len(s) \in Nat /\ Len(s) >= 1 /\ DOMAIN s = 1 .. Len(s) /\ Head(s) = s[1]
      /\ t \in Seq(Update) /\ Len(t) = Len(s) - 1 /\ \A i \in 1 .. Len(t) : t[i] = s[i + 1]
  BY <1>1, EmptySeq, LenProperties, HeadTailProperties
<1>3. \A i \in 1 .. Len(t) : i + 1 \in 1 .. Len(s) /\ i + 1 > 1
  BY <1>2
<1>4. \A i \in 1 .. Len(s) : s[i] \in Update
  BY <1>1
<1> HIDE DEF s, t
<1>5. s[1] \in ToSet(s) /\ s[1] \in Update
  BY <1>2, <1>4 DEF ToSet
<1>6. Ordered(t)
  <2>1. ASSUME NEW i \in 1 .. Len(t), NEW j \in 1 .. Len(t), i < j
        PROVE  t[i].id < t[j].id /\ t[i].n < t[j].n
    <3>1. i + 1 < j + 1 /\ i + 1 \in 1 .. Len(s) /\ j + 1 \in 1 .. Len(s)
      BY <1>2, <2>1
    <3> QED
      BY <1>1, <1>2, <3>1 DEF Ordered
  <2> QED
    BY <2>1 DEF Ordered
<1>7. \A i \in 1 .. Len(s) : i > 1 => s[i].n # s[1].n /\ s[i] # s[1]
  <2>1. \A i \in 1 .. Len(s) : s[i].n \in Int
    BY <1>4, UpdateFields
  <2> QED
    BY <1>1, <1>2, <2>1 DEF Ordered
<1>8. ToSet(t) = {t[i] : i \in 1 .. Len(t)} /\ ToSet(s) = {s[i] : i \in 1 .. Len(s)}
  <2>1. DOMAIN t = 1 .. Len(t)
    BY <1>2
  <2> QED
    BY <1>2, <2>1 DEF ToSet
<1>9. \A i \in 1 .. Len(s) : i > 1 => i - 1 \in 1 .. Len(t) /\ (i - 1) + 1 = i
  BY <1>2
<1>10. ToSet(t) \subseteq {u \in ToSet(s) : u # s[1]}
  BY <1>2, <1>3, <1>7, <1>8
<1>11. {u \in ToSet(s) : u # s[1]} \subseteq ToSet(t)
  <2> SUFFICES ASSUME NEW i \in 1 .. Len(s), s[i] # s[1] PROVE s[i] \in ToSet(t)
    BY <1>8
  <2>1. i > 1
    BY <1>2
  <2>2. i - 1 \in 1 .. Len(t) /\ t[i - 1] = s[(i - 1) + 1]
    BY <1>2, <1>9, <2>1
  <2> QED
    BY <1>8, <1>9, <2>1, <2>2
<1>12. \A u \in ToSet(t) : u.n # s[1].n
  BY <1>2, <1>3, <1>7, <1>8
<1> QED
  BY <1>2, <1>3, <1>5, <1>6, <1>10, <1>11, <1>12 DEF s, t

LEMMA UserSendsEffect ==
  ASSUME Types, UserSends
  PROVE  /\ Types' /\ sent' = sent + 1 /\ next' = next + 1
         /\ UNCHANGED <<recent, stored, lock, pc, mine, todo, notifier, did, fate>>
         /\ \E w \in Update : w.id = next /\ w.n = sent' /\ ToSet(queue') = ToSet(queue) \union {w}
<1>1. PICK m \in 0 .. menus : queue' = Append(queue, [id |-> next, n |-> sent', tap |-> m])
  BY DEF UserSends
<1>2. /\ sent < MaxSent /\ sent' = sent + 1 /\ next' = next + 1
      /\ UNCHANGED <<asked, recent, stored, lock, pc, mine, todo, notifier, did, fate,
                     menus, acted, reverted>>
  BY DEF UserSends
<1>3. /\ queue \in Seq(Update) /\ Ordered(queue) /\ next \in 1 .. MaxSent + 1 + sent
      /\ asked \in 0 .. 2 * MaxSent + 2 /\ \A u \in ToSet(queue) : u.id < next /\ u.n <= sent
      /\ sent \in 0 .. MaxSent /\ menus \in 0 .. MaxSent + 1
  BY DEF Types, TelegramTypes, HistoryTypes
<1> DEFINE w == [id |-> next, n |-> sent', tap |-> m]
<1>4. w \in Update /\ w.id = next /\ w.n = sent'
  BY <1>2, <1>3, BoundIsNat DEF Update
<1>5. \A u \in ToSet(queue) : u.id < w.id /\ u.n < w.n
  <2>1. \A u \in ToSet(queue) : u \in Update
    BY <1>3 DEF ToSet
  <2>2. \A u \in ToSet(queue) : u.n \in Int
    BY <2>1, UpdateFields
  <2> QED
    BY <1>2, <1>3, <1>4, <2>2
<1> HIDE DEF w
<1>6. \A k \in 1 .. Len(queue) : queue[k].id < w.id /\ queue[k].n < w.n
  BY <1>3, <1>5 DEF ToSet
<1>7. /\ queue' \in Seq(Update) /\ Ordered(queue')
      /\ ToSet(queue') = ToSet(queue) \union {w}
  BY <1>1, <1>3, <1>4, <1>6, AppendUpdate DEF w
<1>8. TelegramTypes'
  <2>1. next' \in 1 .. MaxSent + 1 + sent' /\ asked' = asked
    BY <1>2, <1>3, BoundIsNat
  <2>2. ASSUME NEW u \in ToSet(queue') PROVE u.id < next' /\ u.n <= sent'
    <3>1. u \in ToSet(queue) \/ u = w
      BY <1>7
    <3>2. u \in Update
      BY <1>7 DEF ToSet
    <3>3. u.id \in Int /\ u.n \in Int
      BY <3>2, UpdateFields
    <3> QED
      BY <1>2, <1>3, <1>4, <3>1, <3>3
  <2> QED
    BY <1>3, <1>7, <2>1, <2>2 DEF TelegramTypes
<1>9. TodoTypes'
  <2>1. todo' = todo /\ sent \in Int /\ sent' = sent + 1
    BY <1>2, <1>3
  <2>2. ASSUME NEW c \in Consumers, NEW u \in ToSet(todo[c]) PROVE u.n <= sent + 1
    <3>1. u \in Update /\ u.n <= sent
      BY DEF Types, TodoTypes, ToSet
    <3>2. u.n \in Int
      BY <3>1, UpdateFields
    <3> QED
      BY <2>1, <3>1, <3>2
  <2> QED
    BY <2>1, <2>2 DEF Types, TodoTypes
<1>10. CopyTypes' /\ HistoryTypes'
  BY <1>2, <1>3, BoundIsNat DEF Types, CopyTypes, HistoryTypes, stored
<1> QED
  BY <1>2, <1>4, <1>7, <1>8, <1>9, <1>10 DEF Types

LEMMA AgesEffect ==
  ASSUME Types, Ages
  PROVE  /\ Types' /\ ToSet(queue') \subseteq ToSet(queue) /\ ~ recent' /\ AtRest
         /\ UNCHANGED <<next, stored, lock, pc, mine, todo, notifier, sent>>
         /\ \A d \in Deeds \ {"age"} : did'[d] = did[d]
         /\ \A n \in 1 .. MaxSent :
              /\ fate'[n].claimed = fate[n].claimed /\ fate'[n].skipped = fate[n].skipped
              /\ fate'[n].done = fate[n].done
              /\ fate'[n].gone = "forgotten" => fate[n].gone = "forgotten"
<1>1. PICK k \in 1 .. Len(queue) + 1 :
        /\ queue' = SubSeq(queue, k, Len(queue))
        /\ fate' = [n \in DOMAIN fate |->
                     IF n \in Numbers(ToSet(queue)) \ Numbers(ToSet(queue'))
                     THEN [fate[n] EXCEPT !.gone = "expired"] ELSE fate[n]]
  BY DEF Ages
<1>2. /\ Counts("age") /\ recent' = FALSE /\ AtRest
      /\ UNCHANGED <<next, asked, stored, lock, pc, mine, todo, notifier, sent, menus,
                     acted, reverted>>
  BY DEF Ages
<1>3. queue \in Seq(Update) /\ Ordered(queue) /\ Len(queue) \in 0 .. Len(queue)
  <2>1. queue \in Seq(Update) /\ Ordered(queue)
    BY DEF Types, TelegramTypes
  <2>2. Len(queue) \in Nat
    BY <2>1
  <2> QED
    BY <2>1, <2>2
<1>4. /\ queue' \in Seq(Update) /\ Ordered(queue')
      /\ ToSet(queue') = {queue[i] : i \in k .. Len(queue)}
  BY <1>1, <1>3, SubSeqUpdates
<1>5. ToSet(queue') \subseteq ToSet(queue)
  <2>1. \A i \in k .. Len(queue) : i \in 1 .. Len(queue)
    BY <1>3
  <2>2. DOMAIN queue = 1 .. Len(queue)
    BY <1>3
  <2> QED
    BY <1>4, <2>1, <2>2 DEF ToSet
<1> DEFINE Lost == Numbers(ToSet(queue)) \ Numbers(ToSet(queue'))
<1>6. fate' = [n \in 1 .. MaxSent |->
                IF n \in Lost THEN [fate[n] EXCEPT !.gone = "expired"] ELSE fate[n]]
  BY <1>1 DEF Types, HistoryTypes
<1> HIDE DEF Lost
<1>7. ASSUME NEW n \in 1 .. MaxSent
      PROVE  /\ fate'[n] \in Fate
             /\ fate'[n].claimed = fate[n].claimed /\ fate'[n].skipped = fate[n].skipped
             /\ fate'[n].done = fate[n].done
             /\ fate'[n].gone = "forgotten" => fate[n].gone = "forgotten"
  <2>1. fate[n] \in Fate
    BY DEF Types, HistoryTypes
  <2>2. fate'[n] = IF n \in Lost THEN [fate[n] EXCEPT !.gone = "expired"] ELSE fate[n]
    BY <1>6
  <2> QED
    BY <2>1, <2>2 DEF Fate
<1>8. fate' \in [1 .. MaxSent -> Fate]
  BY <1>6, <1>7
<1>9. did' \in [Deeds -> Nat] /\ \A d \in Deeds \ {"age"} : did'[d] = did[d]
  BY <1>2, CountsTypes DEF Types, Deeds
<1>10. TelegramTypes' /\ TodoTypes' /\ CopyTypes' /\ HistoryTypes'
  BY <1>2, <1>4, <1>5, <1>8, <1>9 DEF Types, TelegramTypes, TodoTypes, CopyTypes, HistoryTypes, stored
<1> QED
  BY <1>2, <1>5, <1>7, <1>9, <1>10 DEF Types

LEMMA RenumbersEffect ==
  ASSUME Types, Renumbers
  PROVE  /\ Types' /\ queue = <<>> /\ queue' = queue /\ next' < next
         /\ row.confirmed = "yes" \/ ~ recent
         /\ UNCHANGED <<recent, stored, lock, pc, mine, todo, notifier, history>>
<1>1. /\ queue = <<>> /\ queue' = queue /\ next' \in 1 .. next - 1 /\ asked' = asked
      /\ row.confirmed = "yes" \/ ~ recent
      /\ UNCHANGED <<recent, stored, lock, pc, mine, todo, notifier, history>>
  BY DEF Renumbers
<1>2. next \in 1 .. MaxSent + 1 + sent /\ sent \in 0 .. MaxSent
  BY DEF Types, TelegramTypes, HistoryTypes
<1>3. next' \in 1 .. MaxSent + 1 + sent /\ next' < next
  BY <1>1, <1>2, BoundIsNat
<1>4. ToSet(queue) = {}
  BY <1>1 DEF ToSet
<1>5. TelegramTypes'
  BY <1>1, <1>3, <1>4 DEF Types, TelegramTypes, history
<1>6. TodoTypes' /\ CopyTypes' /\ HistoryTypes'
  BY <1>1 DEF Types, TodoTypes, CopyTypes, HistoryTypes, history, stored
<1> QED
  BY <1>1, <1>3, <1>5, <1>6 DEF Types

-----------------------------------------------------------------------------
(***************************************************************************)
(* The queue, the cursor in the database and the updates in the hands of a *)
(* poller.                                                                 *)
(***************************************************************************)

\* The updates at Telegram that nobody has claimed, and those somebody has.
Pending == {u \in ToSet(queue) : ~ fate[u.n].claimed}
Seen == {u \in ToSet(queue) : fate[u.n].claimed}

\* The cursor belongs to the numbering in use, and all that is not claimed is from it on.
CursorBehind == row.offset <= next /\ \A u \in Pending : u.id >= row.offset

\* What is claimed and still at Telegram is below the cursor, and its signature is saved.
\* The cursor may belong to an earlier numbering only when it is confirmed, old, or of a
\* version that did not save a confirmation.
Cursor ==
  /\ \A u \in Seen : u.id < row.offset
  /\ \A u \in Seen : row.confirmed # "absent" => u \in row.signatures
  /\ Seen # {} /\ row.confirmed # "absent" => CursorBehind
  /\ row.confirmed = "no" /\ recent => CursorBehind
  /\ \A u \in row.signatures : u.n <= sent /\ fate[u.n].claimed
  /\ row.confirmed = "absent" =>
       /\ row.signatures = {} /\ row.sequence = 0
       /\ \A u \in Seen : u.id = 1
       /\ row.offset # 0 => row.offset = MaxSent + 2 /\ next <= 1 + sent

Fates ==
  \A n \in 1 .. MaxSent :
    /\ n > sent => ~ fate[n].claimed
    /\ fate[n].done > 0 \/ fate[n].gone = "forgotten" => fate[n].claimed
    /\ fate[n].done <= 1

\* A restart of the numbering is seen by a claim of something new.
ClaimedOnes == {n \in 1 .. MaxSent : fate[n].claimed}
Turns == row.sequence <= Cardinality(ClaimedOnes)

QueuePart == Cursor /\ Fates /\ Turns

\* A fetched batch is the beginning of the queue.
FetchedOK(c) ==
  /\ ToSet(todo[c]) \subseteq ToSet(queue)
  /\ \A u \in ToSet(todo[c]), v \in ToSet(queue) : v.id <= u.id => v \in ToSet(todo[c])
  /\ todo[c] = <<>> => Seen = {}

\* Of what is left of a claimed batch only the first may have been acted on.
ActingOK(c) ==
  /\ \A u \in ToSet(todo[c]) :
       /\ fate[u.n].claimed
       /\ pc[c] = "acting" \/ u # Head(todo[c]) => fate[u.n].done = 0
  /\ pc[c] = "replying" => todo[c] # <<>> /\ fate[Head(todo[c]).n].done > 0

BatchOK(c) ==
  /\ pc[c] \in Batch =>
       mine[c].row.offset = row.offset /\ mine[c].row.sequence = row.sequence
  /\ pc[c] \in {"loaded", "again", "fetched"} => mine[c].row.confirmed = row.confirmed
  /\ pc[c] \in {"again", "fetched"} => FetchedOK(c)
  /\ pc[c] = "again" => row.confirmed = "absent" /\ todo[c] # <<>> /\ row.offset > next
  /\ pc[c] \in {"acting", "replying"} => ActingOK(c)
  /\ pc[c] \notin {"again", "fetched", "acting", "replying"} => todo[c] = <<>>

InHands(n) ==
  \E c \in Pollers : pc[c] \in {"acting", "replying"} /\ n \in Numbers(ToSet(todo[c]))

NoneDropped ==
  \A n \in 1 .. sent :
    fate[n].claimed /\ fate[n].done = 0 /\ ~ fate[n].skipped => did.kill > 0 \/ InHands(n)

HandsPart == (\A c \in Consumers : BatchOK(c)) /\ NoneDropped

-----------------------------------------------------------------------------
(***************************************************************************)
(* The copies of the row.                                                  *)
(***************************************************************************)

\* No copy has a cursor of a later numbering, the notifier's no later cursor either.
OldCopies ==
  /\ \A c \in Consumers : mine[c].row.sequence <= row.sequence
  /\ notifier.row.sequence <= row.sequence
  /\ notifier.row.sequence = row.sequence => notifier.row.offset <= row.offset

\* Only the notifier sets the reminder, and what it has sent it knows until it saves.
Reminders ==
  /\ \A c \in Consumers : mine[c].row.reminded => row.reminded
  /\ notifier.step = "loaded" => notifier.row.reminded = row.reminded
  /\ did.reminder <=
       did.unsaved +
         (IF row.reminded \/ (notifier.step = "sent" /\ notifier.row.reminded) THEN 1 ELSE 0)

\* The poller that acts has the consumed menus of the database.
Buttons ==
  ~ reverted =>
    /\ \A c \in Consumers : pc[c] \in Batch => mine[c].row.consumed = row.consumed
    /\ \A m \in 1 .. MaxSent + 1 : acted[m] <= 1 /\ (acted[m] > 0 => m \in row.consumed)

CopiesPart == OldCopies /\ Reminders /\ Buttons

QInv == TInv /\ QueuePart /\ HandsPart /\ CopiesPart

-----------------------------------------------------------------------------
(***************************************************************************)
(* What most steps leave as it is.                                         *)
(***************************************************************************)
SameCursor ==
  /\ row'.offset = row.offset /\ row'.confirmed = row.confirmed
  /\ row'.sequence = row.sequence /\ row'.signatures = row.signatures

SameClaims ==
  \A n \in 1 .. MaxSent :
    fate'[n].claimed = fate[n].claimed /\ fate'[n].skipped = fate[n].skipped

SameDone == \A n \in 1 .. MaxSent : fate'[n].done = fate[n].done

LEMMA QueueStays ==
  ASSUME Types, QueuePart, SameCursor, SameClaims, next' = next, recent' => recent, sent' = sent,
         ToSet(queue') \subseteq ToSet(queue),
         \A n \in 1 .. MaxSent :
           /\ fate'[n].done > 0 => fate[n].claimed
           /\ fate'[n].done <= 1
           /\ fate'[n].gone = "forgotten" => fate[n].claimed
  PROVE  QueuePart'
<1>1. Fates'
  BY DEF QueuePart, Fates, SameClaims
<1>2. ClaimedOnes' = ClaimedOnes
  BY DEF ClaimedOnes, SameClaims
<1>3. Turns'
  BY <1>2 DEF QueuePart, Turns, SameCursor
<1>4. \A u \in ToSet(queue) : u.n \in 1 .. MaxSent
  BY QueueFields DEF Types
<1>5. Pending' \subseteq Pending /\ Seen' \subseteq Seen
  BY <1>4 DEF Pending, Seen, SameClaims
<1>6. CursorBehind => CursorBehind'
  BY <1>5 DEF CursorBehind, SameCursor
<1>7. \A u \in row.signatures : u.n \in 1 .. MaxSent
  BY UpdateFields DEF Types, CopyTypes, RowShape
<1>8. Cursor'
  BY <1>5, <1>6, <1>7 DEF QueuePart, Cursor, SameCursor, SameClaims
<1> QED
  BY <1>1, <1>3, <1>8 DEF QueuePart

\* The holder of the lock is alone: its peers have nothing in their hands.
LEMMA PeersIdle ==
  ASSUME IInv, HandsPart, NEW c \in Consumers, pc[c] \in Holding,
         \A d \in Consumers \ {c} : pc'[d] = pc[d] /\ todo'[d] = todo[d]
  PROVE  \A d \in Consumers \ {c} :
           BatchOK(d)' /\ todo[d] = <<>> /\ pc[d] \notin Holding /\ pc'[d] \notin Holding
<1> SUFFICES ASSUME NEW d \in Consumers, d # c
             PROVE  BatchOK(d)' /\ todo[d] = <<>> /\ pc[d] \notin Holding /\ pc'[d] \notin Holding
  OBVIOUS
<1>1. pc[d] \notin Holding
  BY DEF IInv, Shape, OneHolder
<1>2. todo[d] = <<>>
  BY <1>1 DEF HandsPart, BatchOK, Holding
<1> QED
  BY <1>1, <1>2 DEF BatchOK, Batch, Holding

\* Nothing is dropped as long as nothing is claimed and the acting poller keeps its list.
LEMMA NoneDroppedStays ==
  ASSUME Types, NoneDropped, SameClaims, sent' = sent,
         did.kill > 0 => did'.kill > 0,
         \A n \in 1 .. MaxSent : fate'[n].done = 0 => fate[n].done = 0,
         \A n \in 1 .. MaxSent :
           InHands(n) => InHands(n)' \/ fate'[n].done # 0 \/ did'.kill > 0
  PROVE  NoneDropped'
<1>1. \A n \in 1 .. sent : n \in 1 .. MaxSent
  BY BoundIsNat DEF Types, HistoryTypes
<1> QED
  BY <1>1 DEF NoneDropped, SameClaims

\* Copies that are read from the database or thrown away.
LEMMA CopiesStay ==
  ASSUME Types, CopiesPart, row' = row, notifier' = notifier, acted' = acted,
         reverted' = reverted, did'.reminder = did.reminder, did'.unsaved = did.unsaved,
         \A d \in Consumers : mine'[d].row \in {mine[d].row, row, NewRow},
         \A d \in Consumers : pc'[d] \in Batch =>
           \/ pc[d] \in Batch /\ mine'[d].row = mine[d].row
           \/ mine'[d].row = row
  PROVE  CopiesPart'
<1>1. row.sequence \in Nat /\ NewRow.sequence = 0 /\ NewRow.reminded = FALSE
  BY DEF Types, CopyTypes, RowShape, NewRow
<1>2. OldCopies'
  BY <1>1 DEF CopiesPart, OldCopies
<1>3. Reminders'
  BY <1>1 DEF CopiesPart, Reminders
<1>4. Buttons'
  BY DEF CopiesPart, Buttons
<1> QED
  BY <1>2, <1>3, <1>4 DEF CopiesPart

-----------------------------------------------------------------------------
(***************************************************************************)
(* Telegram's own steps.                                                   *)
(***************************************************************************)
LEMMA UserSendsQueue ==
  ASSUME QInv, UserSends
  PROVE  QueuePart' /\ HandsPart' /\ CopiesPart'
<1>1. Types /\ IInv /\ TelegramTypes /\ HistoryTypes
  BY DEF QInv, TInv, Types
<1>2. /\ sent' = sent + 1 /\ next' = next + 1
      /\ UNCHANGED <<recent, row, owner, lock, pc, mine, todo, notifier, did, fate>>
  BY <1>1, UserSendsEffect DEF stored
<1>3. PICK w \in Update : w.id = next /\ w.n = sent + 1 /\ ToSet(queue') = ToSet(queue) \union {w}
  BY <1>1, <1>2, UserSendsEffect
<1>4. /\ next \in Nat /\ sent \in Nat /\ row.offset \in Nat
      /\ \A u \in ToSet(queue) : u.id \in Nat /\ u.id < next /\ u.n <= sent
      /\ \A u \in row.signatures : u.n \in 1 .. MaxSent
  BY <1>1, QueueFields, UpdateFields, BoundIsNat DEF Types, CopyTypes, RowShape
<1>5. ~ fate[w.n].claimed
  BY <1>3, <1>4, UpdateFields DEF QInv, QueuePart, Fates
<1>6. Seen' = Seen /\ Pending' = Pending \union {w}
  BY <1>2, <1>3, <1>5 DEF Seen, Pending
<1>7. CursorBehind => CursorBehind'
  BY <1>2, <1>3, <1>4, <1>6 DEF CursorBehind
<1>8. Cursor'
  BY <1>2, <1>4, <1>6, <1>7 DEF QInv, QueuePart, Cursor
<1>9. Fates' /\ Turns'
  BY <1>2, <1>4 DEF QInv, QueuePart, Fates, Turns, ClaimedOnes
<1>10. ASSUME NEW c \in Consumers PROVE BatchOK(c)'
  <2>1. FetchedOK(c) => FetchedOK(c)'
    <3>1. \A u \in ToSet(queue) : ~ (w.id <= u.id)
      BY <1>3, <1>4
    <3> QED
      BY <1>2, <1>3, <1>6, <3>1 DEF FetchedOK
  <2>2. ActingOK(c) => ActingOK(c)'
    BY <1>2 DEF ActingOK
  <2>3. pc[c] = "again" => ~ (row.offset <= next) /\ row.confirmed = "absent" /\ row.offset # 0
    BY <1>4 DEF QInv, HandsPart, BatchOK
  <2>4. pc[c] = "again" => row.offset > next'
    <3>1. pc[c] = "again" => row.offset = MaxSent + 2 /\ next <= 1 + sent
      BY <2>3 DEF QInv, QueuePart, Cursor
    <3>2. sent + 1 <= MaxSent
      BY <1>3, UpdateFields
    <3> QED
      BY <1>2, <1>4, <3>1, <3>2, BoundIsNat
  <2> QED
    BY <1>2, <2>1, <2>2, <2>4 DEF QInv, HandsPart, BatchOK
<1>11. NoneDropped'
  <2>1. \A n \in 1 .. sent' : n \in 1 .. sent \/ n = w.n
    BY <1>2, <1>3, <1>4
  <2>2. \A n : InHands(n)' = InHands(n)
    BY <1>2 DEF InHands
  <2> QED
    BY <1>2, <1>5, <2>1, <2>2 DEF QInv, HandsPart, NoneDropped
<1>12. CopiesPart'
  <2>1. acted' = acted /\ reverted' = reverted
    BY DEF UserSends
  <2> QED
    BY <1>2, <2>1 DEF QInv, CopiesPart, OldCopies, Reminders, Buttons
<1> QED
  BY <1>8, <1>9, <1>10, <1>11, <1>12 DEF QueuePart, HandsPart

LEMMA AgesQueue ==
  ASSUME QInv, Ages
  PROVE  QueuePart' /\ HandsPart' /\ CopiesPart'
<1>1. Types
  BY DEF QInv, TInv
<1>2. /\ ToSet(queue') \subseteq ToSet(queue) /\ ~ recent' /\ AtRest
      /\ UNCHANGED <<next, row, owner, lock, pc, mine, todo, notifier, sent>>
      /\ \A d \in Deeds \ {"age"} : did'[d] = did[d]
      /\ \A n \in 1 .. MaxSent :
           /\ fate'[n].claimed = fate[n].claimed /\ fate'[n].skipped = fate[n].skipped
           /\ fate'[n].done = fate[n].done
           /\ fate'[n].gone = "forgotten" => fate[n].gone = "forgotten"
  BY <1>1, AgesEffect DEF stored
<1>3. did'.kill = did.kill /\ did'.reminder = did.reminder /\ did'.unsaved = did.unsaved
  BY <1>2 DEF Deeds
<1>4. QueuePart'
  BY <1>1, <1>2, QueueStays DEF QInv, QueuePart, Fates, SameCursor, SameClaims
<1>5. ASSUME NEW c \in Consumers PROVE BatchOK(c)'
  <2>1. \A u \in ToSet(todo[c]) : u.n \in 1 .. MaxSent
    BY <1>1, UpdateFields DEF Types, TodoTypes, ToSet
  <2>2. ActingOK(c) => ActingOK(c)'
    <3>1. todo[c] # <<>> => Head(todo[c]) \in ToSet(todo[c])
      BY <1>1, TailOfTodo
    <3> QED
      BY <1>2, <2>1, <3>1 DEF ActingOK
  <2>3. pc[c] \notin {"loaded", "again", "fetched"}
    BY <1>2 DEF AtRest
  <2> QED
    BY <1>2, <2>2, <2>3 DEF QInv, HandsPart, BatchOK
<1>6. NoneDropped'
  <2>1. \A n : InHands(n)' = InHands(n)
    BY <1>2 DEF InHands
  <2> QED
    BY <1>1, <1>2, <1>3, <2>1, NoneDroppedStays DEF QInv, HandsPart, SameClaims
<1>7. CopiesPart'
  <2>1. acted' = acted /\ reverted' = reverted
    BY DEF Ages
  <2> QED
    BY <1>2, <1>3, <2>1 DEF QInv, CopiesPart, OldCopies, Reminders, Buttons
<1> QED
  BY <1>4, <1>5, <1>6, <1>7 DEF HandsPart

LEMMA RenumbersQueue ==
  ASSUME QInv, Renumbers
  PROVE  QueuePart' /\ HandsPart' /\ CopiesPart'
<1>1. Types
  BY DEF QInv, TInv
<1>2. /\ queue = <<>> /\ queue' = queue /\ next' < next /\ AtRest
      /\ row.confirmed = "yes" \/ ~ recent
      /\ UNCHANGED <<recent, row, owner, lock, pc, mine, todo, notifier>>
      /\ UNCHANGED <<did, sent, fate, menus, acted, reverted>>
      /\ next' \in Nat /\ next \in Nat /\ sent \in Nat
  BY <1>1, RenumbersEffect, BoundIsNat
  DEF Renumbers, stored, history, Types, TelegramTypes, HistoryTypes
<1>3. ToSet(queue) = {}
  BY <1>2 DEF ToSet
<1>4. Seen' = {} /\ Pending' = {} /\ Seen = {}
  BY <1>2, <1>3 DEF Seen, Pending
<1>5. Cursor'
  BY <1>2, <1>4 DEF QInv, QueuePart, Cursor
<1>6. Fates' /\ Turns'
  BY <1>2 DEF QInv, QueuePart, Fates, Turns, ClaimedOnes
<1>7. ASSUME NEW c \in Consumers PROVE BatchOK(c)'
  <2>1. pc[c] \notin {"loaded", "again", "fetched"}
    BY <1>2 DEF AtRest
  <2>2. ActingOK(c) => ActingOK(c)'
    BY <1>2 DEF ActingOK
  <2> QED
    BY <1>2, <2>1, <2>2 DEF QInv, HandsPart, BatchOK
<1>8. NoneDropped' /\ CopiesPart'
  BY <1>2 DEF QInv, HandsPart, NoneDropped, InHands, CopiesPart, OldCopies, Reminders, Buttons
<1> QED
  BY <1>5, <1>6, <1>7, <1>8 DEF QueuePart, HandsPart

-----------------------------------------------------------------------------
(***************************************************************************)
(* Requests: Telegram forgets nothing that is not claimed.                 *)
(***************************************************************************)
ForgetsClaimed ==
  /\ TelegramTypes' /\ next' = next /\ ToSet(queue') \subseteq ToSet(queue)
  /\ fate' \in [1 .. MaxSent -> Fate] /\ SameClaims /\ SameDone
  /\ \A n \in 1 .. MaxSent : fate'[n].gone = "forgotten" => fate[n].claimed

LEMMA SafeRequest ==
  ASSUME QInv, NEW offset \in 0 .. 2 * MaxSent + 2, Request(offset), sent' = sent,
         \A u \in Pending : offset > next \/ u.id >= offset
  PROVE  ForgetsClaimed /\ queue' = Kept(offset)
<1>1. Types /\ TelegramTypes /\ HistoryTypes /\ Fates
  BY DEF QInv, TInv, Types, QueuePart
<1>2. /\ TelegramTypes' /\ queue' = Kept(offset) /\ next' = next
      /\ ToSet(queue') \subseteq ToSet(queue)
      /\ \A u \in ToSet(queue) : offset > next \/ u.id >= offset => u \in ToSet(queue')
      /\ fate' \in [1 .. MaxSent -> Fate]
      /\ \A n \in 1 .. MaxSent :
           /\ fate'[n].claimed = fate[n].claimed /\ fate'[n].skipped = fate[n].skipped
           /\ fate'[n].done = fate[n].done
           /\ fate'[n].gone = "forgotten" /\ fate[n].gone # "forgotten" =>
                \E u \in ToSet(queue) \ ToSet(queue') : u.n = n
  BY <1>1, RequestEffect
<1>3. \A u \in ToSet(queue) \ ToSet(queue') : fate[u.n].claimed
  BY <1>2 DEF Pending
<1>4. \A n \in 1 .. MaxSent : fate'[n].gone = "forgotten" => fate[n].claimed
  BY <1>1, <1>2, <1>3 DEF Fates
<1> QED
  BY <1>2, <1>4 DEF ForgetsClaimed, SameClaims, SameDone

\* The offset a consumer sends is that of the cursor, or it is ignored, or there is none.
LEMMA OffsetIsSafe ==
  ASSUME QInv, NEW c \in Consumers, pc[c] \in {"loaded", "again"}
  PROVE  LET offset == OffsetOf(mine[c].row) IN
         /\ offset \in 0 .. 2 * MaxSent + 2
         /\ \A u \in Pending : offset > next \/ u.id >= offset
         /\ row.confirmed = "absent" /\ offset # 0 => offset = row.offset /\ offset > next
<1> DEFINE offset == OffsetOf(mine[c].row)
<1>1. /\ mine[c].row.offset = row.offset /\ mine[c].row.confirmed = row.confirmed
  BY DEF QInv, HandsPart, BatchOK, Batch, Holding
<1>2. /\ row.offset \in 0 .. 2 * MaxSent + 2 /\ next \in Nat /\ sent \in 0 .. MaxSent
      /\ \A u \in ToSet(queue) : u.id \in Nat
  BY QueueFields DEF QInv, TInv, Types, CopyTypes, RowShape, HistoryTypes
<1>3. offset = IF row.confirmed = "absent" \/ (row.confirmed = "no" /\ recent)
               THEN row.offset ELSE 0
  BY <1>1 DEF OffsetOf
<1> HIDE DEF offset
<1>4. offset \in 0 .. 2 * MaxSent + 2
  BY <1>2, <1>3, BoundIsNat
<1>5. CASE offset = 0
  BY <1>2, <1>4, <1>5 DEF offset, Pending
<1>6. CASE offset # 0 /\ row.confirmed = "absent"
  <2>1. offset = row.offset /\ row.offset = MaxSent + 2 /\ next <= 1 + sent
    BY <1>3, <1>6 DEF QInv, QueuePart, Cursor
  <2>2. offset > next
    BY <1>2, <2>1, BoundIsNat
  <2> QED
    BY <1>4, <2>1, <2>2 DEF offset
<1>7. CASE offset # 0 /\ row.confirmed # "absent"
  <2>1. offset = row.offset /\ CursorBehind
    BY <1>3, <1>7 DEF QInv, QueuePart, Cursor
  <2> QED
    BY <1>4, <1>7, <2>1 DEF CursorBehind, offset
<1> QED
  BY <1>5, <1>6, <1>7

-----------------------------------------------------------------------------
(***************************************************************************)
(* Leaving without a claim.                                                *)
(***************************************************************************)
LEMMA LeaveInv ==
  ASSUME QInv, IInv', NEW c \in Consumers, Leave(c),
         UNCHANGED <<recent, row, owner, notifier, sent, menus, acted, reverted>>,
         did' \in [Deeds -> Nat], did'.try = did.try, did'.reminder = did.reminder,
         did'.unsaved = did.unsaved, did.kill > 0 => did'.kill > 0,
         pc[c] \in {"acting", "replying"} => todo[c] = <<>> \/ did'.kill > 0,
         UNCHANGED <<telegram, fate>> \/ (pc[c] \in Holding /\ ForgetsClaimed)
  PROVE  QInv'
<1>1. Types /\ IInv /\ Owners
  BY DEF QInv, TInv
<1>2. /\ mine' \in [Consumers -> [row : RowShape, owner : Nat]] /\ TodoTypes'
      /\ mine'[c] = NoCopy /\ todo'[c] = <<>> /\ pc'[c] = "idle"
      /\ \A d \in Consumers \ {c} : mine'[d] = mine[d] /\ todo'[d] = todo[d] /\ pc'[d] = pc[d]
  BY <1>1, LeaveTypes
<1>3. ForgetsClaimed
  <2>1. ASSUME UNCHANGED <<telegram, fate>> PROVE ForgetsClaimed
    BY <1>1, <2>1
    DEF ForgetsClaimed, telegram, Types, TelegramTypes, HistoryTypes, SameClaims, SameDone, QInv,
        QueuePart, Fates
  <2> QED
    BY <2>1
<1>4. Types'
  BY <1>1, <1>2, <1>3 DEF Types, ForgetsClaimed, CopyTypes, HistoryTypes
<1>5. Owners'
  <2>1. owner \in Nat /\ owner' = owner /\ did.try \in Nat
    BY <1>1 DEF Types, CopyTypes, HistoryTypes, Deeds
  <2>2. mine'[c].owner = 0
    BY <1>2 DEF NoCopy
  <2>3. \A d \in Consumers : mine'[d].owner <= owner
    BY <1>1, <1>2, <2>1, <2>2 DEF Owners
  <2>4. pc'[Owner] = pc[Owner] \/ pc'[Owner] = "idle"
    BY <1>2, BoundsAreNat
  <2>5. \A d \in Pollers : pc'[d] \in PollerSteps
    BY <1>1, <1>2, BoundsAreNat DEF Owners, PollerSteps, Steps
  <2>6. owner' + (IF pc'[Owner] = "idle" THEN 0 ELSE 1) <= 1 + did'.try
    BY <1>1, <2>1, <2>4 DEF Owners
  <2> QED
    BY <1>1, <2>1, <2>3, <2>4, <2>5, <2>6 DEF Owners, OwnerSteps
<1>6. QueuePart'
  BY <1>1, <1>3, QueueStays
  DEF ForgetsClaimed, SameCursor, SameDone, QInv, QueuePart, Fates
<1>7. HandsPart'
  <2>1. BatchOK(c)'
    BY <1>2 DEF BatchOK, Batch, Holding
  <2>2. ASSUME NEW d \in Consumers \ {c} PROVE BatchOK(d)'
    <3>1. CASE pc[c] \in Holding
      BY <1>1, <1>2, <3>1, PeersIdle DEF QInv
    <3>2. CASE pc[c] \notin Holding
      BY <1>2, <3>2
      DEF QInv, HandsPart, BatchOK, FetchedOK, ActingOK, Seen, telegram
    <3> QED
      BY <3>1, <3>2
  <2>3. ASSUME NEW n, InHands(n) PROVE InHands(n)' \/ did'.kill > 0
    <3>1. PICK d \in Pollers : pc[d] \in {"acting", "replying"} /\ n \in Numbers(ToSet(todo[d]))
      BY <2>3 DEF InHands
    <3>2. Numbers(ToSet(<<>>)) = {}
      BY DEF ToSet, Numbers
    <3> QED
      BY <1>2, <3>1, <3>2, BoundsAreNat DEF InHands
  <2>4. NoneDropped'
    BY <1>1, <1>3, <2>3, NoneDroppedStays DEF QInv, HandsPart, ForgetsClaimed, SameDone
  <2> QED
    BY <2>1, <2>2, <2>4 DEF HandsPart
<1>8. CopiesPart'
  <2>1. \A d \in Consumers : mine'[d].row \in {mine[d].row, row, NewRow}
    BY <1>2 DEF NoCopy
  <2>2. \A d \in Consumers : pc'[d] \in Batch => pc[d] \in Batch /\ mine'[d].row = mine[d].row
    BY <1>2 DEF Batch, Holding
  <2> QED
    BY <1>1, <2>1, <2>2, CopiesStay DEF QInv
<1> QED
  BY <1>4, <1>5, <1>6, <1>7, <1>8 DEF QInv, TInv

LEMMA LeavingQueue ==
  ASSUME QInv, IInv', NEW c \in Consumers,
         \/ Loads(c) /\ (OwnerRegistered \/ owner = 0)
         \/ c = Owner /\ OwnerTimesOut
         \/ FetchFails(c) \/ ClaimFails(c) \/ Finishes(c) \/ Killed(c)
  PROVE  QInv'
<1>1. HistoryTypes /\ did \in [Deeds -> Nat]
  BY DEF QInv, TInv, Types, HistoryTypes
<1>2. CASE Loads(c) /\ (OwnerRegistered \/ owner = 0)
  BY <1>1, <1>2, LeaveInv DEF Loads, stored, history, telegram
<1>3. CASE c = Owner /\ OwnerTimesOut
  BY <1>1, <1>3, LeaveInv DEF OwnerTimesOut, stored, history, telegram
<1>4. CASE FetchFails(c)
  <2>1. /\ pc[c] \in {"loaded", "again"} /\ pc[c] \in Holding /\ Leave(c)
        /\ Request(OffsetOf(mine[c].row)) \/ UNCHANGED <<telegram, fate>>
        /\ UNCHANGED <<recent, row, owner, notifier, sent, menus, acted, reverted, did>>
    BY <1>4 DEF FetchFails, stored, Holding
  <2>2. Request(OffsetOf(mine[c].row)) => ForgetsClaimed
    BY <2>1, OffsetIsSafe, SafeRequest
  <2> QED
    BY <1>1, <2>1, <2>2, LeaveInv
<1>5. CASE ClaimFails(c)
  BY <1>1, <1>5, LeaveInv DEF ClaimFails, stored, history, telegram
<1>6. CASE Finishes(c)
  BY <1>1, <1>6, LeaveInv DEF Finishes, stored, history, telegram
<1>7. CASE Killed(c)
  <2>1. /\ did' \in [Deeds -> Nat] /\ did'.kill = did.kill + 1
        /\ \A d \in Deeds \ {"kill"} : did'[d] = did[d]
    BY <1>1, <1>7, CountsTypes DEF Killed, Deeds
  <2>2. did'.try = did.try /\ did'.reminder = did.reminder /\ did'.unsaved = did.unsaved
    BY <2>1 DEF Deeds
  <2>3. did'.kill > 0
    BY <1>1, <2>1 DEF Deeds
  <2>4. /\ Leave(c)
        /\ UNCHANGED <<recent, row, owner, notifier, sent, menus, acted, reverted>>
        /\ UNCHANGED <<telegram, fate>>
    BY <1>7 DEF Killed, stored, telegram
  <2> QED
    BY <2>1, <2>2, <2>3, <2>4, LeaveInv
<1> QED
  BY <1>2, <1>3, <1>4, <1>5, <1>6, <1>7

-----------------------------------------------------------------------------
(***************************************************************************)
(* Coming to the lock, and taking it.                                      *)
(***************************************************************************)
LEMMA EntersInv ==
  ASSUME QInv, IInv', NEW c \in Consumers, NEW step \in {"idle", "checked", "locked", "waiting", "loaded"},
         Goto(c, step), pc[c] \in {"idle", "checked", "chosen", "waiting", "locked"},
         UNCHANGED <<telegram, recent, row, owner, todo, notifier, did, sent, fate, menus,
                     acted, reverted>>,
         \/ mine' = mine /\ step # "loaded"
         \/ mine' = [mine EXCEPT ![c] = [row |-> row, owner |-> owner]],
         c = Owner => step \in {"waiting", "loaded"} /\ pc[c] # "idle",
         c \in Pollers => step # "waiting"
  PROVE  QInv'
<1>1. Types /\ IInv /\ Owners
  BY DEF QInv, TInv
<1>2. /\ pc'[c] = step /\ \A d \in Consumers \ {c} : pc'[d] = pc[d]
      /\ mine' \in [Consumers -> [row : RowShape, owner : Nat]]
      /\ mine'[c] \in {mine[c], [row |-> row, owner |-> owner]}
      /\ step = "loaded" => mine'[c] = [row |-> row, owner |-> owner]
      /\ \A d \in Consumers \ {c} : mine'[d] = mine[d]
  <2>1. pc \in [Consumers -> Steps] /\ mine \in [Consumers -> [row : RowShape, owner : Nat]]
    BY <1>1 DEF IInv, Shape, Types, CopyTypes
  <2>2. [row |-> row, owner |-> owner] \in [row : RowShape, owner : Nat]
    BY <1>1 DEF Types, CopyTypes
  <2> QED
    BY <2>1, <2>2 DEF Goto
<1>3. Types'
  BY <1>1, <1>2 DEF Types, TelegramTypes, TodoTypes, CopyTypes, HistoryTypes, telegram
<1>4. Owners'
  <2>1. \A d \in Consumers : mine'[d].owner <= owner
    <3>1. owner \in Nat
      BY <1>1 DEF Types, CopyTypes
    <3> QED
      BY <1>1, <1>2, <3>1 DEF Owners
  <2>2. \A d \in Pollers : pc'[d] \in PollerSteps
    BY <1>1, <1>2, BoundsAreNat DEF Owners, PollerSteps, Steps, Holding
  <2>3. pc'[Owner] = pc[Owner] \/ (pc'[Owner] \in {"waiting", "loaded"} /\ pc[Owner] # "idle")
    BY <1>2, BoundsAreNat
  <2> QED
    BY <1>1, <2>1, <2>2, <2>3 DEF Owners, OwnerSteps
<1>5. QueuePart'
  BY DEF QInv, QueuePart, Cursor, Fates, Turns, ClaimedOnes, Seen, Pending, CursorBehind, telegram
<1>6. HandsPart'
  <2>1. BatchOK(c)'
    BY <1>2 DEF QInv, HandsPart, BatchOK, Batch, Holding
  <2>2. ASSUME NEW d \in Consumers \ {c} PROVE BatchOK(d)'
    BY <1>2 DEF QInv, HandsPart, BatchOK, FetchedOK, ActingOK, Seen, telegram
  <2>3. \A n : InHands(n) => InHands(n)'
    BY <1>2, BoundsAreNat DEF InHands
  <2>4. NoneDropped'
    BY <2>3 DEF QInv, HandsPart, NoneDropped
  <2> QED
    BY <2>1, <2>2, <2>4 DEF HandsPart
<1>7. CopiesPart'
  <2>1. \A d \in Consumers : mine'[d].row \in {mine[d].row, row, NewRow}
    BY <1>2
  <2>2. \A d \in Consumers : pc'[d] \in Batch =>
          \/ pc[d] \in Batch /\ mine'[d].row = mine[d].row
          \/ mine'[d].row = row
    BY <1>2 DEF Batch, Holding
  <2> QED
    BY <1>1, <2>1, <2>2, CopiesStay DEF QInv
<1> QED
  BY <1>3, <1>4, <1>5, <1>6, <1>7 DEF QInv, TInv

LEMMA EnteringQueue ==
  ASSUME QInv, IInv', NEW c \in Pollers,
         \/ Checks(c) \/ TakesLock(c) \/ Loads(c)
         \/ OwnerRegisters \/ OwnerTakesLock \/ OwnerTimesOut
  PROVE  QInv'
<1>1. c # Owner /\ c \in Consumers /\ Owner \in Consumers /\ Owner \notin Pollers
  BY ConsumersAssumption, BoundsAreNat
<1>2. CASE Checks(c)
  <2>1. /\ pc[c] = "idle" /\ Goto(c, "checked") /\ mine' = mine
        /\ UNCHANGED <<telegram, recent, row, owner, todo, notifier, did, sent, fate, menus,
                       acted, reverted>>
    BY <1>2 DEF Checks, stored, history
  <2> QED
    BY <1>1, <2>1, EntersInv
<1>3. CASE TakesLock(c)
  <2>1. pc[c] = "checked" /\ mine' = mine
    BY <1>3 DEF TakesLock
  <2>2. Goto(c, "locked") \/ Goto(c, "idle")
    BY <1>3 DEF TakesLock
  <2>3. UNCHANGED <<telegram, recent, row, owner, todo, notifier, did, sent, fate, menus,
                    acted, reverted>>
    BY <1>3 DEF TakesLock, stored, history
  <2> QED
    BY <1>1, <2>1, <2>2, <2>3, EntersInv
<1>4. CASE Loads(c)
  <2>1. CASE OwnerRegistered \/ owner = 0
    BY <1>1, <1>4, <2>1, LeavingQueue
  <2>2. CASE ~ (OwnerRegistered \/ owner = 0)
    <3>1. /\ pc[c] = "locked" /\ Goto(c, "loaded")
          /\ mine' = [mine EXCEPT ![c] = [row |-> row, owner |-> owner]]
          /\ UNCHANGED <<telegram, recent, row, owner, todo, notifier, did, sent, fate, menus,
                         acted, reverted>>
      BY <1>4, <2>2 DEF Loads, stored, history
    <3> QED
      BY <1>1, <3>1, EntersInv
  <2> QED
    BY <2>1, <2>2
<1>5. CASE OwnerRegisters
  <2>1. /\ pc[Owner] = "chosen" /\ Goto(Owner, "waiting") /\ mine' = mine
        /\ UNCHANGED <<telegram, recent, row, owner, todo, notifier, did, sent, fate, menus,
                       acted, reverted>>
    BY <1>5 DEF OwnerRegisters, stored
  <2> QED
    BY <1>1, <2>1, EntersInv
<1>6. CASE OwnerTakesLock
  <2>1. /\ pc[Owner] = "waiting" /\ Goto(Owner, "loaded")
        /\ mine' = [mine EXCEPT ![Owner] = [row |-> row, owner |-> owner]]
        /\ UNCHANGED <<telegram, recent, row, owner, todo, notifier, did, sent, fate, menus,
                       acted, reverted>>
    BY <1>6 DEF OwnerTakesLock, stored, history
  <2> QED
    BY <1>1, <2>1, EntersInv
<1>7. CASE OwnerTimesOut
  BY <1>1, <1>7, LeavingQueue
<1> QED
  BY <1>2, <1>3, <1>4, <1>5, <1>6, <1>7

\* A search asks without an offset: the queue stays as it is, whoever reads it.
LEMMA OwnerSearchesQueue ==
  ASSUME QInv, IInv', OwnerSearches
  PROVE  QInv'
<1>1. Types /\ IInv /\ Owners /\ TelegramTypes /\ HistoryTypes /\ Owner \in Consumers
  BY BoundsAreNat DEF QInv, TInv, Types
<1>2. /\ pc[Owner] = "idle" /\ did.try < MaxTries /\ Request(0)
      /\ UNCHANGED <<recent, row, owner, lock, mine, todo, notifier, sent, menus, acted, reverted>>
      /\ (Counts("try") /\ Goto(Owner, "chosen")) \/ (did' = did /\ pc' = pc)
  BY DEF OwnerSearches, stored
<1>3. 0 \in 0 .. 2 * MaxSent + 2 /\ next \in Nat /\ \A u \in ToSet(queue) : u.id \in Nat
  BY <1>1, QueueFields, BoundIsNat
<1>4. ForgetsClaimed
  BY <1>2, <1>3, SafeRequest DEF Pending
<1>5. ToSet(queue') = ToSet(queue)
  <2>1. sent' = sent /\ \A u \in ToSet(queue) : u.id >= 0
    BY <1>2, <1>3
  <2>2. /\ ToSet(queue') \subseteq ToSet(queue)
        /\ \A u \in ToSet(queue) : 0 > next \/ u.id >= 0 => u \in ToSet(queue')
    BY <1>1, <1>2, <1>3, <2>1, RequestEffect
  <2> QED
    BY <2>1, <2>2
<1>6. /\ did' \in [Deeds -> Nat] /\ \A d \in Deeds \ {"try"} : did'[d] = did[d]
      /\ \/ pc'[Owner] = "chosen" /\ did'.try = did.try + 1
         \/ pc' = pc /\ did' = did
      /\ \A d \in Pollers : pc'[d] = pc[d]
  <2>1. CASE Counts("try") /\ Goto(Owner, "chosen")
    <3>1. pc \in [Consumers -> Steps] /\ Owner \notin Pollers
      BY <1>1, ConsumersAssumption DEF IInv, Shape
    <3>2. pc'[Owner] = "chosen" /\ \A d \in Pollers : pc'[d] = pc[d]
      BY <1>1, <2>1, <3>1, BoundsAreNat DEF Goto
    <3>3. "try" \in Deeds
      BY DEF Deeds
    <3>4. /\ did' \in [Deeds -> Nat] /\ did'.try = did.try + 1
          /\ \A d \in Deeds \ {"try"} : did'[d] = did[d]
      BY <1>1, <2>1, <3>3, CountsTypes
    <3> QED
      BY <3>2, <3>4
  <2>2. CASE did' = did /\ pc' = pc
    BY <1>1, <2>2 DEF HistoryTypes
  <2> QED
    BY <1>2, <2>1, <2>2
<1>7. did'.kill = did.kill /\ did'.reminder = did.reminder /\ did'.unsaved = did.unsaved
  BY <1>6 DEF Deeds
<1>8. Types'
  BY <1>1, <1>2, <1>4, <1>6 DEF Types, ForgetsClaimed, TodoTypes, CopyTypes, HistoryTypes
<1>9. Owners'
  <2>1. owner \in Nat /\ did.try \in Nat /\ owner' = owner /\ mine' = mine
    BY <1>1, <1>2 DEF Types, CopyTypes, HistoryTypes, Deeds
  <2>2. CASE pc'[Owner] = "chosen" /\ did'.try = did.try + 1
    BY <1>1, <1>2, <1>6, <2>1, <2>2, BoundsAreNat DEF Owners, OwnerSteps
  <2>3. CASE pc' = pc /\ did' = did
    BY <1>1, <2>1, <2>3 DEF Owners
  <2> QED
    BY <1>6, <2>2, <2>3
<1>10. QueuePart'
  BY <1>1, <1>2, <1>4, QueueStays
  DEF ForgetsClaimed, SameCursor, SameDone, QInv, QueuePart, Fates
<1>11. HandsPart'
  <2>1. \A u \in ToSet(queue) : u.n \in 1 .. MaxSent
    BY <1>1, QueueFields
  <2>2. Seen' = Seen
    BY <1>4, <1>5, <2>1 DEF Seen, ForgetsClaimed, SameClaims
  <2>3. ASSUME NEW c \in Consumers PROVE BatchOK(c)'
    <3>1. \A u \in ToSet(todo[c]) : u.n \in 1 .. MaxSent
      BY <1>1, UpdateFields DEF Types, TodoTypes, ToSet
    <3>2. todo[c] # <<>> => Head(todo[c]) \in ToSet(todo[c])
      BY <1>1, TailOfTodo
    <3>3. FetchedOK(c) => FetchedOK(c)'
      BY <1>2, <1>5, <2>2 DEF FetchedOK
    <3>4. ActingOK(c) /\ pc'[c] = pc[c] => ActingOK(c)'
      BY <1>2, <1>4, <3>1, <3>2 DEF ActingOK, ForgetsClaimed, SameClaims, SameDone
    <3>5. pc'[c] = pc[c] \/ (c = Owner /\ pc'[c] = "chosen")
      BY <1>6 DEF Consumers
    <3>6. next' = next
      BY <1>4 DEF ForgetsClaimed
    <3>7. CASE pc'[c] = pc[c]
      BY <1>2, <3>3, <3>4, <3>6, <3>7 DEF QInv, HandsPart, BatchOK
    <3>8. CASE c = Owner /\ pc'[c] = "chosen"
      BY <1>2, <3>8 DEF QInv, HandsPart, BatchOK, Batch, Holding
    <3> QED
      BY <3>5, <3>7, <3>8
  <2>4. \A n : InHands(n)' = InHands(n)
    BY <1>2, <1>6 DEF InHands
  <2>5. NoneDropped'
    BY <1>1, <1>2, <1>4, <1>7, <2>4, NoneDroppedStays
    DEF QInv, HandsPart, ForgetsClaimed, SameDone
  <2> QED
    BY <2>3, <2>5 DEF HandsPart
<1>12. CopiesPart'
  <2>1. \A d \in Consumers : pc'[d] \in Batch => pc[d] \in Batch
    BY <1>6 DEF Consumers, Batch, Holding
  <2> QED
    BY <1>1, <1>2, <1>7, <2>1, CopiesStay DEF QInv
<1> QED
  BY <1>8, <1>9, <1>10, <1>11, <1>12 DEF QInv, TInv

-----------------------------------------------------------------------------
(***************************************************************************)
(* Reading a batch.                                                        *)
(***************************************************************************)
LEMMA FetchedInv ==
  ASSUME QInv, IInv', NEW c \in Consumers, pc[c] \in {"loaded", "again"}, ForgetsClaimed,
         NEW updates \in Seq(Update), Ordered(updates),
         ToSet(updates) \subseteq ToSet(queue'),
         \A u \in ToSet(updates), v \in ToSet(queue') : v.id <= u.id => v \in ToSet(updates),
         updates = <<>> => ToSet(queue') = {},
         todo' = [todo EXCEPT ![c] = updates],
         NEW step \in {"again", "fetched"}, Goto(c, step),
         step = "again" => row.confirmed = "absent" /\ updates # <<>> /\ row.offset > next,
         UNCHANGED <<recent, row, owner, mine, notifier, did, sent, menus, acted, reverted>>
  PROVE  QInv'
<1>1. Types /\ IInv /\ Owners /\ TelegramTypes /\ HistoryTypes
  BY DEF QInv, TInv, Types
<1>2. pc'[c] = step /\ \A d \in Consumers \ {c} : pc'[d] = pc[d]
  BY <1>1 DEF IInv, Shape, Goto
<1>3. TodoTypes' /\ todo'[c] = updates /\ \A d \in Consumers \ {c} : todo'[d] = todo[d]
  <2>1. \A u \in ToSet(updates) : u \in ToSet(queue)
    BY DEF ForgetsClaimed
  <2>2. next <= 2 * MaxSent + 1
    BY <1>1, BoundIsNat DEF TelegramTypes, HistoryTypes
  <2>3. \A u \in ToSet(queue) : u.id <= 2 * MaxSent /\ u.n <= sent
    BY <1>1, <2>2, QueueFields, BoundIsNat
  <2> QED
    BY <1>1, <2>1, <2>3, TodoAssigned
<1>4. Types'
  BY <1>1, <1>3 DEF ForgetsClaimed, Types, CopyTypes, HistoryTypes
<1>5. Owners'
  <2>1. pc'[Owner] = pc[Owner] \/ (pc'[Owner] \in {"again", "fetched"} /\ pc[Owner] # "idle")
    BY <1>2, BoundsAreNat
  <2>2. \A d \in Pollers : pc'[d] \in PollerSteps
    BY <1>1, <1>2, BoundsAreNat DEF Owners, PollerSteps, Steps, Holding
  <2> QED
    BY <1>1, <2>1, <2>2 DEF Owners, OwnerSteps
<1>6. QueuePart'
  BY <1>1, QueueStays DEF ForgetsClaimed, SameCursor, SameDone, QInv, QueuePart, Fates
<1>7. HandsPart'
  <2>1. FetchedOK(c)'
    BY <1>3 DEF FetchedOK, Seen
  <2>2. BatchOK(c)'
    <3>1. /\ mine[c].row.offset = row.offset /\ mine[c].row.sequence = row.sequence
          /\ mine[c].row.confirmed = row.confirmed
      BY DEF QInv, HandsPart, BatchOK, Batch, Holding
    <3>2. next' = next
      BY DEF ForgetsClaimed
    <3> QED
      BY <1>2, <1>3, <2>1, <3>1, <3>2 DEF BatchOK
  <2>3. \A d \in Consumers \ {c} :
          BatchOK(d)' /\ todo[d] = <<>> /\ pc[d] \notin Holding /\ pc'[d] \notin Holding
    BY <1>1, <1>2, <1>3, PeersIdle DEF QInv, Holding
  <2>4. \A n : ~ InHands(n)
    BY <2>3, BoundsAreNat DEF InHands, Holding
  <2>5. NoneDropped'
    BY <1>1, <2>4, NoneDroppedStays DEF QInv, HandsPart, ForgetsClaimed, SameDone
  <2> QED
    BY <2>2, <2>3, <2>5 DEF HandsPart
<1>8. CopiesPart'
  <2>1. \A d \in Consumers : pc'[d] \in Batch => pc[d] \in Batch
    BY <1>2 DEF Batch, Holding
  <2> QED
    BY <1>1, <2>1, CopiesStay DEF QInv
<1> QED
  BY <1>4, <1>5, <1>6, <1>7, <1>8 DEF QInv, TInv

LEMMA FetchesQueue ==
  ASSUME QInv, IInv', NEW c \in Consumers, Fetches(c)
  PROVE  QInv'
<1> DEFINE offset == OffsetOf(mine[c].row)
<1>1. TelegramTypes
  BY DEF QInv, TInv, Types
<1>2. pc[c] = "loaded" /\ Request(offset)
      /\ UNCHANGED <<recent, row, owner, mine, notifier, did, sent, menus, acted, reverted>>
  BY DEF Fetches, stored
<1>3. PICK updates \in Answers(offset) :
        /\ todo' = [todo EXCEPT ![c] = updates]
        /\ Goto(c, IF mine[c].row.confirmed = "absent" /\ LowIds(updates, mine[c].row)
                   THEN "again" ELSE "fetched")
  BY DEF Fetches
<1>4. /\ offset \in 0 .. 2 * MaxSent + 2
      /\ \A u \in Pending : offset > next \/ u.id >= offset
      /\ row.confirmed = "absent" /\ offset # 0 => offset = row.offset /\ offset > next
  BY <1>2, OffsetIsSafe
<1> DEFINE step == IF mine[c].row.confirmed = "absent" /\ LowIds(updates, mine[c].row)
                   THEN "again" ELSE "fetched"
<1>5. step = "again" => mine[c].row.confirmed = "absent" /\ updates # <<>>
                        /\ Min(Ids(ToSet(updates))) < offset
  BY DEF LowIds
<1>6. step \in {"again", "fetched"} /\ Goto(c, step)
  BY <1>3
<1> HIDE DEF offset, step
<1>7. ForgetsClaimed /\ queue' = Kept(offset)
  BY <1>2, <1>4, SafeRequest
<1>8. /\ updates \in Seq(Update) /\ Ordered(updates)
      /\ ToSet(updates) \subseteq ToSet(queue')
      /\ \A u \in ToSet(updates), v \in ToSet(queue') : v.id <= u.id => v \in ToSet(updates)
      /\ updates = <<>> => ToSet(queue') = {}
  <2>1. offset \in Int
    BY <1>4
  <2> QED
    BY <1>1, <1>3, <1>7, <2>1, AnswersFirst
<1>9. step = "again" => row.confirmed = "absent" /\ updates # <<>> /\ row.offset > next
  <2> SUFFICES ASSUME step = "again" PROVE row.confirmed = "absent" /\ row.offset > next
    BY <1>5
  <2>1. row.confirmed = "absent"
    BY <1>2, <1>5 DEF QInv, HandsPart, BatchOK
  <2>2. updates[1] \in ToSet(updates) /\ Min(Ids(ToSet(updates))) = updates[1].id
    BY <1>5, <1>8, EndsOfBatch
  <2>3. updates[1].id \in Int /\ updates[1].id >= 1
    <3>1. updates[1] \in Update
      BY <1>8, <2>2 DEF ToSet
    <3> QED
      BY <3>1, UpdateFields
  <2>4. offset # 0
    <3>1. updates[1].id < offset
      BY <1>5, <2>2
    <3> QED
      BY <2>3, <3>1, <1>4, BoundIsNat
  <2> QED
    BY <1>4, <2>1, <2>4
<1> QED
  BY <1>2, <1>3, <1>6, <1>7, <1>8, <1>9, FetchedInv

LEMMA FetchesFromHeadQueue ==
  ASSUME QInv, IInv', NEW c \in Consumers, FetchesFromHead(c)
  PROVE  QInv'
<1> DEFINE head == Min(Ids(ToSet(todo[c])))
<1>1. Types /\ TelegramTypes
  BY DEF QInv, TInv, Types
<1>2. pc[c] = "again" /\ Request(head) /\ Goto(c, "fetched")
      /\ UNCHANGED <<recent, row, owner, mine, notifier, did, sent, menus, acted, reverted>>
  BY DEF FetchesFromHead, stored
<1>3. PICK updates \in Answers(head) : todo' = [todo EXCEPT ![c] = updates]
  BY DEF FetchesFromHead
<1>4. /\ todo[c] # <<>> /\ ToSet(todo[c]) \subseteq ToSet(queue)
      /\ \A u \in ToSet(todo[c]), v \in ToSet(queue) : v.id <= u.id => v \in ToSet(todo[c])
  BY <1>2 DEF QInv, HandsPart, BatchOK, FetchedOK
<1>5. /\ todo[c][1] \in ToSet(todo[c]) /\ head = todo[c][1].id
      /\ \A u \in ToSet(todo[c]) : todo[c][1].id <= u.id
  BY <1>1, <1>4, EndsOfBatch DEF Types, TodoTypes
<1> HIDE DEF head
<1>6. head \in 1 .. 2 * MaxSent + 2
  <2>1. todo[c][1] \in Update
    BY <1>1, <1>5 DEF Types, TodoTypes, ToSet
  <2> QED
    BY <1>5, <2>1, UpdateFields
<1>7. \A v \in ToSet(queue) : v.id >= head
  <2> SUFFICES ASSUME NEW v \in ToSet(queue), ~ (v.id >= head) PROVE FALSE
    OBVIOUS
  <2>1. v.id \in Int
    BY <1>1, QueueFields DEF Types
  <2>2. v.id <= head
    BY <1>6, <2>1
  <2>3. v \in ToSet(todo[c])
    BY <1>4, <1>5, <2>2
  <2> QED
    BY <1>5, <2>3
<1>8. ForgetsClaimed /\ queue' = Kept(head)
  <2>1. head \in 0 .. 2 * MaxSent + 2
    BY <1>6
  <2>2. sent' = sent /\ \A u \in Pending : head > next \/ u.id >= head
    BY <1>2, <1>7 DEF Pending
  <2> QED
    BY <1>2, <2>1, <2>2, SafeRequest
<1>9. /\ updates \in Seq(Update) /\ Ordered(updates)
      /\ ToSet(updates) \subseteq ToSet(queue')
      /\ \A u \in ToSet(updates), v \in ToSet(queue') : v.id <= u.id => v \in ToSet(updates)
      /\ updates = <<>> => ToSet(queue') = {}
  <2>1. head \in Int
    BY <1>6
  <2> QED
    BY <1>1, <1>3, <1>8, <2>1, AnswersFirst
<1> QED
  BY <1>2, <1>3, <1>8, <1>9, FetchedInv

-----------------------------------------------------------------------------
(***************************************************************************)
(* Claiming a batch.                                                       *)
(***************************************************************************)
LEMMA MarkClaimedEffect ==
  ASSUME HistoryTypes, NEW batch, NEW skipped, MarkClaimed(batch, skipped)
  PROVE  /\ fate' \in [1 .. MaxSent -> Fate]
         /\ \A n \in 1 .. MaxSent :
              /\ fate'[n].claimed = (fate[n].claimed \/ n \in Numbers(batch))
              /\ fate'[n].done = fate[n].done /\ fate'[n].gone = fate[n].gone
              /\ fate[n].skipped => fate'[n].skipped
              /\ n \in Numbers(batch) /\ n \in Numbers(skipped) => fate'[n].skipped
<1>1. fate' = [n \in 1 .. MaxSent |->
                IF n \in Numbers(batch)
                THEN [fate[n] EXCEPT !.claimed = TRUE,
                                     !.skipped = fate[n].skipped \/ n \in Numbers(skipped)]
                ELSE fate[n]]
  BY DEF MarkClaimed, HistoryTypes
<1>2. ASSUME NEW n \in 1 .. MaxSent
      PROVE  /\ fate'[n] \in Fate
             /\ fate'[n].claimed = (fate[n].claimed \/ n \in Numbers(batch))
             /\ fate'[n].done = fate[n].done /\ fate'[n].gone = fate[n].gone
             /\ fate[n].skipped => fate'[n].skipped
             /\ n \in Numbers(batch) /\ n \in Numbers(skipped) => fate'[n].skipped
  <2>1. fate[n] \in Fate
    BY DEF HistoryTypes
  <2> DEFINE in == n \in Numbers(batch)
             sk == fate[n].skipped \/ n \in Numbers(skipped)
  <2>2. fate'[n] = IF in THEN [fate[n] EXCEPT !.claimed = TRUE, !.skipped = sk] ELSE fate[n]
    BY <1>1
  <2>3. sk \in BOOLEAN /\ (fate[n].skipped => sk) /\ (n \in Numbers(skipped) => sk)
    BY <2>1 DEF Fate
  <2> HIDE DEF in, sk
  <2>4. CASE in
    <3>1. fate'[n] = [fate[n] EXCEPT !.claimed = TRUE, !.skipped = sk]
      BY <2>2, <2>4
    <3> QED
      BY <2>1, <2>3, <2>4, <3>1 DEF Fate, in
  <2>5. CASE ~ in
    <3>1. fate'[n] = fate[n]
      BY <2>2, <2>5
    <3> QED
      BY <2>1, <2>5, <3>1 DEF Fate, in
  <2> QED
    BY <2>4, <2>5
<1> QED
  BY <1>1, <1>2

\* What the holder of a batch knows: its cursor is the one in the database, and its batch
\* is the beginning of the queue.
LEMMA BatchFacts ==
  ASSUME QInv, NEW c \in Consumers, pc[c] = "fetched"
  PROVE  /\ row \in RowShape /\ mine[c].row \in RowShape
         /\ mine[c].row.offset = row.offset /\ mine[c].row.sequence = row.sequence
         /\ mine[c].row.confirmed = row.confirmed
         /\ todo[c] \in Seq(Update) /\ Ordered(todo[c])
         /\ \A u \in ToSet(todo[c]) : u.id <= 2 * MaxSent /\ u.n <= sent
         /\ FetchedOK(c)
  BY DEF QInv, TInv, Types, CopyTypes, TodoTypes, HandsPart, BatchOK, Batch, Holding

\* A batch below the cursor with an update of it is not of a new numbering; a batch of a new
\* numbering shows all that is still claimed there.
LEMMA TurnedFacts ==
  ASSUME QInv, NEW c \in Consumers, pc[c] = "fetched", todo[c] # <<>>
  PROVE  LET B == ToSet(todo[c])
             turned == Turned(mine[c].row, B)
         IN  /\ turned /\ row.confirmed # "absent" => Seen = {}
             /\ turned \/ row.confirmed = "absent" => Seen \subseteq B
             /\ turned /\ row.confirmed = "absent" => \A u \in B : u.id < row.offset
             /\ ~ turned => \A u \in B : u.id < row.offset =>
                  row.confirmed # "absent" /\ CursorBehind /\ u \in Seen
<1> DEFINE s == todo[c]
           B == ToSet(s)
           turned == Turned(mine[c].row, B)
<1>1. /\ TelegramTypes /\ HistoryTypes /\ Cursor
  BY DEF QInv, TInv, Types, QueuePart
<1>2. /\ row \in RowShape /\ mine[c].row.offset = row.offset
      /\ s \in Seq(Update) /\ Ordered(s) /\ s # <<>> /\ FetchedOK(c)
  BY BatchFacts
<1>3. /\ s[1] \in B /\ Min(Ids(B)) = s[1].id /\ \A u \in B : s[1].id <= u.id
  BY <1>2, EndsOfBatch
<1>4. /\ row.offset \in Nat /\ B \subseteq ToSet(queue)
      /\ \A u \in ToSet(queue) : u.id \in Nat /\ u.id >= 1 /\ u.id < next /\ u.n <= sent
      /\ next \in Nat /\ sent \in 0 .. MaxSent
  BY <1>1, <1>2, QueueFields, BoundIsNat DEF RowShape, FetchedOK, HistoryTypes
<1>5. \A u \in B, v \in ToSet(queue) : v.id <= u.id => v \in B
  BY <1>2 DEF FetchedOK
<1>6. \A u \in ToSet(queue) : u \in Seen \/ u \in Pending
  BY DEF Seen, Pending
<1>7. turned <=> s[1].id < row.offset /\ B \intersect row.signatures = {}
  <2>1. B # {}
    BY <1>3
  <2> QED
    BY <1>2, <1>3, <2>1 DEF Turned
<1> HIDE DEF turned, B, s
<1>8. turned /\ row.confirmed # "absent" => Seen = {}
  <2> SUFFICES ASSUME turned, row.confirmed # "absent", Seen # {} PROVE FALSE
    OBVIOUS
  <2>1. CursorBehind /\ \A u \in Seen : u \in row.signatures
    BY <1>1 DEF Cursor
  <2>2. s[1] \in Seen
    BY <1>3, <1>4, <1>6, <1>7, <2>1 DEF CursorBehind
  <2> QED
    BY <1>3, <1>7, <2>1, <2>2
<1>9. row.confirmed = "absent" => Seen \subseteq B
  <2> SUFFICES ASSUME row.confirmed = "absent", NEW u \in Seen PROVE u \in B
    OBVIOUS
  <2>1. u.id = 1 /\ u \in ToSet(queue)
    BY <1>1 DEF Cursor, Seen
  <2>2. u.id <= s[1].id
    BY <1>3, <1>4, <2>1
  <2> QED
    BY <1>3, <1>5, <2>1, <2>2
<1>10. turned /\ row.confirmed = "absent" => \A u \in B : u.id < row.offset
  <2> SUFFICES ASSUME turned, row.confirmed = "absent", NEW u \in B PROVE u.id < row.offset
    OBVIOUS
  <2>1. row.offset # 0
    BY <1>3, <1>4, <1>7
  <2>2. row.offset = MaxSent + 2 /\ next <= 1 + sent
    BY <1>1, <2>1 DEF Cursor
  <2>3. u.id \in Nat /\ u.id < next
    BY <1>4
  <2> QED
    BY <1>4, <2>2, <2>3, BoundIsNat
<1>11. ASSUME ~ turned, NEW u \in B, u.id < row.offset
       PROVE  row.confirmed # "absent" /\ CursorBehind /\ u \in Seen
  <2>1. s[1].id < row.offset
    BY <1>3, <1>4, <1>11
  <2>2. PICK v \in B : v \in row.signatures
    BY <1>7, <1>11, <2>1
  <2>3. v \in Seen
    BY <1>1, <1>4, <2>2 DEF Cursor, Seen
  <2>4. row.confirmed # "absent"
    BY <1>1, <2>2 DEF Cursor
  <2>5. CursorBehind
    BY <1>1, <2>3, <2>4 DEF Cursor
  <2>6. u \in Seen
    BY <1>4, <1>6, <1>11, <2>5 DEF CursorBehind
  <2> QED
    BY <2>4, <2>5, <2>6
<1> QED
  BY <1>8, <1>9, <1>10, <1>11 DEF turned, B, s

\* A claim leaves the cursor behind all that is pending, unless it was of nothing.
LEMMA ClaimQueue ==
  ASSUME QInv, NEW c \in Consumers, pc[c] = "fetched",
         row' = Claimed(mine[c].row, ToSet(todo[c])), UNCHANGED <<queue, next, sent>>,
         NEW skipped, MarkClaimed(ToSet(todo[c]), skipped)
  PROVE  QueuePart'
<1> DEFINE s == todo[c]
           B == ToSet(s)
           turned == Turned(mine[c].row, B)
<1>1. /\ TelegramTypes /\ HistoryTypes /\ Cursor /\ Fates /\ Turns
  BY DEF QInv, TInv, Types, QueuePart
<1>2. /\ row \in RowShape /\ mine[c].row \in RowShape /\ mine[c].row.offset = row.offset
      /\ s \in Seq(Update) /\ Ordered(s) /\ FetchedOK(c)
      /\ \A u \in B : u.id <= 2 * MaxSent /\ u.n <= sent
  BY BatchFacts
<1>3. /\ fate' \in [1 .. MaxSent -> Fate]
      /\ \A n \in 1 .. MaxSent :
           /\ fate'[n].claimed = (fate[n].claimed \/ n \in Numbers(B))
           /\ fate'[n].done = fate[n].done /\ fate'[n].gone = fate[n].gone
  BY <1>1, MarkClaimedEffect
<1>4. /\ row.offset \in Nat /\ B \subseteq ToSet(queue)
      /\ \A u \in ToSet(queue) : u.id \in Nat /\ u.id < next /\ u.n <= sent /\ u.n \in 1 .. MaxSent
      /\ \A u, v \in ToSet(queue) : u.id = v.id \/ u.n = v.n => u = v
      /\ next \in Nat /\ sent \in Nat /\ row.sequence \in Nat
      /\ \A u \in row.signatures : u.n \in 1 .. MaxSent
  BY <1>1, <1>2, QueueFields, UpdateFields DEF RowShape, FetchedOK
<1>5. \A u \in B, v \in ToSet(queue) : v.id <= u.id => v \in B
  BY <1>2 DEF FetchedOK
<1>6. Fates'
  <2>1. \A n \in Numbers(B) : n <= sent
    BY <1>2 DEF Numbers
  <2>2. \A n \in 1 .. MaxSent : n > sent => n \notin Numbers(B)
    BY <1>4, <2>1
  <2> QED
    BY <1>1, <1>3, <2>2 DEF Fates
<1>7. Seen' = Seen \union B /\ Pending' = {u \in ToSet(queue) : u \notin Seen /\ u \notin B}
  <2>1. ASSUME NEW u \in ToSet(queue) PROVE u.n \in Numbers(B) <=> u \in B
    BY <1>4 DEF Numbers
  <2>2. ASSUME NEW u \in ToSet(queue) PROVE fate'[u.n].claimed <=> fate[u.n].claimed \/ u \in B
    BY <1>3, <1>4, <2>1
  <2> QED
    BY <1>4, <2>2 DEF Seen, Pending
<1>8. IsFiniteSet(ClaimedOnes) /\ IsFiniteSet(ClaimedOnes') /\ ClaimedOnes \subseteq ClaimedOnes'
      /\ \A u \in B : u.n \in ClaimedOnes'
  <2>1. ClaimedOnes \subseteq 1 .. MaxSent /\ ClaimedOnes' \subseteq 1 .. MaxSent
    BY DEF ClaimedOnes
  <2>2. IsFiniteSet(1 .. MaxSent)
    BY BoundIsNat, FS_Interval
  <2>3. \A u \in B : u.n \in Numbers(B) /\ u.n \in 1 .. MaxSent
    BY <1>4 DEF Numbers
  <2> QED
    BY <1>3, <2>1, <2>2, <2>3, FS_Subset DEF ClaimedOnes
<1>9. /\ Cardinality(ClaimedOnes) \in Nat /\ Cardinality(ClaimedOnes') \in Nat
      /\ Cardinality(ClaimedOnes) <= Cardinality(ClaimedOnes')
      /\ Cardinality(ClaimedOnes) = Cardinality(ClaimedOnes') => ClaimedOnes = ClaimedOnes'
  BY <1>8, FS_CardinalityType, FS_Subset
<1>10. CASE s = <<>>
  <2>1. /\ row'.offset = row.offset /\ row'.confirmed = "yes" /\ row'.sequence = row.sequence
        /\ row'.signatures = {}
    BY <1>2, <1>10, ClaimedRow
  <2>2. B = {} /\ Seen = {}
    BY <1>2, <1>10 DEF FetchedOK, ToSet
  <2>3. Seen' = {}
    BY <1>7, <2>2
  <2>4. Cursor'
    BY <2>1, <2>3 DEF Cursor
  <2>5. Turns'
    BY <1>1, <1>4, <1>9, <2>1 DEF Turns
  <2> QED
    BY <1>6, <2>4, <2>5 DEF QueuePart
<1>11. CASE s # <<>>
  <2>1. PICK v \in B :
          /\ \A u \in B : u.id <= v.id
          /\ turned =>
               /\ row'.offset = v.id + 1 /\ row'.sequence = row.sequence + 1
               /\ row'.signatures = B
          /\ ~ turned =>
               /\ row'.offset = IF row.offset >= v.id + 1 THEN row.offset ELSE v.id + 1
               /\ row'.sequence = row.sequence
               /\ row'.signatures = {u \in row.signatures : u.id \notin Ids(B)} \union B
    BY <1>2, <1>11, ClaimedRow
  <2>2. row'.confirmed = "no"
    BY <1>2, <1>11, ClaimedRow
  <2>3. /\ turned /\ row.confirmed # "absent" => Seen = {}
        /\ turned \/ row.confirmed = "absent" => Seen \subseteq B
        /\ ~ turned => \A u \in B : u.id < row.offset =>
             row.confirmed # "absent" /\ CursorBehind /\ u \in Seen
    BY <1>11, TurnedFacts
  <2> HIDE DEF turned, B, s
  <2>4. v.id \in Nat /\ v.id < next /\ v \in ToSet(queue)
    BY <1>4
  <2>5. \A u \in Pending' : u.id >= v.id + 1 /\ u \in Pending
    <3>1. \A u \in Pending' : u \in ToSet(queue) /\ ~ (u.id <= v.id)
      BY <1>5, <1>7
    <3>2. \A u \in Pending' : u \in Pending
      BY <1>7 DEF Seen, Pending
    <3> QED
      BY <1>4, <2>4, <3>1, <3>2
  <2>6. /\ row'.offset >= v.id + 1 /\ row'.offset \in Nat
        /\ ~ turned => row'.offset >= row.offset
    BY <1>4, <2>1, <2>4
  <2>7. CursorBehind'
    <3>1. CASE row'.offset = v.id + 1
      BY <1>4, <2>4, <2>5, <3>1 DEF CursorBehind
    <3>2. CASE row'.offset # v.id + 1
      <4>1. ~ turned /\ row'.offset = row.offset /\ v.id < row.offset
        BY <1>4, <2>1, <2>4, <3>2
      <4>2. CursorBehind
        BY <2>3, <4>1
      <4> QED
        BY <2>5, <4>1, <4>2 DEF CursorBehind
    <3> QED
      BY <3>1, <3>2
  <2>8. \A u \in Seen : u.id < row.offset /\ u \in ToSet(queue)
    BY <1>1 DEF Cursor, Seen
  <2>9. \A u \in Seen' : u.id < row'.offset
    <3>1. \A u \in B : u.id \in Nat /\ u.id < row'.offset
      BY <1>4, <2>1, <2>4, <2>6
    <3>2. ~ turned => \A u \in Seen : u.id < row'.offset
      BY <1>4, <2>6, <2>8
    <3> QED
      BY <1>7, <2>3, <3>1, <3>2
  <2>10. \A u \in Seen' : u \in row'.signatures
    <3>1. B \subseteq row'.signatures
      BY <2>1
    <3>2. ASSUME NEW u \in Seen, u \notin B PROVE u \in row'.signatures
      <4>1. ~ turned /\ row.confirmed # "absent"
        BY <2>3, <3>2
      <4>2. u \in row.signatures
        BY <1>1, <4>1 DEF Cursor
      <4>3. u.id \notin Ids(B)
        BY <1>4, <2>8, <3>2 DEF Ids
      <4> QED
        BY <2>1, <4>1, <4>2, <4>3
    <3> QED
      BY <1>7, <3>1, <3>2
  <2>11. \A u \in row'.signatures : u.n <= sent' /\ fate'[u.n].claimed
    <3>1. \A u \in B : u.n <= sent /\ u.n \in 1 .. MaxSent /\ u.n \in Numbers(B)
      BY <1>4 DEF Numbers
    <3>2. \A u \in row'.signatures : u \in B \/ u \in row.signatures
      BY <2>1
    <3> QED
      BY <1>1, <1>3, <1>4, <3>1, <3>2 DEF Cursor
  <2>12. Cursor'
    BY <2>2, <2>7, <2>9, <2>10, <2>11 DEF Cursor
  <2>13. Turns'
    <3>1. CASE ~ turned
      BY <1>1, <1>4, <1>9, <2>1, <3>1 DEF Turns
    <3>2. CASE turned /\ row.confirmed # "absent"
      <4>1. v.n \in ClaimedOnes' /\ v.n \notin ClaimedOnes
        <5>1. v \notin Seen
          BY <2>3, <3>2
        <5> QED
          BY <1>8, <2>4, <5>1 DEF ClaimedOnes, Seen
      <4>2. Cardinality(ClaimedOnes) + 1 <= Cardinality(ClaimedOnes')
        BY <1>9, <4>1
      <4> QED
        BY <1>1, <1>4, <1>9, <2>1, <3>2, <4>2 DEF Turns
    <3>3. CASE turned /\ row.confirmed = "absent"
      <4>1. row'.sequence = 1
        BY <1>1, <2>1, <3>3 DEF Cursor
      <4>2. Cardinality(ClaimedOnes') # 0
        BY <1>8, FS_EmptySet
      <4> QED
        BY <1>9, <4>1, <4>2 DEF Turns
    <3> QED
      BY <3>1, <3>2, <3>3
  <2> QED
    BY <1>6, <2>12, <2>13 DEF QueuePart
<1> QED
  BY <1>10, <1>11

\* A claim never takes the cursor back within a numbering, and leaves the guard alone.
LEMMA ClaimGrows ==
  ASSUME QInv, NEW c \in Consumers, pc[c] = "fetched",
         row' = Claimed(mine[c].row, ToSet(todo[c]))
  PROVE  /\ row' \in RowShape
         /\ row'.consumed = row.consumed /\ row'.reminded = row.reminded
         /\ row.sequence <= row'.sequence
         /\ row'.sequence = row.sequence => row.offset <= row'.offset
<1> DEFINE s == todo[c]
           B == ToSet(s)
           turned == Turned(mine[c].row, B)
<1>1. /\ row \in RowShape /\ mine[c].row \in RowShape /\ mine[c].row.offset = row.offset
      /\ s \in Seq(Update) /\ Ordered(s) /\ \A u \in B : u.id <= 2 * MaxSent
  BY BatchFacts
<1>2. row.sequence \in Nat /\ row.offset \in Nat /\ \A u \in B : u.id \in Nat
  <2>1. \A u \in B : u \in Update
    BY <1>1 DEF ToSet
  <2> QED
    BY <1>1, <2>1, UpdateFields, BoundIsNat DEF RowShape
<1>3. /\ row' \in RowShape
      /\ row'.consumed = row.consumed /\ row'.reminded = row.reminded
  BY <1>1, ClaimedRow
<1>4. CASE s = <<>>
  <2>1. row'.offset = row.offset /\ row'.sequence = row.sequence
    BY <1>1, <1>4, ClaimedRow
  <2> QED
    BY <1>2, <1>3, <2>1
<1>5. CASE s # <<>>
  <2>1. PICK v \in B :
          /\ turned => row'.offset = v.id + 1 /\ row'.sequence = row.sequence + 1
          /\ ~ turned =>
               /\ row'.offset = IF row.offset >= v.id + 1 THEN row.offset ELSE v.id + 1
               /\ row'.sequence = row.sequence
    BY <1>1, <1>5, ClaimedRow
  <2> HIDE DEF turned, B, s
  <2>2. v.id \in Nat
    BY <1>2
  <2> QED
    BY <1>2, <1>3, <2>1, <2>2
<1> QED
  BY <1>4, <1>5

\* What the claiming poller goes on with has not been acted on, and the rest of its batch
\* had been claimed before or is set aside.
LEMMA ClaimedHands ==
  ASSUME QInv, NEW c \in Consumers, pc[c] = "fetched",
         NEW skipped, MarkClaimed(ToSet(todo[c]), skipped),
         row.confirmed = "absent" /\ Turned(mine[c].row, ToSet(todo[c])) =>
           \A u \in ToSet(todo[c]) : u.id < row.offset => u \in skipped,
         NEW rest \in Seq(Update),
         ToSet(rest) = {u \in ToSet(todo[c]) : u.id >= FirstNew(mine[c].row, ToSet(todo[c]))}
  PROVE  /\ \A u \in ToSet(rest) : fate'[u.n].claimed /\ fate'[u.n].done = 0
         /\ \A n \in 1 .. MaxSent :
              fate'[n].claimed /\ fate'[n].done = 0 /\ ~ fate'[n].skipped =>
                \/ fate[n].claimed /\ fate[n].done = 0 /\ ~ fate[n].skipped
                \/ n \in Numbers(ToSet(rest))
<1> DEFINE s == todo[c]
           B == ToSet(s)
           turned == Turned(mine[c].row, B)
           first == FirstNew(mine[c].row, B)
<1>1. /\ TelegramTypes /\ HistoryTypes /\ Cursor /\ Fates
  BY DEF QInv, TInv, Types, QueuePart
<1>2. row \in RowShape /\ s \in Seq(Update) /\ FetchedOK(c)
  BY BatchFacts
<1>3. /\ \A n \in 1 .. MaxSent :
           /\ fate'[n].claimed = (fate[n].claimed \/ n \in Numbers(B))
           /\ fate'[n].done = fate[n].done
           /\ fate[n].skipped => fate'[n].skipped
           /\ n \in Numbers(B) /\ n \in Numbers(skipped) => fate'[n].skipped
  BY <1>1, MarkClaimedEffect
<1>4. /\ row.offset \in Nat /\ B \subseteq ToSet(queue)
      /\ \A u \in ToSet(queue) : u.id \in Nat /\ u.n \in 1 .. MaxSent
      /\ \A n \in 1 .. MaxSent : fate[n].done \in Nat /\ (fate[n].done > 0 => fate[n].claimed)
  <2>1. \A n \in 1 .. MaxSent : fate[n] \in Fate
    BY <1>1 DEF HistoryTypes
  <2>2. \A n \in 1 .. MaxSent : fate[n].done \in Nat /\ (fate[n].done > 0 => fate[n].claimed)
    BY <1>1, <2>1 DEF Fates, Fate
  <2> QED
    BY <1>1, <1>2, <2>2, QueueFields DEF RowShape, FetchedOK
<1>5. first = IF turned /\ row.confirmed # "absent" THEN 0 ELSE row.offset
  BY DEF FirstNew
<1>6. CASE s = <<>>
  <2>1. B = {} /\ ToSet(rest) = {} /\ Numbers(B) = {}
    BY <1>6 DEF ToSet, Numbers
  <2> QED
    BY <1>3, <2>1
<1>7. CASE s # <<>>
  <2>1. /\ turned /\ row.confirmed # "absent" => Seen = {}
        /\ turned /\ row.confirmed = "absent" => \A u \in B : u.id < row.offset
        /\ ~ turned => \A u \in B : u.id < row.offset =>
             row.confirmed # "absent" /\ CursorBehind /\ u \in Seen
    BY <1>7, TurnedFacts
  <2>2. ToSet(rest) = {u \in B : u.id >= first}
    OBVIOUS
  <2>3. \A u \in Seen : u.id < row.offset
    BY <1>1 DEF Cursor
  <2>4. row.confirmed = "absent" /\ turned => \A u \in B : u.id < row.offset => u \in skipped
    OBVIOUS
  <2> HIDE DEF first, turned, B, s
  <2>5. ASSUME NEW u \in ToSet(rest) PROVE fate'[u.n].claimed /\ fate'[u.n].done = 0
    <3>1. u \in B /\ u.id >= first /\ u \in ToSet(queue) /\ u.n \in 1 .. MaxSent
      BY <1>4, <2>2, <2>5
    <3>2. u \notin Seen
      <4>1. CASE turned /\ row.confirmed # "absent"
        BY <2>1, <4>1
      <4>2. CASE ~ (turned /\ row.confirmed # "absent")
        BY <1>4, <1>5, <2>3, <3>1, <4>2
      <4> QED
        BY <4>1, <4>2
    <3>3. fate[u.n].done = 0
      BY <1>4, <3>1, <3>2 DEF Seen
    <3>4. u.n \in Numbers(B)
      BY <3>1 DEF Numbers
    <3> QED
      BY <1>3, <3>1, <3>3, <3>4
  <2>6. ASSUME NEW n \in 1 .. MaxSent, fate'[n].claimed, fate'[n].done = 0, ~ fate'[n].skipped,
               ~ (fate[n].claimed /\ fate[n].done = 0 /\ ~ fate[n].skipped)
        PROVE  n \in Numbers(ToSet(rest))
    <3>1. n \in Numbers(B) /\ ~ fate[n].claimed /\ n \notin Numbers(skipped)
      BY <1>3, <2>6
    <3>2. PICK u \in B : u.n = n
      BY <3>1 DEF Numbers
    <3>3. u \notin Seen /\ u \notin skipped
      BY <3>1, <3>2 DEF Seen, Numbers
    <3>4. u.id >= first
      <4>1. u.id \in Nat
        BY <1>4
      <4>2. CASE turned /\ row.confirmed # "absent"
        BY <1>5, <4>1, <4>2
      <4>3. CASE turned /\ row.confirmed = "absent"
        BY <2>1, <2>4, <3>3, <4>3
      <4>4. CASE ~ turned
        BY <1>4, <1>5, <2>1, <3>3, <4>1, <4>4
      <4> QED
        BY <4>2, <4>3, <4>4
    <3> QED
      BY <2>2, <3>2, <3>4 DEF Numbers
  <2> QED
    BY <2>5, <2>6
<1> QED
  BY <1>6, <1>7

LEMMA ClaimsQueue ==
  ASSUME QInv, IInv', NEW c \in Pollers, Claims(c)
  PROVE  QInv'
<1> DEFINE copy == mine[c].row
           B == ToSet(todo[c])
           first == FirstNew(copy, B)
           rest == From(todo[c], first)
<1>1. Types /\ IInv /\ Owners /\ HistoryTypes /\ c \in Consumers /\ c # Owner
  BY BoundsAreNat, ConsumersAssumption DEF QInv, TInv, Types
<1>2. pc[c] = "fetched"
  BY DEF Claims
<1>3. /\ row \in RowShape /\ copy \in RowShape
      /\ copy.offset = row.offset /\ copy.sequence = row.sequence
      /\ todo[c] \in Seq(Update) /\ Ordered(todo[c])
      /\ \A u \in B : u.id <= 2 * MaxSent /\ u.n <= sent
  BY <1>1, <1>2, BatchFacts
<1>4. /\ row' = Claimed(copy, B) /\ recent' = TRUE
      /\ mine' = [mine EXCEPT ![c].row = Recursored(copy, row')]
      /\ todo' = [todo EXCEPT ![c] = rest]
      /\ Goto(c, "acting")
  BY <1>3 DEF Claims
<1>5. MarkClaimed(B, IF row.confirmed = "absent" /\ Turned(copy, B)
                     THEN {u \in B : u.id < row.offset} ELSE {})
  BY <1>3 DEF Claims
<1>6. UNCHANGED <<queue, next, asked, owner, notifier, did, sent, menus, acted, reverted>>
  BY DEF Claims, telegram
<1>7. rest \in Seq(Update) /\ Ordered(rest) /\ ToSet(rest) = {u \in B : u.id >= first}
  <2>1. first \in Int
    <3>1. row.offset \in Int
      BY <1>3 DEF RowShape
    <3> QED
      BY <3>1 DEF FirstNew
  <2> HIDE DEF first
  <2> QED
    BY <1>3, <2>1, FromKeeps
<1>8. /\ \A u \in ToSet(rest) : fate'[u.n].claimed /\ fate'[u.n].done = 0
      /\ \A n \in 1 .. MaxSent :
           fate'[n].claimed /\ fate'[n].done = 0 /\ ~ fate'[n].skipped =>
             \/ fate[n].claimed /\ fate[n].done = 0 /\ ~ fate[n].skipped
             \/ n \in Numbers(ToSet(rest))
  <2> DEFINE skipped == IF row.confirmed = "absent" /\ Turned(copy, B)
                        THEN {u \in B : u.id < row.offset} ELSE {}
  <2>1. row.confirmed = "absent" /\ Turned(copy, B) =>
          \A u \in B : u.id < row.offset => u \in skipped
    OBVIOUS
  <2> HIDE DEF skipped, rest
  <2> QED
    BY <1>1, <1>2, <1>5, <1>7, <2>1, ClaimedHands DEF skipped
<1>9. QueuePart'
  BY <1>1, <1>2, <1>4, <1>5, <1>6, ClaimQueue
<1>10. /\ row' \in RowShape
       /\ row'.consumed = row.consumed /\ row'.reminded = row.reminded
       /\ row.sequence <= row'.sequence
       /\ row'.sequence = row.sequence => row.offset <= row'.offset
  BY <1>1, <1>2, <1>4, ClaimGrows
<1> DEFINE next_copy == Recursored(copy, row')
<1>11. /\ next_copy \in RowShape
       /\ next_copy.offset = row'.offset /\ next_copy.sequence = row'.sequence
       /\ next_copy.consumed = copy.consumed /\ next_copy.reminded = copy.reminded
  BY <1>3, <1>10, RecursoredShape
<1>12. fate' \in [1 .. MaxSent -> Fate]
  BY <1>1, <1>5, MarkClaimedEffect
<1> HIDE DEF rest, first, B, next_copy, copy
<1>13. /\ mine' = [mine EXCEPT ![c] = [row |-> next_copy, owner |-> mine[c].owner]]
       /\ mine \in [Consumers -> [row : RowShape, owner : Nat]]
  BY <1>1, <1>4, RowAssigned DEF next_copy, Types, CopyTypes
<1>14. /\ mine' \in [Consumers -> [row : RowShape, owner : Nat]]
       /\ mine'[c].row = next_copy /\ mine'[c].owner = mine[c].owner
       /\ \A d \in Consumers \ {c} : mine'[d] = mine[d]
  <2>1. [row |-> next_copy, owner |-> mine[c].owner] \in [row : RowShape, owner : Nat]
    BY <1>1, <1>11, <1>13
  <2> QED
    BY <1>1, <1>13, <2>1
<1>15. pc'[c] = "acting" /\ \A d \in Consumers \ {c} : pc'[d] = pc[d]
  BY <1>1, <1>4 DEF IInv, Shape, Goto
<1>16. TodoTypes' /\ todo'[c] = rest /\ \A d \in Consumers \ {c} : todo'[d] = todo[d]
  BY <1>1, <1>3, <1>4, <1>6, <1>7, TodoAssigned
<1>17. Types'
  <2>1. TelegramTypes'
    BY <1>1, <1>6 DEF Types, TelegramTypes
  <2>2. CopyTypes' /\ HistoryTypes'
    BY <1>1, <1>4, <1>6, <1>10, <1>12, <1>14 DEF Types, CopyTypes, HistoryTypes
  <2> QED
    BY <1>16, <2>1, <2>2 DEF Types
<1>18. Owners'
  <2>1. pc'[Owner] = pc[Owner]
    BY <1>1, <1>15, BoundsAreNat
  <2>2. \A d \in Pollers : pc'[d] \in PollerSteps
    BY <1>1, <1>15, BoundsAreNat DEF Owners, PollerSteps, Steps, Holding
  <2>3. \A d \in Consumers : mine'[d].owner = mine[d].owner
    BY <1>14
  <2> QED
    BY <1>1, <1>6, <2>1, <2>2, <2>3 DEF Owners
<1>19. \A d \in Consumers \ {c} :
         BatchOK(d)' /\ todo[d] = <<>> /\ pc[d] \notin Holding /\ pc'[d] \notin Holding
  BY <1>1, <1>2, <1>15, <1>16, PeersIdle DEF QInv, Holding
<1>20. HandsPart'
  <2>1. BatchOK(c)'
    <3>1. ActingOK(c)'
      BY <1>8, <1>15, <1>16 DEF ActingOK
    <3> QED
      BY <1>11, <1>14, <1>15, <3>1 DEF BatchOK
  <2>2. \A n : ~ InHands(n)
    BY <1>2, <1>19, BoundsAreNat DEF InHands, Holding
  <2>3. NoneDropped'
    <3> SUFFICES ASSUME NEW n \in 1 .. sent', fate'[n].claimed, fate'[n].done = 0,
                        ~ fate'[n].skipped
                 PROVE  did'.kill > 0 \/ InHands(n)'
      BY DEF NoneDropped
    <3>1. n \in 1 .. MaxSent /\ n \in 1 .. sent
      BY <1>1, <1>6, BoundIsNat DEF HistoryTypes
    <3>2. CASE fate[n].claimed /\ fate[n].done = 0 /\ ~ fate[n].skipped
      BY <1>6, <2>2, <3>1, <3>2 DEF QInv, HandsPart, NoneDropped
    <3>3. CASE n \in Numbers(ToSet(rest))
      BY <1>15, <1>16, <3>3 DEF InHands
    <3> QED
      BY <1>8, <3>1, <3>2, <3>3
  <2> QED
    BY <1>19, <2>1, <2>3 DEF HandsPart
<1>21. CopiesPart'
  <2>1. row.sequence \in Nat /\ row'.sequence \in Nat /\ notifier.row.sequence \in Nat
        /\ row.offset \in Nat /\ row'.offset \in Nat /\ notifier.row.offset \in Nat
        /\ \A d \in Consumers : mine[d].row.sequence \in Nat
    <3>1. notifier.row \in RowShape /\ \A d \in Consumers : mine[d].row \in RowShape
      BY <1>1 DEF Types, CopyTypes
    <3> QED
      BY <1>3, <1>10, <3>1, RowNumbers
  <2>2. OldCopies'
    <3>1. \A d \in Consumers : mine'[d].row.sequence <= row'.sequence
      BY <1>10, <1>11, <1>14, <2>1 DEF QInv, CopiesPart, OldCopies
    <3>2. notifier.row.sequence <= row.sequence
          /\ (notifier.row.sequence = row.sequence => notifier.row.offset <= row.offset)
      BY DEF QInv, CopiesPart, OldCopies
    <3> QED
      BY <1>6, <1>10, <2>1, <3>1, <3>2 DEF OldCopies
  <2>3. Reminders'
    BY <1>6, <1>10, <1>11, <1>14 DEF QInv, CopiesPart, Reminders, copy
  <2>4. Buttons'
    <3>1. pc[c] \in Batch
      BY <1>2 DEF Batch, Holding
    <3> QED
      BY <1>6, <1>10, <1>11, <1>14, <1>15, <3>1 DEF QInv, CopiesPart, Buttons, copy
  <2> QED
    BY <2>2, <2>3, <2>4 DEF CopiesPart
<1> QED
  BY <1>9, <1>17, <1>18, <1>20, <1>21 DEF QInv, TInv

\* The binding sets aside all it claims, and leaves.
LEMMA OwnerBindsQueue ==
  ASSUME QInv, IInv', OwnerBinds
  PROVE  QInv'
<1> DEFINE copy == mine[Owner].row
           B == ToSet(todo[Owner])
<1>1. Types /\ IInv /\ Owners /\ HistoryTypes /\ Owner \in Consumers
  BY BoundsAreNat DEF QInv, TInv, Types
<1>2. pc[Owner] = "fetched" /\ pc[Owner] \in Holding
  BY DEF OwnerBinds, Holding
<1>3. copy.sequence = row.sequence
  BY <1>1, <1>2, BatchFacts
<1>4. /\ row' = Claimed(copy, B) /\ recent' = TRUE /\ owner' = owner + 1
      /\ MarkClaimed(B, B) /\ Leave(Owner)
  BY <1>3 DEF OwnerBinds
<1>5. UNCHANGED <<queue, next, asked, notifier, did, sent, menus, acted, reverted>>
  BY DEF OwnerBinds, telegram
<1>6. QueuePart'
  BY <1>1, <1>2, <1>4, <1>5, ClaimQueue
<1>7. /\ row' \in RowShape
      /\ row'.consumed = row.consumed /\ row'.reminded = row.reminded
      /\ row.sequence <= row'.sequence
      /\ row'.sequence = row.sequence => row.offset <= row'.offset
  BY <1>1, <1>2, <1>4, ClaimGrows
<1>8. /\ fate' \in [1 .. MaxSent -> Fate]
      /\ \A n \in 1 .. MaxSent :
           /\ fate'[n].claimed = (fate[n].claimed \/ n \in Numbers(B))
           /\ fate'[n].done = fate[n].done
           /\ fate[n].skipped => fate'[n].skipped
           /\ n \in Numbers(B) => fate'[n].skipped
  BY <1>1, <1>4, MarkClaimedEffect
<1>9. /\ mine' \in [Consumers -> [row : RowShape, owner : Nat]] /\ TodoTypes'
      /\ mine'[Owner] = NoCopy /\ todo'[Owner] = <<>> /\ pc'[Owner] = "idle"
      /\ \A d \in Consumers \ {Owner} :
           mine'[d] = mine[d] /\ todo'[d] = todo[d] /\ pc'[d] = pc[d]
  BY <1>1, <1>4, <1>5, LeaveTypes
<1> HIDE DEF B, copy
<1>10. owner \in Nat /\ did.try \in Nat /\ owner + 1 <= 1 + did.try
  <2>1. owner \in Nat /\ did.try \in Nat
    BY <1>1 DEF Types, CopyTypes, HistoryTypes, Deeds
  <2> QED
    BY <1>1, <1>2, <2>1 DEF Owners
<1>11. Types'
  BY <1>1, <1>4, <1>5, <1>7, <1>8, <1>9, <1>10 DEF Types, TelegramTypes, CopyTypes, HistoryTypes
<1>12. Owners'
  <2>1. \A d \in Pollers : pc'[d] \in PollerSteps
    BY <1>1, <1>9, BoundsAreNat, ConsumersAssumption DEF Owners
  <2>2. \A d \in Consumers : mine'[d].owner <= owner + 1
    <3>1. \A d \in Consumers : mine[d].owner \in Nat /\ mine[d].owner <= owner
      BY <1>1 DEF Types, CopyTypes, Owners
    <3>2. mine'[Owner].owner = 0
      BY <1>9 DEF NoCopy
    <3> QED
      BY <1>9, <1>10, <3>1, <3>2
  <2> QED
    BY <1>1, <1>4, <1>5, <1>9, <1>10, <2>1, <2>2 DEF Owners, OwnerSteps
<1>13. \A d \in Consumers \ {Owner} :
         BatchOK(d)' /\ todo[d] = <<>> /\ pc[d] \notin Holding /\ pc'[d] \notin Holding
  BY <1>1, <1>2, <1>9, PeersIdle DEF QInv
<1>14. HandsPart'
  <2>1. BatchOK(Owner)'
    BY <1>9 DEF BatchOK, Batch, Holding
  <2>2. \A n : ~ InHands(n)
    BY <1>13, BoundsAreNat, ConsumersAssumption DEF InHands, Holding
  <2>3. NoneDropped'
    <3>1. \A n \in 1 .. sent' : n \in 1 .. MaxSent /\ n \in 1 .. sent
      BY <1>1, <1>5, BoundIsNat DEF HistoryTypes
    <3> QED
      BY <1>5, <1>8, <2>2, <3>1 DEF QInv, HandsPart, NoneDropped
  <2> QED
    BY <1>13, <2>1, <2>3 DEF HandsPart
<1>15. CopiesPart'
  <2>1. /\ notifier.row \in RowShape /\ \A d \in Consumers : mine[d].row \in RowShape
        /\ row \in RowShape /\ mine'[Owner].row = NewRow
    BY <1>1, <1>9 DEF Types, CopyTypes, NoCopy
  <2>2. row.sequence \in Nat /\ row'.sequence \in Nat /\ notifier.row.sequence \in Nat
        /\ row.offset \in Nat /\ row'.offset \in Nat /\ notifier.row.offset \in Nat
        /\ \A d \in Consumers : mine[d].row.sequence \in Nat
    BY <1>7, <2>1, RowNumbers
  <2>3. NewRow.sequence = 0 /\ NewRow.reminded = FALSE
    BY DEF NewRow
  <2>4. OldCopies'
    <3>1. \A d \in Consumers : mine'[d].row.sequence <= row'.sequence
      BY <1>7, <1>9, <2>1, <2>2, <2>3 DEF QInv, CopiesPart, OldCopies
    <3>2. notifier.row.sequence <= row.sequence
          /\ (notifier.row.sequence = row.sequence => notifier.row.offset <= row.offset)
      BY DEF QInv, CopiesPart, OldCopies
    <3> QED
      BY <1>5, <1>7, <2>2, <3>1, <3>2 DEF OldCopies
  <2>5. Reminders'
    BY <1>5, <1>7, <1>9, <2>1, <2>3 DEF QInv, CopiesPart, Reminders
  <2>6. Buttons'
    <3>1. pc'[Owner] \notin Batch
      BY <1>9 DEF Batch, Holding
    <3> QED
      BY <1>5, <1>7, <1>9, <3>1 DEF QInv, CopiesPart, Buttons
  <2> QED
    BY <2>4, <2>5, <2>6 DEF CopiesPart
<1> QED
  BY <1>6, <1>11, <1>12, <1>14, <1>15 DEF QInv, TInv

-----------------------------------------------------------------------------
(***************************************************************************)
(* Acting on the first update that is left.                                *)
(***************************************************************************)
LEMMA DoneEffect ==
  ASSUME HistoryTypes, NEW u, u.n \in 1 .. MaxSent, Done(u)
  PROVE  /\ fate' \in [1 .. MaxSent -> Fate] /\ SameClaims
         /\ fate'[u.n].done = fate[u.n].done + 1
         /\ \A n \in 1 .. MaxSent : n # u.n => fate'[n].done = fate[n].done
         /\ \A n \in 1 .. MaxSent : fate'[n].gone = fate[n].gone
<1>1. /\ fate \in [1 .. MaxSent -> Fate]
      /\ fate' = [fate EXCEPT ![u.n] = [fate[u.n] EXCEPT !.done = fate[u.n].done + 1]]
  BY DEF HistoryTypes, Done
<1> DEFINE f == [fate[u.n] EXCEPT !.done = fate[u.n].done + 1]
<1>2. fate[u.n] \in Fate /\ fate[u.n].done + 1 \in Nat
  BY <1>1 DEF Fate
<1>3. /\ f \in Fate /\ f.done = fate[u.n].done + 1 /\ f.claimed = fate[u.n].claimed
      /\ f.skipped = fate[u.n].skipped /\ f.gone = fate[u.n].gone
  BY <1>2 DEF Fate
<1>4. fate' = [fate EXCEPT ![u.n] = f]
  BY <1>1
<1> HIDE DEF f
<1> QED
  BY <1>1, <1>3, <1>4 DEF SameClaims

\* What a step of the acting poller does to the rest of the system.
LEMMA ActsInv ==
  ASSUME QInv, IInv', NEW c \in Pollers, pc[c] \in {"acting", "replying"}, todo[c] # <<>>,
         NEW rest, NEW step,
         \/ rest = todo[c] /\ step = "replying"
         \/ rest = Tail(todo[c]) /\ step = "acting",
         pc' = [pc EXCEPT ![c] = step], todo' = [todo EXCEPT ![c] = rest],
         NEW r \in RowShape, NEW o \in Nat, o <= owner,
         mine' = [mine EXCEPT ![c] = [row |-> r, owner |-> o]],
         r.offset = row.offset, r.sequence = row.sequence, r.reminded => row.reminded,
         row' = Merged(r) \/ (row' = row /\ r = mine[c].row),
         fate' \in [1 .. MaxSent -> Fate], SameClaims,
         fate'[Head(todo[c]).n].done = 1,
         \A n \in 1 .. MaxSent :
           /\ n # Head(todo[c]).n => fate'[n].done = fate[n].done
           /\ fate'[n].gone = fate[n].gone,
         menus' \in 0 .. MaxSent + 1, acted' \in [1 .. MaxSent + 1 -> Nat],
         ~ reverted => \A m \in 1 .. MaxSent + 1 :
                         acted'[m] <= 1 /\ (acted'[m] > 0 => m \in r.consumed),
         UNCHANGED <<telegram, recent, owner, notifier, did, sent, reverted>>
  PROVE  QInv'
<1> DEFINE h == Head(todo[c])
<1>1. Types /\ IInv /\ Owners /\ HistoryTypes /\ Fates /\ c \in Consumers /\ c # Owner
  BY BoundsAreNat, ConsumersAssumption DEF QInv, TInv, Types, QueuePart
<1>2. pc[c] \in Holding /\ pc[c] \in Batch
  BY DEF Holding, Batch
<1>3. /\ h \in ToSet(todo[c]) /\ h.n \in 1 .. MaxSent
      /\ Tail(todo[c]) \in Seq(Update) /\ Ordered(Tail(todo[c]))
      /\ ToSet(Tail(todo[c])) = {u \in ToSet(todo[c]) : u # h}
      /\ \A u \in ToSet(Tail(todo[c])) : u.n # h.n
  BY <1>1, TailOfTodo, UpdateFields
<1>4. /\ todo[c] \in Seq(Update) /\ Ordered(todo[c])
      /\ \A u \in ToSet(todo[c]) : u.id <= 2 * MaxSent /\ u.n <= sent /\ u.n \in 1 .. MaxSent
  <2>1. todo[c] \in Seq(Update) /\ Ordered(todo[c])
        /\ \A u \in ToSet(todo[c]) : u.id <= 2 * MaxSent /\ u.n <= sent
    BY <1>1 DEF Types, TodoTypes
  <2>2. \A u \in ToSet(todo[c]) : u \in Update
    BY <2>1 DEF ToSet
  <2> QED
    BY <2>1, <2>2, UpdateFields
<1>5. /\ \A u \in ToSet(todo[c]) : fate[u.n].claimed
      /\ \A u \in ToSet(todo[c]) : u # h => u.n # h.n /\ fate[u.n].done = 0
  <2>1. ActingOK(c)
    BY <1>1 DEF QInv, HandsPart, BatchOK
  <2>2. \A u \in ToSet(todo[c]) : u # h => u.n # h.n
    BY <1>3
  <2> QED
    BY <2>1, <2>2 DEF ActingOK
<1> HIDE DEF h
<1>6. rest \in Seq(Update) /\ Ordered(rest) /\ ToSet(rest) \subseteq ToSet(todo[c])
      /\ \A u \in ToSet(todo[c]) : u # h => u \in ToSet(rest)
  BY <1>3, <1>4
<1>7. pc'[c] = step /\ \A d \in Consumers \ {c} : pc'[d] = pc[d]
  BY <1>1 DEF IInv, Shape
<1>8. TodoTypes' /\ todo'[c] = rest /\ \A d \in Consumers \ {c} : todo'[d] = todo[d]
  <2>1. \A u \in ToSet(rest) : u.id <= 2 * MaxSent /\ u.n <= sent
    BY <1>4, <1>6
  <2> QED
    BY <1>1, <1>6, <2>1, TodoAssigned
<1>9. /\ mine' \in [Consumers -> [row : RowShape, owner : Nat]]
      /\ mine'[c].row = r /\ mine'[c].owner = o
      /\ \A d \in Consumers \ {c} : mine'[d] = mine[d]
  <2>1. mine \in [Consumers -> [row : RowShape, owner : Nat]]
    BY <1>1 DEF Types, CopyTypes
  <2>2. [row |-> r, owner |-> o] \in [row : RowShape, owner : Nat]
    OBVIOUS
  <2> QED
    BY <1>1, <2>1, <2>2
<1>10. row \in RowShape /\ row.reminded \in BOOLEAN /\ row.sequence \in Nat /\ row.offset \in Nat
  BY <1>1, RowNumbers DEF Types, CopyTypes
<1>11. /\ row' \in RowShape /\ SameCursor /\ row'.reminded = row.reminded
       /\ ~ reverted => row'.consumed = r.consumed
  <2>1. CASE row' = Merged(r)
    <3>1. r.sequence = row.sequence => r.offset <= row.offset
      BY <1>10
    <3>2. (row.reminded \/ r.reminded) = row.reminded
      BY <1>10
    <3> QED
      BY <1>10, <2>1, <3>1, <3>2, MergedRow DEF SameCursor
  <2>2. CASE row' = row /\ r = mine[c].row
    BY <1>1, <1>2, <1>10, <2>2 DEF SameCursor, QInv, CopiesPart, Buttons
  <2> QED
    BY <2>1, <2>2
<1>12. Types'
  BY <1>1, <1>8, <1>9, <1>11
  DEF Types, TelegramTypes, CopyTypes, HistoryTypes, telegram
<1>13. Owners'
  <2>1. pc'[Owner] = pc[Owner]
    BY <1>1, <1>7, BoundsAreNat
  <2>2. \A d \in Pollers : pc'[d] \in PollerSteps
    BY <1>1, <1>7, BoundsAreNat DEF Owners, PollerSteps, Steps, Holding
  <2>3. \A d \in Consumers : mine'[d].owner <= owner
    BY <1>1, <1>9 DEF Owners
  <2> QED
    BY <1>1, <2>1, <2>2, <2>3 DEF Owners
<1>14. QueuePart'
  <2>1. ASSUME NEW n \in 1 .. MaxSent
        PROVE  /\ fate'[n].done > 0 => fate[n].claimed
               /\ fate'[n].done <= 1
               /\ fate'[n].gone = "forgotten" => fate[n].claimed
    <3>1. CASE n = h.n
      BY <1>1, <1>3, <1>5, <3>1 DEF Fates, h
    <3>2. CASE n # h.n
      BY <1>1, <3>2 DEF Fates, h
    <3> QED
      BY <3>1, <3>2
  <2> QED
    BY <1>1, <1>11, <2>1, QueueStays DEF QInv, telegram
<1>15. \A d \in Consumers \ {c} :
         BatchOK(d)' /\ todo[d] = <<>> /\ pc[d] \notin Holding /\ pc'[d] \notin Holding
  BY <1>1, <1>2, <1>7, <1>8, PeersIdle DEF QInv
<1>16. HandsPart'
  <2>1. \A u \in ToSet(rest) : fate'[u.n].claimed /\ (u # h => fate'[u.n].done = 0)
    <3>1. \A u \in ToSet(rest) : u \in ToSet(todo[c]) /\ u.n \in 1 .. MaxSent
      BY <1>4, <1>6
    <3> QED
      BY <1>5, <3>1 DEF SameClaims, h
  <2>2. ActingOK(c)'
    <3>1. CASE rest = todo[c] /\ step = "replying"
      BY <1>7, <1>8, <2>1, <3>1 DEF ActingOK, h
    <3>2. CASE rest = Tail(todo[c]) /\ step = "acting"
      BY <1>3, <1>7, <1>8, <2>1, <3>2 DEF ActingOK
    <3> QED
      BY <3>1, <3>2
  <2>3. BatchOK(c)'
    BY <1>7, <1>9, <1>11, <2>2 DEF BatchOK, SameCursor
  <2>4. ASSUME NEW n \in 1 .. MaxSent, InHands(n) PROVE InHands(n)' \/ fate'[n].done # 0
    <3>1. PICK d \in Pollers : pc[d] \in {"acting", "replying"} /\ n \in Numbers(ToSet(todo[d]))
      BY <2>4 DEF InHands
    <3>2. d = c
      BY <1>15, <3>1, BoundsAreNat DEF Holding
    <3>3. PICK u \in ToSet(todo[c]) : u.n = n
      BY <3>1, <3>2 DEF Numbers
    <3>4. CASE u = h
      BY <3>3, <3>4 DEF h
    <3>5. CASE u # h
      <4>1. n \in Numbers(ToSet(todo'[c]))
        BY <1>6, <1>8, <3>3, <3>5 DEF Numbers
      <4> QED
        BY <1>7, <4>1 DEF InHands
    <3> QED
      BY <3>4, <3>5
  <2>5. \A n \in 1 .. MaxSent : fate'[n].done = 0 => fate[n].done = 0
    BY DEF h
  <2>6. NoneDropped'
    BY <1>1, <2>4, <2>5, NoneDroppedStays DEF QInv, HandsPart
  <2> QED
    BY <1>15, <2>3, <2>6 DEF HandsPart
<1>17. CopiesPart'
  <2>1. OldCopies'
    BY <1>9, <1>10, <1>11 DEF QInv, CopiesPart, OldCopies, SameCursor
  <2>2. Reminders'
    BY <1>9, <1>11 DEF QInv, CopiesPart, Reminders
  <2>3. Buttons'
    <3>1. \A d \in Consumers \ {c} : pc'[d] \notin Batch
      BY <1>15 DEF Batch
    <3> QED
      BY <1>9, <1>11, <3>1 DEF Buttons
  <2> QED
    BY <2>1, <2>2, <2>3 DEF CopiesPart
<1> QED
  BY <1>12, <1>13, <1>14, <1>16, <1>17 DEF QInv, TInv

LEMMA ActingQueue ==
  ASSUME QInv, IInv', NEW c \in Consumers,
         \/ TakesMessage(c) \/ AcceptsTap(c) \/ RefusesTap(c) \/ Replies(c) \/ SendsNothing(c)
  PROVE  QInv'
<1> DEFINE h == Head(todo[c])
           t == Tail(todo[c])
           used == MarkUsed(mine[c].row, h.tap)
<1>1. Types /\ IInv /\ Owners /\ HistoryTypes /\ Fates
  BY DEF QInv, TInv, Types, QueuePart
<1>2. pc[c] \in {"acting", "replying"} /\ c \in Pollers
  <2>1. pc[c] \in {"acting", "replying"}
    BY DEF TakesMessage, AcceptsTap, RefusesTap, Replies, SendsNothing, Acting
  <2> QED
    BY <1>1, <2>1 DEF Owners, OwnerSteps, Consumers
<1>3. todo[c] # <<>> /\ ActingOK(c)
  <2>1. ActingOK(c)
    BY <1>2 DEF QInv, HandsPart, BatchOK
  <2> QED
    BY <2>1 DEF ActingOK, TakesMessage, AcceptsTap, RefusesTap, Replies, SendsNothing, Acting
<1>4. h \in ToSet(todo[c]) /\ h \in Update /\ h.n \in 1 .. MaxSent /\ h.tap \in 0 .. MaxSent + 1
  BY <1>1, <1>3, TailOfTodo, UpdateFields
<1>5. /\ fate \in [1 .. MaxSent -> Fate] /\ fate[h.n].done \in Nat /\ fate[h.n].done <= 1
      /\ pc[c] = "acting" => fate[h.n].done = 0
      /\ pc[c] = "replying" => fate[h.n].done = 1
  <2>1. fate \in [1 .. MaxSent -> Fate] /\ fate[h.n].done \in Nat /\ fate[h.n].done <= 1
    BY <1>1, <1>4 DEF HistoryTypes, Fate, Fates
  <2>2. pc[c] = "acting" => fate[h.n].done = 0
    BY <1>3, <1>4 DEF ActingOK
  <2>3. pc[c] = "replying" => fate[h.n].done > 0
    BY <1>3 DEF ActingOK
  <2> QED
    BY <2>1, <2>2, <2>3
<1>6. /\ mine \in [Consumers -> [row : RowShape, owner : Nat]] /\ mine[c].row \in RowShape
      /\ mine[c].owner \in Nat /\ mine[c].owner <= owner /\ owner \in Nat
      /\ mine[c].row.offset = row.offset /\ mine[c].row.sequence = row.sequence
      /\ mine[c].row.reminded => row.reminded
      /\ ~ reverted => mine[c].row.consumed = row.consumed
      /\ row \in RowShape
  <2>1. pc[c] \in Batch
    BY <1>2 DEF Batch, Holding
  <2> QED
    BY <1>1, <2>1
    DEF Types, CopyTypes, Owners, QInv, HandsPart, BatchOK, CopiesPart, Reminders, Buttons
<1>7. /\ menus \in 0 .. MaxSent + 1 /\ acted \in [1 .. MaxSent + 1 -> Nat]
      /\ ~ reverted => \A m \in 1 .. MaxSent + 1 :
                         acted[m] <= 1 /\ (acted[m] > 0 => m \in mine[c].row.consumed)
  BY <1>1, <1>6 DEF HistoryTypes, QInv, CopiesPart, Buttons
<1>8. /\ pc \in [Consumers -> Steps] /\ todo \in [Consumers -> Seq(Update)]
      /\ mine' = mine =>
           mine' = [mine EXCEPT ![c] = [row |-> mine[c].row, owner |-> mine[c].owner]]
      /\ todo' = todo => todo' = [todo EXCEPT ![c] = todo[c]]
      /\ pc' = pc => pc' = [pc EXCEPT ![c] = pc[c]]
  BY <1>1, CopyKept DEF IInv, Shape, Types, TodoTypes
<1>9. Done(h) =>
        /\ fate' \in [1 .. MaxSent -> Fate] /\ SameClaims
        /\ fate'[h.n].done = fate[h.n].done + 1
        /\ \A n \in 1 .. MaxSent :
             (n # h.n => fate'[n].done = fate[n].done) /\ fate'[n].gone = fate[n].gone
  BY <1>1, <1>4, DoneEffect
<1> HIDE DEF h, t, used
<1>10. CASE TakesMessage(c)
  <2>1. /\ pc[c] = "acting" /\ Done(h) /\ pc' = [pc EXCEPT ![c] = "replying"]
        /\ mine' = mine /\ todo' = todo /\ row' = row
        /\ UNCHANGED <<telegram, recent, owner, notifier, did, sent, menus, acted, reverted>>
    BY <1>10 DEF TakesMessage, Acting, Goto, stored, h
  <2>2. /\ fate'[h.n].done = 1
        /\ fate' \in [1 .. MaxSent -> Fate] /\ SameClaims
        /\ \A n \in 1 .. MaxSent :
             (n # h.n => fate'[n].done = fate[n].done) /\ fate'[n].gone = fate[n].gone
    BY <1>5, <1>9, <2>1
  <2>3. /\ mine' = [mine EXCEPT ![c] = [row |-> mine[c].row, owner |-> mine[c].owner]]
        /\ todo' = [todo EXCEPT ![c] = todo[c]]
    BY <1>8, <2>1
  <2> QED
    BY <1>2, <1>3, <1>6, <1>7, <2>1, <2>2, <2>3, ActsInv DEF h
<1>11. CASE RefusesTap(c)
  <2>1. /\ pc[c] = "acting" /\ Done(h) /\ pc' = pc
        /\ mine' = mine /\ todo' = [todo EXCEPT ![c] = t] /\ row' = row
        /\ UNCHANGED <<telegram, recent, owner, notifier, did, sent, menus, acted, reverted>>
    BY <1>11 DEF RefusesTap, Acting, stored, h, t
  <2>2. /\ fate'[h.n].done = 1
        /\ fate' \in [1 .. MaxSent -> Fate] /\ SameClaims
        /\ \A n \in 1 .. MaxSent :
             (n # h.n => fate'[n].done = fate[n].done) /\ fate'[n].gone = fate[n].gone
    BY <1>5, <1>9, <2>1
  <2>3. /\ mine' = [mine EXCEPT ![c] = [row |-> mine[c].row, owner |-> mine[c].owner]]
        /\ pc' = [pc EXCEPT ![c] = "acting"]
    BY <1>8, <2>1
  <2> QED
    BY <1>2, <1>3, <1>6, <1>7, <2>1, <2>2, <2>3, ActsInv DEF h, t
<1>12. CASE SendsNothing(c)
  <2>1. /\ pc[c] = "replying" /\ pc' = [pc EXCEPT ![c] = "acting"]
        /\ mine' = mine /\ todo' = [todo EXCEPT ![c] = t] /\ row' = row /\ fate' = fate
        /\ UNCHANGED <<telegram, recent, owner, notifier, did, sent, menus, acted, reverted>>
    BY <1>12 DEF SendsNothing, Goto, stored, history, t
  <2>2. fate'[h.n].done = 1 /\ SameClaims
    BY <1>5, <2>1 DEF SameClaims
  <2> QED
    BY <1>2, <1>3, <1>5, <1>6, <1>7, <1>8, <2>1, <2>2, ActsInv DEF h, t
<1>13. CASE Replies(c)
  <2>1. /\ pc[c] = "replying" /\ pc' = [pc EXCEPT ![c] = "acting"]
        /\ menus <= MaxSent /\ menus' = menus + 1
        /\ todo' = [todo EXCEPT ![c] = t] /\ fate' = fate
        /\ row' = Merged(mine'[c].row)
        /\ UNCHANGED <<telegram, recent, owner, notifier, did, sent, acted, reverted>>
    BY <1>13 DEF Replies, Goto, t
  <2>2. PICK base \in {mine[c], [row |-> row, owner |-> owner]} :
          mine' = [mine EXCEPT ![c] = [base EXCEPT !.row.active = menus']]
    BY <1>13 DEF Replies
  <2>3. /\ base \in [row : RowShape, owner : Nat] /\ base.row \in RowShape /\ base.owner \in Nat
        /\ base.owner <= owner
        /\ base.row.offset = row.offset /\ base.row.sequence = row.sequence
        /\ base.row.reminded => row.reminded
        /\ ~ reverted => base.row.consumed = row.consumed
    BY <1>6, <2>2
  <2> DEFINE r == [base.row EXCEPT !.active = menus']
  <2>4. menus' \in 0 .. MaxSent + 1
    BY <1>7, <2>1, BoundIsNat
  <2>5. /\ r \in RowShape /\ r.offset = base.row.offset /\ r.sequence = base.row.sequence
        /\ r.reminded = base.row.reminded /\ r.consumed = base.row.consumed
    BY <2>3, <2>4 DEF RowShape
  <2>6. [base EXCEPT !.row.active = menus'] = [row |-> r, owner |-> base.owner]
    BY <2>3
  <2> HIDE DEF r
  <2>7. mine' = [mine EXCEPT ![c] = [row |-> r, owner |-> base.owner]]
    BY <2>2, <2>6
  <2>8. mine'[c].row = r
    BY <1>6, <2>7
  <2>9. row' = Merged(r)
    BY <2>1, <2>8
  <2>10. fate'[h.n].done = 1 /\ SameClaims
    BY <1>5, <2>1 DEF SameClaims
  <2>11. ~ reverted => \A m \in 1 .. MaxSent + 1 :
                         acted'[m] <= 1 /\ (acted'[m] > 0 => m \in r.consumed)
    BY <1>6, <1>7, <2>1, <2>3, <2>5
  <2> QED
    BY <1>2, <1>3, <1>5, <1>7, <2>1, <2>3, <2>4, <2>5, <2>7, <2>9, <2>10, <2>11, ActsInv
    DEF h, t
<1>14. CASE AcceptsTap(c)
  <2>1. /\ pc[c] = "acting" /\ Done(h) /\ h.tap # 0 /\ h.tap \notin mine[c].row.consumed
        /\ pc' = [pc EXCEPT ![c] = "replying"] /\ todo' = todo
        /\ mine' = [mine EXCEPT ![c].row = used]
        /\ row' = Merged(mine'[c].row)
        /\ acted' = [acted EXCEPT ![h.tap] = acted[h.tap] + 1]
        /\ UNCHANGED <<telegram, recent, owner, notifier, did, sent, menus, reverted>>
    BY <1>14 DEF AcceptsTap, Acting, Goto, IsMessage, h, used
  <2>2. h.tap \in 1 .. MaxSent + 1
    BY <1>4, <2>1
  <2>3. /\ used \in RowShape /\ used.offset = mine[c].row.offset
        /\ used.sequence = mine[c].row.sequence /\ used.reminded = mine[c].row.reminded
        /\ used.consumed = mine[c].row.consumed \union {h.tap}
    BY <1>6, <2>2, MarkUsedShape DEF used
  <2>4. mine' = [mine EXCEPT ![c] = [row |-> used, owner |-> mine[c].owner]]
    BY <1>1, <2>1, RowAssigned
  <2>5. row' = Merged(used)
    <3>1. mine'[c].row = used
      BY <1>6, <2>4
    <3> QED
      BY <2>1, <3>1
  <2>6. /\ fate'[h.n].done = 1
        /\ fate' \in [1 .. MaxSent -> Fate] /\ SameClaims
        /\ \A n \in 1 .. MaxSent :
             (n # h.n => fate'[n].done = fate[n].done) /\ fate'[n].gone = fate[n].gone
    BY <1>5, <1>9, <2>1
  <2>7. acted' \in [1 .. MaxSent + 1 -> Nat]
    BY <1>7, <2>1, <2>2
  <2>8. ASSUME ~ reverted, NEW m \in 1 .. MaxSent + 1
        PROVE  acted'[m] <= 1 /\ (acted'[m] > 0 => m \in used.consumed)
    <3>1. CASE m = h.tap
      <4>1. acted[m] = 0
        BY <1>7, <2>1, <2>8, <3>1
      <4>2. acted'[m] = 1
        BY <1>7, <2>1, <3>1, <4>1
      <4> QED
        BY <2>3, <3>1, <4>2
    <3>2. CASE m # h.tap
      <4>1. acted'[m] = acted[m]
        BY <1>7, <2>1, <3>2
      <4> QED
        BY <1>7, <2>3, <2>8, <4>1
    <3> QED
      BY <3>1, <3>2
  <2>9. todo' = [todo EXCEPT ![c] = todo[c]]
    BY <1>8, <2>1
  <2>10. /\ used.offset = row.offset /\ used.sequence = row.sequence
         /\ used.reminded => row.reminded
    BY <1>6, <2>3
  <2>11. ~ reverted => \A m \in 1 .. MaxSent + 1 :
                         acted'[m] <= 1 /\ (acted'[m] > 0 => m \in used.consumed)
    BY <2>8
  <2>12. menus' \in 0 .. MaxSent + 1
    BY <1>7, <2>1
  <2> QED
    BY <1>2, <1>3, <1>6, <2>1, <2>3, <2>4, <2>5, <2>6, <2>7, <2>9, <2>10, <2>11, <2>12, ActsInv
    DEF h
<1> QED
  BY <1>10, <1>11, <1>12, <1>13, <1>14

-----------------------------------------------------------------------------
(***************************************************************************)
(* notify-expiry.                                                          *)
(***************************************************************************)

\* It touches neither the queue nor a batch, and its old copy never moves the cursor.
LEMMA NotifierInv ==
  ASSUME QInv, IInv', SameCursor, row' \in RowShape, did' \in [Deeds -> Nat],
         did'.try = did.try, did.kill > 0 => did'.kill > 0,
         notifier' \in [step : {"idle", "loaded", "sent"}, row : RowShape],
         reverted' \in BOOLEAN,
         UNCHANGED <<telegram, recent, owner, lock, pc, mine, todo, sent, fate, menus, acted>>,
         CopiesPart'
  PROVE  QInv'
<1>1. Types /\ IInv /\ Owners
  BY DEF QInv, TInv
<1>2. Types'
  BY <1>1 DEF Types, TelegramTypes, TodoTypes, CopyTypes, HistoryTypes, telegram
<1>3. Owners'
  BY <1>1 DEF Owners
<1>4. QueuePart'
  BY DEF QInv, QueuePart, Cursor, Fates, Turns, ClaimedOnes, Seen, Pending, CursorBehind,
         SameCursor, telegram
<1>5. HandsPart'
  <2>1. ASSUME NEW c \in Consumers PROVE BatchOK(c)'
    BY DEF QInv, HandsPart, BatchOK, FetchedOK, ActingOK, Seen, SameCursor, telegram
  <2>2. \A n : InHands(n)' = InHands(n)
    BY DEF InHands
  <2>3. NoneDropped'
    BY <2>2 DEF QInv, HandsPart, NoneDropped
  <2> QED
    BY <2>1, <2>3 DEF HandsPart
<1> QED
  BY <1>2, <1>3, <1>4, <1>5 DEF QInv, TInv

LEMMA NotifierQueue ==
  ASSUME QInv, IInv', Notifies
  PROVE  QInv'
<1>1. /\ HistoryTypes /\ row \in RowShape /\ did \in [Deeds -> Nat]
      /\ reverted \in BOOLEAN
      /\ notifier \in [step : {"idle", "loaded", "sent"}, row : RowShape]
      /\ \A c \in Consumers : mine[c].row \in RowShape
  BY DEF QInv, TInv, Types, CopyTypes, HistoryTypes
<1>2. /\ OldCopies /\ Reminders /\ Buttons
  BY DEF QInv, CopiesPart
<1>3. /\ row.sequence \in Nat /\ row.offset \in Nat /\ row.reminded \in BOOLEAN
      /\ notifier.row \in RowShape /\ notifier.row.reminded \in BOOLEAN
      /\ notifier.row.sequence \in Nat /\ notifier.row.offset \in Nat
      /\ NewRow \in RowShape /\ NewRow.sequence = 0 /\ NewRow.offset = 0
      /\ NewRow.reminded = FALSE
  BY <1>1, RowNumbers, NewRowShape DEF NewRow
<1>4. UNCHANGED <<telegram, recent, owner, lock, pc, mine, todo, sent, fate, menus, acted>>
  BY DEF Notifies, NotifierLoads, NotifierSends, NotifierSaves, NotifierKilled, stored, history
<1>5. did.unsaved \in Nat /\ did.reminder \in Nat /\ did.kill \in Nat
  BY <1>1 DEF Deeds
<1>6. CASE NotifierLoads
  <2>1. Counts("notice") /\ notifier' = [step |-> "loaded", row |-> row]
        /\ row' = row /\ reverted' = reverted
    BY <1>6 DEF NotifierLoads, stored
  <2>2. did' \in [Deeds -> Nat] /\ \A d \in Deeds \ {"notice"} : did'[d] = did[d]
    BY <1>1, <2>1, CountsTypes DEF Deeds
  <2>3. /\ did'.try = did.try /\ did'.kill = did.kill /\ did'.reminder = did.reminder
        /\ did'.unsaved = did.unsaved
    BY <2>2 DEF Deeds
  <2>4. OldCopies'
    <3>1. notifier'.row = row /\ row.sequence <= row.sequence /\ row.offset <= row.offset
      BY <1>3, <2>1
    <3> QED
      BY <1>2, <1>4, <2>1, <3>1 DEF OldCopies
  <2>5. Reminders'
    <3>1. notifier'.row = row /\ notifier'.step = "loaded"
      BY <2>1
    <3>2. did'.reminder <= did'.unsaved + (IF row'.reminded THEN 1 ELSE 0)
      <4>1. notifier.step = "idle"
        BY <1>6 DEF NotifierLoads
      <4> QED
        BY <1>2, <1>5, <2>1, <2>3, <4>1 DEF Reminders
    <3> QED
      BY <1>2, <1>4, <2>1, <3>1, <3>2 DEF Reminders
  <2>6. Buttons'
    BY <1>2, <1>4, <2>1 DEF Buttons
  <2>7. notifier' \in [step : {"idle", "loaded", "sent"}, row : RowShape]
    BY <1>1, <2>1
  <2> QED
    BY <1>1, <1>4, <2>1, <2>2, <2>3, <2>4, <2>5, <2>6, <2>7, NotifierInv
    DEF CopiesPart, SameCursor
<1>7. CASE NotifierSends
  <2>1. /\ notifier.step = "loaded" /\ row' = row /\ reverted' = reverted
        /\ \/ /\ ~ notifier.row.reminded /\ Counts("reminder")
              /\ notifier' = [step |-> "sent", row |-> [notifier.row EXCEPT !.reminded = TRUE]]
           \/ notifier' = [notifier EXCEPT !.step = "sent"] /\ did' = did
    BY <1>7 DEF NotifierSends, stored
  <2>2. notifier.row.reminded = row.reminded
    BY <1>2, <2>1 DEF Reminders
  <2>3. CASE /\ ~ notifier.row.reminded /\ Counts("reminder")
             /\ notifier' = [step |-> "sent", row |-> [notifier.row EXCEPT !.reminded = TRUE]]
    <3> DEFINE r == [notifier.row EXCEPT !.reminded = TRUE]
    <3>1. /\ r \in RowShape /\ r.reminded = TRUE
          /\ r.sequence = notifier.row.sequence /\ r.offset = notifier.row.offset
      BY <1>3 DEF RowShape
    <3> HIDE DEF r
    <3>2. notifier' = [step |-> "sent", row |-> r]
      BY <2>3 DEF r
    <3>3. /\ did' \in [Deeds -> Nat] /\ did'.reminder = did.reminder + 1
          /\ \A d \in Deeds \ {"reminder"} : did'[d] = did[d]
      <4>1. "reminder" \in Deeds
        BY DEF Deeds
      <4> QED
        BY <1>1, <2>3, <4>1, CountsTypes
    <3>4. did'.try = did.try /\ did'.kill = did.kill /\ did'.unsaved = did.unsaved
      BY <3>3 DEF Deeds
    <3>5. did.reminder <= did.unsaved
      BY <1>2, <1>5, <2>1, <2>2, <2>3 DEF Reminders
    <3>6. OldCopies' /\ Buttons'
      BY <1>2, <1>4, <2>1, <3>1, <3>2 DEF OldCopies, Buttons
    <3>7. Reminders'
      <4>1. notifier'.step = "sent" /\ notifier'.row.reminded
        BY <3>1, <3>2
      <4>2. did'.reminder <= did'.unsaved + 1
        BY <1>5, <3>3, <3>4, <3>5
      <4> QED
        BY <1>2, <1>4, <2>1, <4>1, <4>2 DEF Reminders
    <3>8. notifier' \in [step : {"idle", "loaded", "sent"}, row : RowShape]
      BY <3>1, <3>2
    <3> QED
      BY <1>1, <1>4, <2>1, <3>3, <3>4, <3>6, <3>7, <3>8, NotifierInv DEF CopiesPart, SameCursor
  <2>4. CASE notifier' = [notifier EXCEPT !.step = "sent"] /\ did' = did
    <3>1. /\ notifier'.step = "sent" /\ notifier'.row = notifier.row
          /\ notifier' \in [step : {"idle", "loaded", "sent"}, row : RowShape]
      BY <1>1, <2>4
    <3>2. OldCopies' /\ Buttons'
      BY <1>2, <1>4, <2>1, <3>1 DEF OldCopies, Buttons
    <3>3. Reminders'
      BY <1>2, <1>3, <1>4, <1>5, <2>1, <2>2, <2>4, <3>1 DEF Reminders
    <3> QED
      BY <1>1, <1>4, <2>1, <2>4, <3>1, <3>2, <3>3, NotifierInv DEF CopiesPart, SameCursor
  <2> QED
    BY <2>1, <2>3, <2>4
<1>8. CASE NotifierSaves
  <2>1. /\ notifier.step = "sent" /\ row' = Merged(notifier.row) /\ did' = did
        /\ reverted' = (reverted \/ row'.active # row.active \/ row'.consumed # row.consumed)
        /\ notifier' = [step |-> "idle", row |-> NewRow]
    BY <1>8 DEF NotifierSaves
  <2>2. /\ row' \in RowShape /\ SameCursor
        /\ row'.reminded = (row.reminded \/ notifier.row.reminded)
    <3>1. notifier.row.sequence = row.sequence => notifier.row.offset <= row.offset
      BY <1>2 DEF OldCopies
    <3> QED
      BY <1>1, <1>3, <2>1, <3>1, MergedRow DEF SameCursor
  <2>3. OldCopies'
    BY <1>2, <1>3, <1>4, <2>1, <2>2 DEF OldCopies, SameCursor
  <2>4. Reminders'
    <3>1. \A c \in Consumers : mine'[c].row.reminded => row'.reminded
      BY <1>2, <1>4, <2>2 DEF Reminders
    <3>2. did'.reminder <= did'.unsaved + (IF row'.reminded THEN 1 ELSE 0)
      BY <1>2, <1>3, <1>5, <2>1, <2>2 DEF Reminders
    <3> QED
      BY <2>1, <2>2, <3>1, <3>2 DEF Reminders
  <2>5. Buttons'
    BY <1>2, <1>4, <2>1 DEF Buttons
  <2>6. notifier' \in [step : {"idle", "loaded", "sent"}, row : RowShape] /\ reverted' \in BOOLEAN
    BY <1>1, <1>3, <2>1
  <2> QED
    BY <1>1, <1>4, <2>1, <2>2, <2>3, <2>4, <2>5, <2>6, NotifierInv DEF CopiesPart
<1>9. CASE NotifierKilled
  <2>1. /\ did' = [did EXCEPT !.kill = @ + 1, !.unsaved = @ + 1] /\ row' = row
        /\ notifier' = [step |-> "idle", row |-> NewRow] /\ reverted' = reverted
    BY <1>9 DEF NotifierKilled, stored
  <2>2. /\ did' \in [Deeds -> Nat] /\ did'.try = did.try /\ did'.kill = did.kill + 1
        /\ did'.reminder = did.reminder /\ did'.unsaved = did.unsaved + 1
    <3>1. {"kill", "unsaved", "try", "reminder"} \subseteq Deeds
      BY DEF Deeds
    <3>2. did' = [[did EXCEPT !.kill = did.kill + 1] EXCEPT !.unsaved = did.unsaved + 1]
      BY <1>1, <2>1, <3>1
    <3>3. did.kill + 1 \in Nat /\ did.unsaved + 1 \in Nat
      BY <1>5
    <3> QED
      BY <1>1, <3>1, <3>2, <3>3
  <2>3. OldCopies' /\ Buttons'
    BY <1>2, <1>3, <1>4, <2>1 DEF OldCopies, Buttons
  <2>4. Reminders'
    <3>1. did.reminder <= did.unsaved + 1
      BY <1>2, <1>5 DEF Reminders
    <3>2. did'.reminder <= did'.unsaved + (IF row.reminded THEN 1 ELSE 0)
      BY <1>5, <2>2, <3>1
    <3> QED
      BY <1>2, <1>4, <2>1, <3>2 DEF Reminders
  <2>5. notifier' \in [step : {"idle", "loaded", "sent"}, row : RowShape]
        /\ (did.kill > 0 => did'.kill > 0)
    BY <1>3, <1>5, <2>1, <2>2
  <2> QED
    BY <1>1, <1>4, <2>1, <2>2, <2>3, <2>4, <2>5, NotifierInv DEF CopiesPart, SameCursor
<1> QED
  BY <1>6, <1>7, <1>8, <1>9 DEF Notifies

-----------------------------------------------------------------------------
LEMMA InitQInv == Init => QInv
<1> SUFFICES ASSUME Init PROVE QInv
  OBVIOUS
<1>1. Types /\ Owners /\ IInv
  BY InitTypes, InitOwners, InitIInv
<1>2. PICK past \in {"new", "running", "old"} :
        /\ owner = IF past = "new" THEN 0 ELSE 1
        /\ menus = IF past = "running" THEN 1 ELSE 0
        /\ sent \in IF past = "old" THEN {0, 1} ELSE {0}
        /\ next = IF past = "old" THEN 1 + sent ELSE MaxSent + 1
        /\ queue = [i \in 1 .. sent |-> [id |-> 1, n |-> 1, tap |-> 0]]
        /\ row = CASE past = "new" -> NewRow
                   [] past = "running" -> [NewRow EXCEPT !.offset = MaxSent + 1,
                                                         !.confirmed = "yes", !.active = 1]
                   [] past = "old" -> [NewRow EXCEPT !.offset = MaxSent + 2]
  BY DEF Init
<1>3. sent \in {0, 1} /\ MaxSent \in Nat /\ (past # "old" => sent = 0)
  BY <1>2, BoundIsNat
<1>4. /\ row.sequence = 0 /\ row.signatures = {}
      /\ row.confirmed = (IF past = "running" THEN "yes" ELSE "absent")
      /\ row.offset = IF past = "new" THEN 0
                      ELSE IF past = "running" THEN MaxSent + 1 ELSE MaxSent + 2
  <2>1. CASE past = "new"
    BY <1>2, <2>1 DEF NewRow
  <2>2. CASE past = "running"
    <3>1. row = [NewRow EXCEPT !.offset = MaxSent + 1, !.confirmed = "yes", !.active = 1]
      BY <1>2, <2>2
    <3> QED
      BY <2>2, <3>1 DEF NewRow
  <2>3. CASE past = "old"
    <3>1. row = [NewRow EXCEPT !.offset = MaxSent + 2]
      BY <1>2, <2>3
    <3> QED
      BY <2>3, <3>1 DEF NewRow
  <2> QED
    BY <2>1, <2>2, <2>3
<1>5. \A u \in ToSet(queue) : u.id = 1 /\ u.n = 1 /\ past = "old" /\ sent = 1
  <2>1. DOMAIN queue = 1 .. sent /\ \A i \in 1 .. sent : queue[i] = [id |-> 1, n |-> 1, tap |-> 0]
    BY <1>2
  <2> QED
    BY <1>3, <2>1 DEF ToSet
<1>6. ASSUME NEW n \in 1 .. MaxSent
      PROVE  /\ fate[n].claimed <=> n <= sent
             /\ fate[n].gone = "no"
             /\ fate[n].done = IF n <= sent THEN 1 ELSE 0
  <2> DEFINE held == n <= sent
             deeds == IF n <= sent THEN 1 ELSE 0
  <2>1. fate[n] = [claimed |-> held, skipped |-> FALSE, done |-> deeds, gone |-> "no"]
    BY DEF Init
  <2> HIDE DEF held, deeds
  <2>2. fate[n].claimed = held
    BY <2>1
  <2>3. fate[n].gone = "no" /\ fate[n].done = deeds
    BY <2>1
  <2> QED
    BY <2>2, <2>3, Zenon DEF held, deeds
<1>7. Cursor
  <2>1. \A u \in Seen : u.id = 1 /\ past = "old" /\ sent = 1
    BY <1>5 DEF Seen
  <2>2. row.confirmed = "absent" /\ row.offset # 0 => row.offset = MaxSent + 2 /\ next <= 1 + sent
    <3>1. CASE past = "old"
      BY <1>2, <1>3, <1>4, <3>1
    <3>2. CASE past # "old"
      BY <1>4, <3>2
    <3> QED
      BY <3>1, <3>2
  <2>3. past = "old" => row.confirmed = "absent" /\ row.offset = MaxSent + 2
    BY <1>4
  <2>4. \A u \in Seen : u.id < row.offset
    BY <1>3, <2>1, <2>3
  <2>5. row.confirmed # "no" /\ (Seen # {} => row.confirmed = "absent")
    BY <1>4, <2>1, <2>3
  <2> QED
    BY <1>4, <2>1, <2>2, <2>4, <2>5 DEF Cursor
<1>8. Fates
  <2> SUFFICES ASSUME NEW n \in 1 .. MaxSent
               PROVE  /\ n > sent => ~ fate[n].claimed
                      /\ fate[n].done > 0 \/ fate[n].gone = "forgotten" => fate[n].claimed
                      /\ fate[n].done <= 1
    BY DEF Fates
  <2>1. n \in Int /\ sent \in Int
    BY <1>3
  <2>2. CASE n <= sent
    <3>1. fate[n].claimed /\ fate[n].done = 1 /\ ~ (n > sent)
      BY <1>6, <2>1, <2>2
    <3> QED
      BY <3>1
  <2>3. CASE ~ (n <= sent)
    <3>1. ~ fate[n].claimed /\ fate[n].done = 0 /\ fate[n].gone = "no"
      BY <1>6, <2>3
    <3> QED
      BY <3>1
  <2> QED
    BY <2>2, <2>3
<1>9. Turns
  <2>1. ClaimedOnes \subseteq 1 .. MaxSent /\ IsFiniteSet(1 .. MaxSent)
    BY <1>3, FS_Interval DEF ClaimedOnes
  <2>2. Cardinality(ClaimedOnes) \in Nat
    BY <2>1, FS_Subset, FS_CardinalityType
  <2> QED
    BY <1>4, <2>2 DEF Turns
<1>10. HandsPart
  <2>1. \A c \in Consumers : BatchOK(c)
    BY DEF Init, BatchOK, Batch, Holding
  <2>2. NoneDropped
    <3>1. \A n \in 1 .. sent : n \in 1 .. MaxSent /\ n <= sent
      BY <1>3, BoundIsNat
    <3> QED
      BY <1>6, <3>1 DEF NoneDropped
  <2> QED
    BY <2>1, <2>2 DEF HandsPart
<1>11. CopiesPart
  <2>1. NewRow.sequence = 0 /\ NewRow.reminded = FALSE /\ NewRow.offset = 0
    BY DEF NewRow
  <2>2. OldCopies
    BY <1>3, <1>4, <2>1 DEF Init, OldCopies, NoCopy
  <2>3. Reminders
    BY <2>1 DEF Init, Reminders, NoCopy
  <2>4. Buttons
    BY DEF Init, Buttons, Batch, Holding
  <2> QED
    BY <2>2, <2>3, <2>4 DEF CopiesPart
<1> QED
  BY <1>1, <1>7, <1>8, <1>9, <1>10, <1>11 DEF QInv, TInv, QueuePart

LEMMA NextQInv == QInv /\ [Next]_vars => QInv'
<1> SUFFICES ASSUME QInv, [Next]_vars PROVE QInv'
  OBVIOUS
<1>1. IInv' /\ IInv /\ Types /\ Owners
  BY NextIInv DEF QInv, TInv
<1>2. ASSUME NEW c \in Pollers, Polls(c) PROVE QInv'
  BY <1>1, <1>2, EnteringQueue DEF Polls
<1>3. ASSUME NEW c \in Consumers, Works(c) PROVE QInv'
  <2>1. Claims(c) => c \in Pollers
    BY DEF Claims
  <2> QED
    BY <1>1, <1>3, <2>1, FetchesQueue, FetchesFromHeadQueue, LeavingQueue, ClaimsQueue, ActingQueue
    DEF Works
<1>4. ASSUME NEW c \in Consumers, Killed(c) PROVE QInv'
  BY <1>1, <1>4, LeavingQueue
<1>5. CASE OwnerSearches
  BY <1>1, <1>5, OwnerSearchesQueue
<1>6. CASE OwnerWorks
  <2>1. Service \in Pollers
    BY ConsumersAssumption
  <2> QED
    BY <1>1, <1>6, <2>1, EnteringQueue, OwnerBindsQueue DEF OwnerWorks
<1>7. CASE UserSends \/ Ages \/ Renumbers
  <2>1. Types'
    BY <1>1, <1>7, UserSendsEffect, AgesEffect, RenumbersEffect
  <2>2. Owners'
    <3>1. did'.try = did.try /\ UNCHANGED <<pc, owner, mine>>
      <4>1. CASE UserSends
        BY <4>1 DEF UserSends, stored
      <4>2. CASE Ages
        BY <1>1, <4>2, AgesEffect DEF Deeds, stored
      <4>3. CASE Renumbers
        BY <4>3 DEF Renumbers, stored, history
      <4> QED
        BY <1>7, <4>1, <4>2, <4>3
    <3> QED
      BY <1>1, <3>1 DEF Owners
  <2> QED
    BY <1>1, <1>7, <2>1, <2>2, UserSendsQueue, AgesQueue, RenumbersQueue DEF QInv, TInv
<1>8. CASE Notifies
  BY <1>1, <1>8, NotifierQueue
<1>9. CASE UNCHANGED vars
  <2>1. UNCHANGED <<telegram, recent, row, owner, lock, pc, mine, todo, notifier, did, sent, fate,
                    menus, acted, reverted>>
    BY <1>9 DEF vars, stored, history
  <2>2. SameCursor
    BY <2>1 DEF SameCursor
  <2>3. CopiesPart'
    BY <2>1 DEF QInv, CopiesPart, OldCopies, Reminders, Buttons
  <2> QED
    BY <1>1, <2>1, <2>2, <2>3, NotifierInv DEF Types, CopyTypes, HistoryTypes
<1> QED
  BY <1>2, <1>3, <1>4, <1>5, <1>6, <1>7, <1>8, <1>9 DEF Next

\* The rows keep their bounds: a restart of the numbering takes an update.
LEMMA TypesHold == QInv => TypeOK
<1> SUFFICES ASSUME QInv PROVE TypeOK
  OBVIOUS
<1>1. Types /\ Owners /\ IInv /\ OldCopies /\ Turns /\ TelegramTypes /\ HistoryTypes
  BY DEF QInv, TInv, Types, QueuePart, CopiesPart
<1>2. Cardinality(ClaimedOnes) <= MaxSent
  <2>1. ClaimedOnes \subseteq 1 .. MaxSent /\ IsFiniteSet(1 .. MaxSent)
        /\ Cardinality(1 .. MaxSent) = MaxSent
    BY BoundIsNat, FS_Interval DEF ClaimedOnes
  <2> QED
    BY <2>1, FS_Subset
<1>3. /\ row \in RowShape /\ notifier.row \in RowShape /\ owner \in Nat
      /\ \A c \in Consumers : mine[c].row \in RowShape /\ mine[c].owner \in Nat
  BY <1>1 DEF Types, CopyTypes
<1>4. ASSUME NEW r \in RowShape, r.sequence <= row.sequence PROVE r \in Row
  <2>1. r.sequence \in 0 .. MaxSent
    <3>1. Cardinality(ClaimedOnes) \in Nat
      <4>1. ClaimedOnes \subseteq 1 .. MaxSent /\ IsFiniteSet(1 .. MaxSent)
        BY BoundIsNat, FS_Interval DEF ClaimedOnes
      <4> QED
        BY <4>1, FS_Subset, FS_CardinalityType
    <3> QED
      BY <1>1, <1>2, <1>3, <1>4, <3>1, RowNumbers, BoundIsNat DEF Turns
  <2> QED
    BY <2>1 DEF RowShape, Row
<1>5. row \in Row /\ notifier.row \in Row /\ \A c \in Consumers : mine[c].row \in Row
  <2>1. row.sequence <= row.sequence
    BY <1>3, RowNumbers
  <2> QED
    BY <1>1, <1>3, <1>4, <2>1 DEF OldCopies
<1>6. owner \in 0 .. 1 + MaxTries /\ \A c \in Consumers : mine[c].owner \in 0 .. 1 + MaxTries
  <2>1. did.try \in Nat /\ did.try <= MaxTries /\ owner <= 1 + did.try
    BY <1>1, <1>3 DEF HistoryTypes, Deeds, Owners
  <2> QED
    BY <1>1, <1>3, <2>1, BoundsAreNat DEF Owners
<1>7. next \in 1 .. 2 * MaxSent + 1 /\ asked \in 0 .. 2 * MaxSent + 2 /\ recent \in BOOLEAN
  BY <1>1, BoundIsNat DEF TelegramTypes, HistoryTypes
<1>8. /\ ToSet(queue) \subseteq Update
      /\ \A c \in Consumers : pc[c] \in Steps /\ ToSet(todo[c]) \subseteq Update
  BY <1>1 DEF TelegramTypes, Types, TodoTypes, ToSet, IInv, Shape
<1>9. OneHolder /\ notifier.step \in {"idle", "loaded", "sent"}
  BY <1>1 DEF IInv, Shape, Types, CopyTypes
<1> QED
  BY <1>5, <1>6, <1>7, <1>8, <1>9 DEF TypeOK

\* Every variable keeps its type; the cursor and the count of restarts of the numbering stay
\* within what the updates sent allow (settings.py, poller.py).
THEOREM PollerTypes == Spec => []TypeOK
  BY InitQInv, NextQInv, TypesHold, PTL DEF Spec

\* No update is acted on twice, whatever polls, restarts, repeated answers and renumberings
\* come between (claim_user_updates before the handlers of poller.py).
THEOREM UpdatesHandledOnce == Spec => []HandledOnce
  <1>1. QInv => HandledOnce
    BY BoundIsNat DEF QInv, TInv, Types, HistoryTypes, QueuePart, Fates, HandledOnce
  <1> QED
    BY <1>1, InitQInv, NextQInv, PTL DEF Spec

\* Telegram is made to forget nothing that is not claimed, and nothing claimed is dropped
\* unless a process was killed (_claim_user_updates and the batch of poll_user_subscriptions).
THEOREM NoUpdateLost == Spec => []NothingLost
  <1>1. QInv => NothingLost
    <2> SUFFICES ASSUME QInv, NEW n \in 1 .. sent
                 PROVE  /\ fate[n].gone = "forgotten" => fate[n].claimed
                        /\ fate[n].claimed /\ fate[n].done = 0 /\ ~fate[n].skipped =>
                             \/ did.kill > 0
                             \/ \E c \in Pollers : n \in Numbers(ToSet(todo[c]))
      BY DEF NothingLost
    <2>1. n \in 1 .. MaxSent
      BY BoundIsNat DEF QInv, TInv, Types, HistoryTypes
    <2> QED
      BY <2>1 DEF QInv, QueuePart, Fates, HandsPart, NoneDropped, InHands
  <1> QED
    BY <1>1, InitQInv, NextQInv, PTL DEF Spec

\* A reminder is sent once, and a menu works once as long as notify-expiry has not put an old
\* guard back (merge_client_subscription_state and accept_client_callback).
THEOREM NoticesSentOnce == Spec => []NoticesOnce
  <1>1. QInv => NoticesOnce
    <2> SUFFICES ASSUME QInv PROVE NoticesOnce
      OBVIOUS
    <2>1. did.reminder \in Nat /\ did.unsaved \in Nat /\ menus \in 0 .. MaxSent + 1
      BY DEF QInv, TInv, Types, HistoryTypes, Deeds
    <2>2. did.reminder <= 1 + did.unsaved
      BY <2>1 DEF QInv, CopiesPart, Reminders
    <2>3. \A m \in 1 .. menus : m \in 1 .. MaxSent + 1
      BY <2>1, BoundIsNat
    <2> QED
      BY <2>2, <2>3 DEF QInv, CopiesPart, Buttons, NoticesOnce
  <1> QED
    BY <1>1, InitQInv, NextQInv, PTL DEF Spec
=============================================================================
