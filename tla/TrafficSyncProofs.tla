------------------------- MODULE TrafficSyncProofs -------------------------
(***************************************************************************)
(* Theorems about TrafficSync for any number of clients, connections,      *)
(* syncs, bytes, restarts and mishaps: type correctness, that totals and   *)
(* history add up, and that no byte is counted twice.                      *)
(***************************************************************************)
EXTENDS TrafficSync, ClientOpsProofs, FiniteSums

-----------------------------------------------------------------------------
(***************************************************************************)
(* The inductive invariant.  That rows add up is not inductive: what a     *)
(* sync is going to write was computed from rows that a command may have   *)
(* deleted since.  traffic.lock lets nobody else change them: each row is  *)
(* still the one that was read, or it is gone.                             *)
(***************************************************************************)
Working == {"config", "rows", "query", "load", "save"}

\* flock: only the holder is past "waiting".
Exclusive == \A s \in Syncs : pc[s] \in Working => lock = s

Kinds == {"apply", "db", "route"}
CommandOK ==
  \/ command = NoCommand
  \/ command \in [step : {"written", "stopping", "stopped", "save"}, undo : BOOLEAN,
                  kind : Kinds, db : Stores, oldCfg : Configs]

\* A row whose history adds up; one that was ever written has a last value.
GoodRow(row) == row \in Rows /\ row.hist = row.total /\ (row = NoRow \/ row.last \in Nat)

CredSum(rows) == SumFunctionOnSet([x \in Conns |-> rows[x].total], Conns)

RowsOK ==
  /\ agg \in [Clients -> Rows]
  /\ cred \in [Clients -> [Conns -> Rows]]
  /\ readIn \in [Clients -> [Conns -> Nat]]
  /\ \A c \in Clients : /\ GoodRow(agg[c])
                        /\ \A x \in Conns : GoodRow(cred[c][x])
                        /\ CredSum(cred[c]) <= agg[c].total

\* Only a client or credential with a row in manager.db has a traffic row.
RowsBelong ==
  \A c \in Clients : /\ agg[c] # NoRow => db.known[c] # {}
                     /\ \A x \in Conns : cred[c][x] # NoRow => x \in db.known[c]

\* new is to be written over old, which it has grown from, unless old is gone.
GrownFrom(old, new, change) ==
  /\ GoodRow(new)
  /\ change \in Nat
  /\ old = NoRow \/ (new # NoRow /\ new.hist = old.hist + change)

\* What a sync is going to write.
OutcomeOK(o) ==
  /\ o.agg \in [Clients -> Rows]
  /\ o.cred \in [Clients -> [Conns -> Rows]]
  /\ o.read \in [Clients -> [Conns -> Nat]]
  /\ \A c \in Clients :
       /\ GrownFrom(agg[c], o.agg[c], o.dAgg[c])
       /\ \A x \in Conns : GrownFrom(cred[c][x], o.cred[c][x], o.dCred[c][x])
       /\ CredSum(o.cred[c]) <= o.agg[c].total

Served == [Clients -> SUBSET Conns]
Counters == [Clients -> [Conns -> 0..MaxBytes]]

SeenOK(s) ==
  /\ pc[s] \in {"rows", "query", "load"} => seen[s].served \in Served
  /\ pc[s] \in {"query", "load"} => seen[s].known \in Served
  /\ pc[s] = "load" => seen[s].stats \in Counters /\ seen[s].run \in Nat
  /\ pc[s] = "save" => OutcomeOK(seen[s])

UnitOK == xray \in [state : UnitStates, served : Served, counter : Counters, run : Nat]

Types ==
  /\ lock \in Syncs \union {NoSync}
  /\ pc \in [Syncs -> SyncSteps]
  /\ DOMAIN seen = Syncs
  /\ CommandOK
  /\ config \in Configs
  /\ db \in Stores
  /\ UnitOK
  /\ carried \in [Clients -> Nat]
  /\ reborn \subseteq Clients
  /\ moved \subseteq Clients
  /\ undone \subseteq Clients

IInv ==
  /\ Types
  /\ RowsOK
  /\ RowsBelong
  /\ Exclusive
  /\ \A s \in Syncs : SeenOK(s)

LEMMA InvSuffices == IInv => TypeOK /\ TotalsAddUp
<1> SUFFICES ASSUME IInv PROVE TypeOK /\ TotalsAddUp
  OBVIOUS
<1>1. TypeOK
  <2>1. command.step \in {"idle", "written", "stopping", "stopped", "save"}
    BY DEF IInv, Types, CommandOK, NoCommand
  <2> QED
    BY <2>1 DEF IInv, Types, UnitOK, RowsOK, TypeOK, Served, Counters
<1>2. TotalsAddUp
  BY DEF IInv, RowsOK, GoodRow, CredSum, TotalsAddUp
<1> QED
  BY <1>1, <1>2

-----------------------------------------------------------------------------
(***************************************************************************)
(* The arithmetic of one sync.                                             *)
(***************************************************************************)
LEMMA DeltaBounds ==
  ASSUME NEW now \in Nat, NEW last \in Nat \union {Never}
  PROVE  Delta(now, last) \in Nat /\ Delta(now, last) <= now
<1>1. CASE last = Never
  BY <1>1 DEF Delta
<1>2. CASE last # Never /\ now >= last
  <2>1. Delta(now, last) = now - last
    BY <1>2 DEF Delta
  <2> QED
    BY <1>2, <2>1 DEF Never
<1>3. CASE last # Never /\ now < last
  <2>1. Delta(now, last) = now
    BY <1>3 DEF Delta, Never
  <2> QED
    BY <2>1
<1> QED
  BY <1>1, <1>2, <1>3 DEF Never

LEMMA GoodNoRow == GoodRow(NoRow) /\ NoRow.total = 0
  BY DEF GoodRow, NoRow, Rows

LEMMA GrownGood ==
  ASSUME NEW row, GoodRow(row), NEW bytes \in Nat, NEW last \in Nat
  PROVE  LET new == Grown(row, bytes, last)
         IN  /\ GoodRow(new) /\ new # NoRow
             /\ new.total = row.total + bytes /\ new.hist = row.hist + bytes
  BY DEF Grown, GoodRow, Rows, NoRow, Never

\* The entry a sync starts from.
Base(s, c, x) == IF x \in Known(s, c) THEN Opening(s, c, x) ELSE cred[c][x]

\* What one credential comes to.
LEMMA CredOutcome ==
  ASSUME RowsOK, NEW s \in Syncs, pc[s] = "load", SeenOK(s), NEW c \in Clients, NEW x \in Conns
  PROVE  /\ Gain(s, c, x) \in Nat
         /\ GoodRow(Base(s, c, x))
         /\ GrownFrom(cred[c][x], NewCred(s, c, x), Gain(s, c, x))
         /\ NewCred(s, c, x).total = Base(s, c, x).total + Gain(s, c, x)
<1> DEFINE o == Opening(s, c, x)
           n == seen[s].stats[c][x]
<1>1. GoodRow(agg[c]) /\ GoodRow(cred[c][x])
  BY DEF RowsOK
<1>2. (o = agg[c] /\ cred[c][x] = NoRow) \/ o = cred[c][x]
  BY DEF Opening
<1>3. n \in Nat
  <2>1. seen[s].stats \in Counters /\ MaxBytes \in Nat
    BY SyncsAssumption DEF SeenOK
  <2> QED
    BY <2>1 DEF Counters
<1>4. GoodRow(o) /\ o.last \in Nat \union {Never}
  BY <1>1, <1>2 DEF GoodRow, Rows
<1> HIDE DEF o, n
<1>5. CASE x \in Known(s, c)
  <2>1. Gain(s, c, x) = Delta(n, o.last)
    BY <1>5 DEF Gain, o, n
  <2>2. Gain(s, c, x) \in Nat
    BY <1>3, <1>4, <2>1, DeltaBounds
  <2>3. NewCred(s, c, x) = Grown(o, Gain(s, c, x), n)
    BY <1>5 DEF NewCred, o, n
  <2>4. Base(s, c, x) = o
    BY <1>5 DEF Base, o
  <2>5. GoodRow(NewCred(s, c, x)) /\ NewCred(s, c, x) # NoRow
        /\ NewCred(s, c, x).total = o.total + Gain(s, c, x)
        /\ NewCred(s, c, x).hist = o.hist + Gain(s, c, x)
    BY <1>3, <1>4, <2>2, <2>3, GrownGood
  <2> QED
    BY <1>2, <1>4, <2>2, <2>4, <2>5 DEF GrownFrom
<1>6. CASE x \notin Known(s, c)
  <2>1. Gain(s, c, x) = 0 /\ NewCred(s, c, x) = cred[c][x] /\ Base(s, c, x) = cred[c][x]
    BY <1>6 DEF Gain, NewCred, Base
  <2> QED
    BY <1>1, <2>1 DEF GrownFrom, GoodRow, Rows
<1> QED
  BY <1>5, <1>6

\* The entries of a client come to no more than the client.
LEMMA BaseSum ==
  ASSUME RowsOK, NEW s \in Syncs, pc[s] = "load", SeenOK(s), NEW c \in Clients
  PROVE  SumFunctionOnSet([x \in Conns |-> Base(s, c, x).total], Conns) <= agg[c].total
<1> DEFINE base == [x \in Conns |-> Base(s, c, x).total]
<1>0. IsFiniteSet(Conns)
  BY ConnsAssumption
<1>1. GoodRow(agg[c]) /\ \A x \in Conns : GoodRow(cred[c][x]) /\ GoodRow(Base(s, c, x))
  BY CredOutcome DEF RowsOK
<1>2. CASE \A y \in Conns : cred[c][y] = NoRow
  <2> DEFINE e == Lead(s, c)
  <2>1. \A x \in Conns : x # e => Base(s, c, x) = NoRow
    BY <1>2 DEF Base, Opening
  <2>2. Base(s, c, e) = agg[c] \/ Base(s, c, e) = cred[c][e]
    BY DEF Base, Opening
  <2>3. \A x \in Conns : base[x] \in Int /\ (x # e => base[x] = 0)
    <3>1. \A x \in Conns : base[x] = Base(s, c, x).total
      OBVIOUS
    <3> HIDE DEF base, e
    <3> QED
      BY <1>1, <2>1, <3>1, GoodNoRow DEF GoodRow, Rows
  <2>4. CASE e \in Conns
    <3>1. SumFunctionOnSet(base, Conns) = base[e] + SumFunctionOnSet(base, Conns \ {e})
      <4> HIDE DEF base, e
      <4> QED
        BY <1>0, <2>3, <2>4, SumRemove
    <3>2. SumFunctionOnSet(base, Conns \ {e}) = 0
      <4>1. IsFiniteSet(Conns \ {e}) /\ \A x \in Conns \ {e} : base[x] = 0
        <5> HIDE DEF base, e
        <5> QED
          BY <1>0, <2>3, FS_Subset
      <4> HIDE DEF base, e
      <4> QED
        BY <4>1, SumZero
    <3>3. base[e] <= agg[c].total /\ base[e] \in Int
      <4>1. base[e] = Base(s, c, e).total
        BY <2>4
      <4> HIDE DEF base, e
      <4> QED
        BY <1>1, <1>2, <2>2, <2>3, <2>4, <4>1, GoodNoRow DEF GoodRow, Rows
    <3>4. SumFunctionOnSet(base, Conns) <= agg[c].total
      <4> HIDE DEF base, e
      <4> QED
        BY <3>1, <3>2, <3>3
    <3> QED
      BY <3>4
  <2>5. CASE e \notin Conns
    <3>1. SumFunctionOnSet(base, Conns) = 0
      <4> HIDE DEF base, e
      <4> QED
        BY <1>0, <2>3, <2>5, SumZero
    <3> QED
      BY <1>1, <3>1 DEF GoodRow, Rows
  <2> QED
    BY <2>4, <2>5
<1>3. CASE ~ \A y \in Conns : cred[c][y] = NoRow
  <2>1. \A x \in Conns : Base(s, c, x) = cred[c][x]
    BY <1>3 DEF Base, Opening
  <2>2. base = [x \in Conns |-> cred[c][x].total]
    BY <2>1
  <2> QED
    BY <2>2 DEF RowsOK, CredSum
<1> QED
  BY <1>2, <1>3

\* What a client comes to: its own row and those of its credentials.
LEMMA AggOutcome ==
  ASSUME RowsOK, NEW s \in Syncs, pc[s] = "load", SeenOK(s), NEW c \in Clients
  PROVE  /\ GrownFrom(agg[c], NewAgg(s, c), NewAgg(s, c).hist - agg[c].hist)
         /\ CredSum([x \in Conns |-> NewCred(s, c, x)]) <= NewAgg(s, c).total
<1> DEFINE gain == [x \in Conns |-> Gain(s, c, x)]
           base == [x \in Conns |-> Base(s, c, x).total]
           new  == [x \in Conns |-> NewCred(s, c, x).total]
           last == [x \in Conns |-> NewCred(s, c, x).last]
           rows == {x \in Conns : NewCred(s, c, x) # NoRow}
           G    == SumFunctionOnSet(gain, Conns)
           L    == SumFunctionOnSet(last, rows)
<1>0. IsFiniteSet(Conns) /\ IsFiniteSet(rows)
  BY ConnsAssumption, FS_Subset
<1>1. \A x \in Conns : /\ Gain(s, c, x) \in Nat
                       /\ GoodRow(Base(s, c, x))
                       /\ GoodRow(NewCred(s, c, x))
                       /\ NewCred(s, c, x).total = Base(s, c, x).total + Gain(s, c, x)
  BY CredOutcome DEF GrownFrom
<1>2. /\ GoodRow(agg[c]) /\ \A x \in Conns : GoodRow(cred[c][x])
      /\ CredSum(cred[c]) <= agg[c].total
  BY DEF RowsOK
<1>3. CASE Known(s, c) = {}
  <2>1. NewAgg(s, c) = agg[c] /\ \A x \in Conns : NewCred(s, c, x) = cred[c][x]
    BY <1>3 DEF NewAgg, NewCred
  <2>2. GrownFrom(agg[c], NewAgg(s, c), NewAgg(s, c).hist - agg[c].hist)
    BY <1>2, <2>1 DEF GrownFrom, GoodRow, Rows
  <2>3. CredSum([x \in Conns |-> NewCred(s, c, x)]) = CredSum(cred[c])
    BY <2>1 DEF CredSum
  <2> QED
    BY <1>2, <2>1, <2>2, <2>3
<1>4. CASE Known(s, c) # {}
  <2>1. NewAgg(s, c) = Grown(agg[c], G, L)
    BY <1>4 DEF NewAgg
  <2>2. \A x \in Conns : gain[x] \in Nat /\ base[x] \in Nat /\ new[x] = base[x] + gain[x]
    BY <1>1 DEF GoodRow, Rows
  <2>3. \A x \in rows : last[x] \in Nat
    BY <1>1 DEF GoodRow
  <2>4. G \in Nat
    <3> HIDE DEF gain
    <3> QED
      BY <1>0, <2>2, SumNat
  <2>5. L \in Nat
    <3> HIDE DEF last, rows
    <3> QED
      BY <1>0, <2>3, SumNat
  <2>6. SumFunctionOnSet(new, Conns) = SumFunctionOnSet(base, Conns) + G
    <3> HIDE DEF gain, base, new
    <3>1. \A x \in Conns : base[x] \in Int /\ gain[x] \in Int /\ new[x] = base[x] + gain[x]
      BY <2>2
    <3> QED
      BY <1>0, <3>1, SumPlus
  <2>7. SumFunctionOnSet(base, Conns) <= agg[c].total
    BY BaseSum
  <2>8. SumFunctionOnSet(base, Conns) \in Nat
    <3> HIDE DEF base
    <3> QED
      BY <1>0, <2>2, SumNat
  <2>9. CredSum([x \in Conns |-> NewCred(s, c, x)]) = SumFunctionOnSet(new, Conns)
    BY DEF CredSum
  <2> HIDE DEF G, L, new, base
  <2>10. /\ GoodRow(NewAgg(s, c)) /\ NewAgg(s, c) # NoRow
         /\ NewAgg(s, c).total = agg[c].total + G /\ NewAgg(s, c).hist = agg[c].hist + G
    BY <1>2, <2>1, <2>4, <2>5, GrownGood
  <2>11. agg[c].total \in Nat /\ agg[c].hist \in Nat
    BY <1>2 DEF GoodRow, Rows
  <2>12. GrownFrom(agg[c], NewAgg(s, c), NewAgg(s, c).hist - agg[c].hist)
    BY <2>4, <2>10, <2>11 DEF GrownFrom
  <2> QED
    BY <2>4, <2>6, <2>7, <2>8, <2>9, <2>10, <2>11, <2>12
<1> QED
  BY <1>3, <1>4

\* LoadTraffic: rows that add up have no gap, and grow into rows that add up.
LEMMA OutcomeGood ==
  ASSUME RowsOK, NEW s \in Syncs, pc[s] = "load", SeenOK(s)
  PROVE  OutcomeOK(Outcome(s))
<1> DEFINE o == Outcome(s)
<1>1. ASSUME NEW c \in Clients
      PROVE  /\ GoodRow(NewAgg(s, c)) /\ NewAgg(s, c).hist \in Nat
             /\ Gap(NewAgg(s, c), c) = 0
  <2>1. GoodRow(NewAgg(s, c))
    BY AggOutcome DEF GrownFrom
  <2> QED
    BY <2>1 DEF Gap, GoodRow, Rows
<1>2. ASSUME NEW c \in Clients
      PROVE  /\ o.agg[c] = NewAgg(s, c)
             /\ o.dAgg[c] = NewAgg(s, c).hist - agg[c].hist
             /\ o.cred[c] = [x \in Conns |-> NewCred(s, c, x)]
             /\ \A x \in Conns : o.dCred[c][x] = Gain(s, c, x)
  <2> DEFINE gap == [b \in Clients |-> Gap(NewAgg(s, b), b)]
  <2>1. gap[c] = 0
    BY <1>1
  <2>2. o.agg[c] = [NewAgg(s, c) EXCEPT !.hist = NewAgg(s, c).hist + gap[c]]
    BY DEF Outcome
  <2>3. o.dAgg[c] = NewAgg(s, c).hist + gap[c] - agg[c].hist
    BY DEF Outcome
  <2>4. o.cred[c] = [x \in Conns |-> NewCred(s, c, x)]
        /\ \A x \in Conns : o.dCred[c][x] = Gain(s, c, x)
    BY DEF Outcome
  <2>5. o.agg[c] = NewAgg(s, c)
    <3>1. o.agg[c] = [NewAgg(s, c) EXCEPT !.hist = NewAgg(s, c).hist]
      <4> HIDE DEF o, gap
      <4> QED
        BY <1>1, <2>1, <2>2
    <3> HIDE DEF o
    <3> QED
      BY <1>1, <3>1 DEF GoodRow, Rows
  <2>6. o.dAgg[c] = NewAgg(s, c).hist - agg[c].hist
    <3>1. agg[c].hist \in Nat
      BY DEF RowsOK, Rows
    <3> HIDE DEF o, gap
    <3> QED
      BY <1>1, <2>1, <2>3, <3>1
  <2> QED
    BY <2>4, <2>5, <2>6
<1>3. o.agg \in [Clients -> Rows]
  <2>1. o.agg = [c \in Clients |-> o.agg[c]]
    BY DEF Outcome
  <2>2. \A c \in Clients : o.agg[c] \in Rows
    BY <1>1, <1>2 DEF GoodRow
  <2> HIDE DEF o
  <2> QED
    BY <2>1, <2>2
<1>4. o.cred \in [Clients -> [Conns -> Rows]]
  <2>1. o.cred = [c \in Clients |-> [x \in Conns |-> NewCred(s, c, x)]]
    BY DEF Outcome
  <2>2. \A c \in Clients, x \in Conns : NewCred(s, c, x) \in Rows
    BY CredOutcome DEF GrownFrom, GoodRow
  <2> HIDE DEF o
  <2> QED
    BY <2>1, <2>2
<1>5. o.read \in [Clients -> [Conns -> Nat]]
  <2>1. o.read = [c \in Clients |-> [x \in Conns |->
                    IF x \in Known(s, c) THEN seen[s].run ELSE readIn[c][x]]]
    BY DEF Outcome
  <2>2. seen[s].run \in Nat /\ readIn \in [Clients -> [Conns -> Nat]]
    BY DEF SeenOK, RowsOK
  <2> HIDE DEF o
  <2> QED
    BY <2>1, <2>2
<1>6. ASSUME NEW c \in Clients
      PROVE  /\ GrownFrom(agg[c], o.agg[c], o.dAgg[c])
             /\ \A x \in Conns : GrownFrom(cred[c][x], o.cred[c][x], o.dCred[c][x])
             /\ CredSum(o.cred[c]) <= o.agg[c].total
  <2>1. \A x \in Conns : o.cred[c][x] = NewCred(s, c, x)
    <3> HIDE DEF o
    <3> QED
      BY <1>2
  <2> HIDE DEF o
  <2>2. ASSUME NEW x \in Conns PROVE GrownFrom(cred[c][x], o.cred[c][x], o.dCred[c][x])
    BY <1>2, <2>1, CredOutcome
  <2> QED
    BY <1>2, <2>2, AggOutcome
<1> HIDE DEF o
<1>7. OutcomeOK(o)
  BY <1>3, <1>4, <1>5, <1>6 DEF OutcomeOK
<1> QED
  BY <1>7 DEF o

-----------------------------------------------------------------------------
(***************************************************************************)
(* Steps of a sync.                                                        *)
(***************************************************************************)
\* What a sync is going to write stays right when rows are deleted.
LEMMA SeenKept ==
  ASSUME NEW t \in Syncs, SeenOK(t), pc'[t] = pc[t], seen'[t] = seen[t],
         pc[t] = "save" =>
           \A c \in Clients : /\ agg'[c] = agg[c] \/ agg'[c] = NoRow
                              /\ \A x \in Conns : cred'[c][x] = cred[c][x] \/ cred'[c][x] = NoRow
  PROVE  SeenOK(t)'
<1>1. CASE pc[t] = "save"
  <2> DEFINE o == seen[t]
  <2>1. OutcomeOK(o)
    BY <1>1 DEF SeenOK
  <2>2. ASSUME NEW c \in Clients
        PROVE  /\ GrownFrom(agg'[c], o.agg[c], o.dAgg[c])
               /\ \A x \in Conns : GrownFrom(cred'[c][x], o.cred[c][x], o.dCred[c][x])
    <3>1. /\ GrownFrom(agg[c], o.agg[c], o.dAgg[c])
          /\ \A x \in Conns : GrownFrom(cred[c][x], o.cred[c][x], o.dCred[c][x])
      BY <2>1 DEF OutcomeOK
    <3>2. GrownFrom(agg'[c], o.agg[c], o.dAgg[c])
      BY <1>1, <3>1 DEF GrownFrom
    <3>3. ASSUME NEW x \in Conns PROVE GrownFrom(cred'[c][x], o.cred[c][x], o.dCred[c][x])
      <4>1. cred'[c][x] = cred[c][x] \/ cred'[c][x] = NoRow
        BY <1>1
      <4>2. GrownFrom(cred[c][x], o.cred[c][x], o.dCred[c][x])
        BY <3>1
      <4> QED
        BY <4>1, <4>2 DEF GrownFrom
    <3> QED
      BY <3>2, <3>3
  <2>3. OutcomeOK(o)'
    BY <2>1, <2>2 DEF OutcomeOK
  <2> QED
    BY <1>1, <2>3 DEF SeenOK
<1>2. CASE pc[t] # "save"
  BY <1>2 DEF SeenOK
<1> QED
  BY <1>1, <1>2

Others == <<command, config, db, agg, cred, readIn, xray, carried, reborn, moved, undone>>

\* A sync steps and changes its own state, and perhaps the lock.
SyncMoves(s) ==
  /\ \E step \in SyncSteps : pc' = [pc EXCEPT ![s] = step]
  /\ DOMAIN seen' = Syncs
  /\ \A t \in Syncs \ {s} : seen'[t] = seen[t]
  /\ lock' \in {lock, s, NoSync}
  /\ lock' # lock => lock \in {s, NoSync}
  /\ pc'[s] \in Working => lock' = s

\* The step leaves the lock to one sync.
LEMMA SyncMovesFacts ==
  ASSUME IInv, NEW s \in Syncs, SyncMoves(s)
  PROVE  /\ lock' \in Syncs \union {NoSync}
         /\ pc' \in [Syncs -> SyncSteps]
         /\ DOMAIN seen' = Syncs
         /\ Exclusive'
         /\ \A t \in Syncs \ {s} : pc'[t] = pc[t] /\ seen'[t] = seen[t]
<1>1. /\ pc \in [Syncs -> SyncSteps] /\ DOMAIN seen = Syncs
      /\ lock \in Syncs \union {NoSync} /\ Exclusive
  BY DEF IInv, Types
<1>2. PICK step \in SyncSteps : pc' = [pc EXCEPT ![s] = step]
  BY DEF SyncMoves
<1>3. DOMAIN seen' = Syncs /\ \A t \in Syncs \ {s} : seen'[t] = seen[t]
  BY <1>1 DEF SyncMoves
<1>4. pc' \in [Syncs -> SyncSteps] /\ \A t \in Syncs \ {s} : pc'[t] = pc[t]
  BY <1>1, <1>2
<1>5. ASSUME NEW t \in Syncs, pc'[t] \in Working PROVE lock' = t
  <2>1. CASE t = s
    BY <1>5, <2>1 DEF SyncMoves
  <2>2. CASE t # s
    <3>1. lock = t /\ t # NoSync
      BY <1>1, <1>4, <1>5, <2>2, SyncsAssumption DEF Exclusive
    <3> QED
      BY <2>2, <3>1 DEF SyncMoves
  <2> QED
    BY <2>1, <2>2
<1> QED
  BY <1>1, <1>3, <1>4, <1>5 DEF SyncMoves, Exclusive

LEMMA SyncMovesKeep ==
  ASSUME IInv, NEW s \in Syncs, SyncMoves(s), UNCHANGED Others, SeenOK(s)'
  PROVE  IInv'
<1>1. Types'
  BY SyncMovesFacts DEF IInv, Types, Others, CommandOK, UnitOK
<1>2. RowsOK' /\ RowsBelong'
  BY DEF IInv, RowsOK, RowsBelong, Others
<1>3. \A t \in Syncs : SeenOK(t)'
  <2>1. ASSUME NEW t \in Syncs \ {s} PROVE SeenOK(t)'
    <3>1. SeenOK(t) /\ pc'[t] = pc[t] /\ seen'[t] = seen[t]
      BY SyncMovesFacts DEF IInv
    <3>2. agg' = agg /\ cred' = cred
      BY DEF Others
    <3> QED
      BY <3>1, <3>2, SeenKept
  <2> QED
    BY <2>1
<1> QED
  BY <1>1, <1>2, <1>3, SyncMovesFacts DEF IInv

\* A sync that ends has nothing in hand.
LEMMA EndSyncKeeps ==
  ASSUME IInv, NEW s \in Syncs, EndSync(s), UNCHANGED Others
  PROVE  IInv'
<1>1. pc' = [pc EXCEPT ![s] = "idle"]
  BY DEF EndSync, Goto
<1>2. pc'[s] = "idle"
  BY <1>1 DEF IInv, Types
<1>3. SyncMoves(s)
  BY <1>1, <1>2 DEF EndSync, SyncMoves, SyncSteps, Working, IInv, Types
<1>4. SeenOK(s)'
  BY <1>2 DEF SeenOK
<1> QED
  BY <1>3, <1>4, SyncMovesKeep

\* A sync goes on to a step, with the lock.
LEMMA GoesOn ==
  ASSUME IInv, NEW s \in Syncs, NEW step \in SyncSteps, Goto(s, step),
         step \in Working => lock' = s,
         lock' = lock \/ (lock = NoSync /\ lock' = s),
         seen' = seen \/ \E v : seen' = [seen EXCEPT ![s] = v]
  PROVE  SyncMoves(s) /\ pc'[s] = step
<1>1. pc'[s] = step
  BY DEF Goto, IInv, Types
<1>2. DOMAIN seen' = Syncs /\ \A t \in Syncs \ {s} : seen'[t] = seen[t]
  BY DEF IInv, Types
<1> QED
  BY <1>1, <1>2 DEF SyncMoves, Goto

LEMMA StartSyncKeeps ==
  ASSUME IInv, NEW s \in Syncs, StartSync(s) PROVE IInv'
<1>1. SyncMoves(s) /\ pc'[s] = "waiting"
  BY GoesOn DEF StartSync, SyncSteps, Working
<1>2. SeenOK(s)'
  BY <1>1 DEF SeenOK
<1> QED
  BY <1>1, <1>2, SyncMovesKeep DEF StartSync, Others, stores, traffic, history

LEMMA AcquireTrafficKeeps ==
  ASSUME IInv, NEW s \in Syncs, AcquireTraffic(s) PROVE IInv'
<1>1. SyncMoves(s) /\ pc'[s] = "config"
  BY GoesOn DEF AcquireTraffic, SyncSteps
<1>2. SeenOK(s)'
  BY <1>1 DEF SeenOK
<1> QED
  BY <1>1, <1>2, SyncMovesKeep DEF AcquireTraffic, Others, stores, traffic, history

LEMMA ReadConfigKeeps ==
  ASSUME IInv, NEW s \in Syncs, ReadConfig(s) PROVE IInv'
<1>1. config.served \in Served /\ [c \in Clients |-> {}] \in Served
  BY DEF IInv, Types, Configs, Served
<1>2. PICK served \in Served : seen' = [seen EXCEPT ![s] = [served |-> served]]
  BY <1>1 DEF ReadConfig
<1>3. lock' = s /\ lock' = lock
  BY DEF ReadConfig, IInv, Exclusive, Working
<1>4. SyncMoves(s) /\ pc'[s] = "rows"
  BY <1>2, <1>3, GoesOn DEF ReadConfig, SyncSteps
<1>5. seen'[s] = [served |-> served]
  BY <1>2 DEF IInv, Types
<1>6. SeenOK(s)'
  BY <1>4, <1>5 DEF SeenOK
<1> QED
  BY <1>4, <1>6, SyncMovesKeep DEF ReadConfig, Others, stores, traffic, history

LEMMA ReadRowsKeeps ==
  ASSUME IInv, NEW s \in Syncs, ReadRows(s) PROVE IInv'
<1>1. seen' = [seen EXCEPT ![s] = [served |-> seen[s].served, known |-> db.known]]
  BY DEF ReadRows
<1>2. lock' = s /\ lock' = lock
  BY DEF ReadRows, IInv, Exclusive, Working
<1>3. SyncMoves(s) /\ pc'[s] = "query"
  BY <1>1, <1>2, GoesOn DEF ReadRows, SyncSteps
<1>4. seen'[s] = [served |-> seen[s].served, known |-> db.known]
  BY <1>1 DEF IInv, Types
<1>5. seen[s].served \in Served
  BY DEF ReadRows, IInv, SeenOK
<1>6. db.known \in Served
  <2>1. SoundTable(db.known, db.on, db.route)
    BY StoresFields DEF IInv, Types
  <2> QED
    BY <2>1 DEF SoundTable, Served
<1>7. SeenOK(s)'
  BY <1>3, <1>4, <1>5, <1>6 DEF SeenOK
<1> QED
  BY <1>3, <1>7, SyncMovesKeep DEF ReadRows, Others, stores, traffic, history

LEMMA QueryStatsKeeps ==
  ASSUME IInv, NEW s \in Syncs, QueryStats(s) PROVE IInv'
<1> DEFINE v == [served |-> seen[s].served, known |-> seen[s].known,
                 stats |-> xray.counter, run |-> xray.run]
<1>1. seen' = [seen EXCEPT ![s] = v]
  BY DEF QueryStats
<1>2. lock' = s /\ lock' = lock
  BY DEF QueryStats, IInv, Exclusive, Working
<1>3. SyncMoves(s) /\ pc'[s] = "load"
  BY <1>1, <1>2, GoesOn DEF QueryStats, SyncSteps
<1>4. seen'[s] = v
  BY <1>1 DEF IInv, Types
<1>5. v.served \in Served /\ v.known \in Served /\ v.stats \in Counters /\ v.run \in Nat
  BY DEF QueryStats, IInv, SeenOK, Types, UnitOK
<1> HIDE DEF v
<1>6. SeenOK(s)'
  BY <1>3, <1>4, <1>5 DEF SeenOK
<1> QED
  BY <1>3, <1>6, SyncMovesKeep DEF QueryStats, Others, stores, traffic, history

LEMMA QueryFailsKeeps ==
  ASSUME IInv, NEW s \in Syncs, QueryFails(s) PROVE IInv'
  BY EndSyncKeeps DEF QueryFails, Others, stores, traffic, history

LEMMA SyncDiesKeeps ==
  ASSUME IInv, NEW s \in Syncs, SyncDies(s) PROVE IInv'
  BY EndSyncKeeps DEF SyncDies, Others, stores, traffic

LEMMA LoadTrafficKeeps ==
  ASSUME IInv, NEW s \in Syncs, LoadTraffic(s) PROVE IInv'
<1>1. seen' = [seen EXCEPT ![s] = Outcome(s)]
  BY DEF LoadTraffic
<1>2. lock' = s /\ lock' = lock
  BY DEF LoadTraffic, IInv, Exclusive, Working
<1>3. SyncMoves(s) /\ pc'[s] = "save"
  BY <1>1, <1>2, GoesOn DEF LoadTraffic, SyncSteps
<1>4. seen'[s] = Outcome(s)
  BY <1>1 DEF IInv, Types
<1>5. OutcomeOK(Outcome(s))
  BY OutcomeGood DEF LoadTraffic, IInv
<1>6. OutcomeOK(seen[s])'
  <2>1. agg' = agg /\ cred' = cred
    BY DEF LoadTraffic, traffic
  <2> QED
    BY <1>4, <1>5, <2>1 DEF OutcomeOK
<1>7. SeenOK(s)'
  BY <1>3, <1>6 DEF SeenOK
<1> QED
  BY <1>3, <1>7, SyncMovesKeep DEF LoadTraffic, Others, stores, traffic, history

\* Replacing totals and adding to the history comes to the new row.
LEMMA WrittenIsNew ==
  ASSUME NEW old, NEW new, NEW change, GrownFrom(old, new, change)
  PROVE  Written(old, new, change) = new
<1>1. CASE old = NoRow
  BY <1>1 DEF Written
<1>2. CASE old # NoRow
  BY <1>2 DEF Written, GrownFrom, GoodRow, Rows
<1> QED
  BY <1>1, <1>2

LEMMA SaveTrafficKeeps ==
  ASSUME IInv, NEW s \in Syncs, SaveTraffic(s) PROVE IInv'
<1> DEFINE o == seen[s]
<1>1. OutcomeOK(o)
  BY DEF IInv, SeenOK, SaveTraffic
<1>2. lock = s /\ \A t \in Syncs \ {s} : pc[t] # "save"
  BY DEF IInv, Exclusive, Working, SaveTraffic
<1>3. /\ EndSync(s)
      /\ UNCHANGED <<command, config, db, xray, carried, mishaps, reborn, moved, undone>>
  BY DEF SaveTraffic, stores, history
<1>4. SyncMoves(s) /\ pc'[s] = "idle"
  <2>1. pc' = [pc EXCEPT ![s] = "idle"]
    BY <1>3 DEF EndSync, Goto
  <2>2. pc'[s] = "idle"
    BY <2>1 DEF IInv, Types
  <2> QED
    BY <1>3, <2>1, <2>2 DEF EndSync, SyncMoves, SyncSteps, Working, IInv, Types
<1>5. \A t \in Syncs : SeenOK(t)'
  <2>1. SeenOK(s)'
    BY <1>4 DEF SeenOK
  <2>2. ASSUME NEW t \in Syncs \ {s} PROVE SeenOK(t)'
    <3>1. SeenOK(t) /\ pc'[t] = pc[t] /\ seen'[t] = seen[t] /\ pc[t] # "save"
      BY <1>2, <1>4, SyncMovesFacts DEF IInv
    <3> QED
      BY <3>1, SeenKept
  <2> QED
    BY <2>1, <2>2
<1>6. Types'
  BY <1>3, <1>4, SyncMovesFacts DEF IInv, Types, CommandOK, UnitOK
<1>7. ASSUME NEW c \in Clients
      PROVE  agg'[c] = IF db.known[c] # {} /\ o.agg[c] # NoRow THEN o.agg[c] ELSE agg[c]
  <2>1. agg'[c] = IF db.known[c] # {} /\ o.agg[c] # NoRow
                    THEN Written(agg[c], o.agg[c], o.dAgg[c]) ELSE agg[c]
    BY DEF SaveTraffic
  <2>2. Written(agg[c], o.agg[c], o.dAgg[c]) = o.agg[c]
    BY <1>1, WrittenIsNew DEF OutcomeOK
  <2> QED
    BY <2>1, <2>2
<1>8. ASSUME NEW c \in Clients, NEW x \in Conns
      PROVE  cred'[c][x] = IF Writable(c, x, o.cred[c][x]) THEN o.cred[c][x] ELSE cred[c][x]
  <2>1. cred'[c][x] = IF Writable(c, x, o.cred[c][x])
                        THEN Written(cred[c][x], o.cred[c][x], o.dCred[c][x]) ELSE cred[c][x]
    BY DEF SaveTraffic
  <2>2. Written(cred[c][x], o.cred[c][x], o.dCred[c][x]) = o.cred[c][x]
    BY <1>1, WrittenIsNew DEF OutcomeOK
  <2> QED
    BY <2>1, <2>2
<1>9. /\ DOMAIN agg' = Clients /\ DOMAIN cred' = Clients
      /\ agg' = [c \in Clients |-> agg'[c]]
      /\ cred' = [c \in Clients |-> [x \in Conns |-> cred'[c][x]]]
      /\ readIn' \in [Clients -> [Conns -> Nat]]
  <2>1. readIn' \in [Clients -> [Conns -> Nat]]
    BY <1>1 DEF SaveTraffic, OutcomeOK, IInv, RowsOK
  <2> QED
    BY <2>1 DEF SaveTraffic
<1> HIDE DEF o
<1>10. RowsBelong'
  <2>1. ASSUME NEW c \in Clients PROVE agg'[c] # NoRow => db.known[c] # {}
    BY <1>7 DEF IInv, RowsBelong
  <2>2. ASSUME NEW c \in Clients, NEW x \in Conns
        PROVE  cred'[c][x] # NoRow => x \in db.known[c]
    BY <1>8 DEF IInv, RowsBelong, Writable
  <2> QED
    BY <1>3, <2>1, <2>2 DEF RowsBelong
<1>11. ASSUME NEW c \in Clients
       PROVE  /\ agg'[c] \in Rows /\ GoodRow(agg'[c])
              /\ \A x \in Conns : cred'[c][x] \in Rows /\ GoodRow(cred'[c][x])
              /\ CredSum(cred'[c]) <= agg'[c].total
  <2>1. /\ GoodRow(agg[c]) /\ GoodRow(o.agg[c])
        /\ \A x \in Conns : GoodRow(cred[c][x]) /\ GoodRow(o.cred[c][x])
        /\ \A x \in Conns : cred[c][x] # NoRow => x \in db.known[c] /\ o.cred[c][x] # NoRow
        /\ CredSum(o.cred[c]) <= o.agg[c].total
    BY <1>1 DEF IInv, RowsOK, RowsBelong, OutcomeOK, GrownFrom
  <2>2. GoodRow(agg'[c]) /\ \A x \in Conns : GoodRow(cred'[c][x])
    BY <1>7, <1>8, <2>1
  <2> DEFINE now == [x \in Conns |-> cred'[c][x].total]
             new == [x \in Conns |-> o.cred[c][x].total]
  <2>3. ASSUME NEW x \in Conns PROVE cred'[c][x] = NoRow \/ cred'[c][x] = o.cred[c][x]
    BY <1>8, <2>1 DEF Writable
  <2>4. \A x \in Conns : now[x] \in Int /\ new[x] \in Int /\ now[x] <= new[x] /\ now[x] \in Nat
    <3>1. ASSUME NEW x \in Conns
          PROVE  cred'[c][x].total \in Nat /\ o.cred[c][x].total \in Nat
                 /\ cred'[c][x].total <= o.cred[c][x].total
      BY <2>1, <2>3, GoodNoRow DEF GoodRow, Rows
    <3> QED
      BY <3>1
  <2>5. SumFunctionOnSet(now, Conns) <= SumFunctionOnSet(new, Conns)
        /\ SumFunctionOnSet(now, Conns) \in Nat /\ SumFunctionOnSet(new, Conns) \in Int
    <3> HIDE DEF now, new
    <3> QED
      BY <2>4, ConnsAssumption, SumMonotonic, SumNat, SumInt
  <2>6. CredSum(cred'[c]) = SumFunctionOnSet(now, Conns)
        /\ CredSum(o.cred[c]) = SumFunctionOnSet(new, Conns)
    BY DEF CredSum
  <2>7. CASE db.known[c] # {} /\ o.agg[c] # NoRow
    <3>1. CredSum(cred'[c]) <= agg'[c].total
      <4>1. o.agg[c].total \in Nat
        BY <2>1 DEF GoodRow, Rows
      <4> HIDE DEF now, new
      <4> QED
        BY <1>7, <2>1, <2>5, <2>6, <2>7, <4>1
    <3> QED
      BY <2>2, <3>1 DEF GoodRow
  <2>8. CASE o.agg[c] = NoRow
    <3>1. CredSum(cred'[c]) <= agg'[c].total
      <4>1. agg'[c].total \in Nat
        BY <2>2 DEF GoodRow, Rows
      <4> HIDE DEF now, new
      <4> QED
        BY <2>1, <2>5, <2>6, <2>8, <4>1, GoodNoRow
    <3> QED
      BY <2>2, <3>1 DEF GoodRow
  <2>9. CASE db.known[c] = {}
    <3>1. \A x \in Conns : cred'[c][x] = NoRow
      BY <1>8, <2>1, <2>9 DEF Writable
    <3>2. \A x \in Conns : now[x] = 0
      BY <3>1, GoodNoRow
    <3>3. SumFunctionOnSet(now, Conns) = 0
      <4> HIDE DEF now
      <4> QED
        BY <3>2, ConnsAssumption, SumZero
    <3>4. CredSum(cred'[c]) <= agg'[c].total
      <4>1. agg'[c].total \in Nat
        BY <2>2 DEF GoodRow, Rows
      <4> HIDE DEF now
      <4> QED
        BY <2>6, <3>3, <4>1
    <3> QED
      BY <2>2, <3>4 DEF GoodRow
  <2> QED
    BY <2>7, <2>8, <2>9
<1>12. RowsOK'
  <2>1. agg' \in [Clients -> Rows]
    BY <1>9, <1>11
  <2>2. cred' \in [Clients -> [Conns -> Rows]]
    <3>1. ASSUME NEW c \in Clients PROVE [x \in Conns |-> cred'[c][x]] \in [Conns -> Rows]
      BY <1>11
    <3>2. [c \in Clients |-> [x \in Conns |-> cred'[c][x]]] \in [Clients -> [Conns -> Rows]]
      BY <3>1
    <3> QED
      BY <1>9, <3>2
  <2> QED
    BY <1>9, <1>11, <2>1, <2>2 DEF RowsOK, CredSum
<1> QED
  BY <1>4, <1>5, <1>6, <1>10, <1>12, SyncMovesFacts DEF IInv

-----------------------------------------------------------------------------
(***************************************************************************)
(* Steps of the command, of Xray and of systemd.                           *)
(***************************************************************************)
\* Neither the syncs nor the traffic rows change.
LEMMA UnitMovesKeep ==
  ASSUME IInv, UNCHANGED <<lock, pc, seen, db, agg, cred, readIn>>,
         CommandOK', config' \in Configs, UnitOK', carried' \in [Clients -> Nat],
         reborn' \subseteq Clients, moved' \subseteq Clients, undone' \subseteq Clients
  PROVE  IInv'
<1>1. Types' /\ RowsOK' /\ RowsBelong' /\ Exclusive'
  BY DEF IInv, Types, RowsOK, RowsBelong, Exclusive
<1>2. ASSUME NEW t \in Syncs PROVE SeenOK(t)'
  <2>1. SeenOK(t) /\ pc'[t] = pc[t] /\ seen'[t] = seen[t] /\ agg' = agg /\ cred' = cred
    BY DEF IInv
  <2> QED
    BY <2>1, SeenKept
<1> QED
  BY <1>1, <1>2 DEF IInv

LEMMA BeginCommandKeeps == ASSUME IInv, BeginCommand PROVE IInv'
<1>1. config \in Configs /\ db \in Stores
  BY DEF IInv, Types
<1>2. PICK r \in Commands : \E k \in Candidates(r, config, db) :
        /\ command' = [step |-> IF k.kind = "apply" THEN "written" ELSE "save",
                       undo |-> FALSE, kind |-> k.kind, db |-> k.db, oldCfg |-> config]
        /\ config' = k.cfg
  BY DEF BeginCommand
<1>3. PICK k \in Candidates(r, config, db) :
        /\ command' = [step |-> IF k.kind = "apply" THEN "written" ELSE "save",
                       undo |-> FALSE, kind |-> k.kind, db |-> k.db, oldCfg |-> config]
        /\ config' = k.cfg
  BY <1>2
<1>4. r \in Requests
  BY DEF Commands
<1>5. k.kind \in Kinds /\ k.cfg \in Configs /\ k.db \in Stores
  BY <1>1, <1>4, CandidatesGood DEF GoodCandidate, Kinds
<1>6. CommandOK' /\ config' \in Configs
  BY <1>1, <1>3, <1>5 DEF CommandOK
<1> QED
  BY <1>6, UnitMovesKeep DEF BeginCommand, traffic, history, IInv, Types, UnitOK

LEMMA NoCommandOK == command' = NoCommand => CommandOK'
  BY DEF CommandOK

LEMMA RollBackOK ==
  ASSUME IInv, command # NoCommand, RollBack
  PROVE  CommandOK' /\ config' \in Configs /\ undone' \subseteq Clients
<1>1. CASE command.undo \/ command.kind # "apply"
  <2>1. command' = NoCommand /\ config' = config /\ undone' = undone
    BY <1>1 DEF RollBack
  <2> QED
    BY <2>1, NoCommandOK DEF IInv, Types
<1>2. CASE ~ (command.undo \/ command.kind # "apply")
  <2>1. /\ command' = [command EXCEPT !.step = "written", !.undo = TRUE]
        /\ config' = command.oldCfg /\ undone' \subseteq undone \union Clients
    BY <1>2 DEF RollBack
  <2> QED
    BY <2>1 DEF IInv, Types, CommandOK
<1> QED
  BY <1>1, <1>2

\* A command that works has a step of its own.
LEMMA AtWork == ASSUME command.step # "idle" PROVE command # NoCommand
  BY DEF NoCommand

LEMMA StepOK ==
  ASSUME IInv, command # NoCommand, NEW step \in {"written", "stopping", "stopped", "save"},
         command' = [command EXCEPT !.step = step]
  PROVE  CommandOK'
  BY DEF IInv, Types, CommandOK

LEMMA StartedOK == ASSUME IInv, xray' = Started PROVE UnitOK'
<1>1. xray \in [state : UnitStates, served : Served, counter : Counters, run : Nat]
  BY DEF IInv, Types, UnitOK
<1>2. config.served \in Served
  BY DEF IInv, Types, Configs, Served
<1>3. xray' = [state |-> "up", served |-> config.served, counter |-> xray.counter,
               run |-> xray.run + 1]
  BY <1>1 DEF Started
<1>4. "up" \in UnitStates /\ xray.counter \in Counters /\ xray.run + 1 \in Nat
  BY <1>1 DEF UnitStates
<1> QED
  BY <1>2, <1>3, <1>4 DEF UnitOK

LEMMA StopXrayKeeps == ASSUME IInv, StopXray PROVE IInv'
<1>1. CommandOK'
  BY AtWork, StepOK DEF StopXray
<1>2. UnitOK'
  BY DEF StopXray, IInv, Types, UnitOK, UnitStates
<1>3. pc' \in [Syncs -> SyncSteps] /\ \A t \in Syncs : pc'[t] = pc[t] \/ pc'[t] = "waiting"
  <2>1. ExecStop \in Syncs
    BY DEF Syncs
  <2> QED
    BY <2>1 DEF StopXray, Goto, IInv, Types, SyncSteps
<1>4. UNCHANGED <<lock, seen, config, db, agg, cred, readIn, carried, mishaps, reborn, moved, undone>>
  BY DEF StopXray, stores, traffic, history
<1>5. Types' /\ RowsOK' /\ RowsBelong'
  BY <1>1, <1>2, <1>3, <1>4 DEF IInv, Types, RowsOK, RowsBelong
<1>6. Exclusive'
  BY <1>3, <1>4 DEF IInv, Exclusive, Working
<1>7. ASSUME NEW t \in Syncs PROVE SeenOK(t)'
  <2>1. CASE pc'[t] = pc[t]
    <3>1. SeenOK(t) /\ seen'[t] = seen[t] /\ agg' = agg /\ cred' = cred
      BY <1>4 DEF IInv
    <3> QED
      BY <2>1, <3>1, SeenKept
  <2>2. CASE pc'[t] = "waiting"
    BY <2>2 DEF SeenOK
  <2> QED
    BY <1>3, <2>1, <2>2
<1> QED
  BY <1>5, <1>6, <1>7 DEF IInv

LEMMA XrayStoppedKeeps == ASSUME IInv, XrayStopped PROVE IInv'
<1>1. CommandOK'
  BY AtWork, StepOK DEF XrayStopped
<1> QED
  BY <1>1, UnitMovesKeep DEF XrayStopped, stores, traffic, history, IInv, Types, UnitOK

\* StopTimeout, StartFails and CommitFails.
LEMMA RollBackKeeps ==
  ASSUME IInv, command # NoCommand, RollBack,
         UNCHANGED <<lock, pc, seen, db, traffic, xray, carried, mishaps, reborn, moved>>
  PROVE  IInv'
  BY RollBackOK, UnitMovesKeep DEF traffic, IInv, Types, UnitOK

LEMMA StartXrayKeeps == ASSUME IInv, StartXray PROVE IInv'
<1>1. CommandOK'
  BY AtWork, StepOK, NoCommandOK DEF StartXray
<1>2. UnitOK'
  BY StartedOK DEF StartXray
<1> QED
  BY <1>1, <1>2, UnitMovesKeep DEF StartXray, stores, traffic, history, IInv, Types

LEMMA CommandDiesKeeps == ASSUME IInv, CommandDies PROVE IInv'
<1>1. CommandOK'
  BY NoCommandOK DEF CommandDies
<1> QED
  BY <1>1, UnitMovesKeep DEF CommandDies, stores, traffic, IInv, Types, UnitOK

LEMMA CarryKeeps ==
  ASSUME IInv, NEW c \in Clients, NEW x \in Conns, Carry(c, x) PROVE IInv'
<1>1. UnitOK'
  <2>1. /\ UnitOK /\ MaxBytes \in Nat
        /\ xray' = [xray EXCEPT !.counter[c][x] = xray.counter[c][x] + 1]
        /\ xray.counter[c][x] < MaxBytes
    BY SyncsAssumption DEF Carry, IInv, Types
  <2>2. xray.counter[c][x] + 1 \in 0..MaxBytes
    BY <2>1 DEF UnitOK, Counters
  <2> QED
    BY <2>1, <2>2 DEF UnitOK, Counters
<1>2. carried' \in [Clients -> Nat]
  BY DEF Carry, IInv, Types
<1> QED
  BY <1>1, <1>2, UnitMovesKeep DEF Carry, stores, traffic, IInv, Types, CommandOK

LEMMA ZeroOK == Zero \in Counters
  BY SyncsAssumption DEF Zero, Counters

LEMMA KillXrayKeeps == ASSUME IInv, KillXray PROVE IInv'
<1>1. UnitOK'
  BY ZeroOK DEF KillXray, IInv, Types, UnitOK, UnitStates
<1> QED
  BY <1>1, UnitMovesKeep DEF KillXray, stores, traffic, history, IInv, Types, CommandOK

LEMMA XrayExitsKeeps == ASSUME IInv, XrayExits PROVE IInv'
<1>1. UnitOK'
  BY ZeroOK DEF XrayExits, IInv, Types, UnitOK, UnitStates
<1> QED
  BY <1>1, UnitMovesKeep DEF XrayExits, stores, traffic, IInv, Types, CommandOK

LEMMA XrayStartsKeeps == ASSUME IInv, XrayStarts PROVE IInv'
<1>1. UnitOK'
  BY StartedOK DEF XrayStarts
<1> QED
  BY <1>1, UnitMovesKeep DEF XrayStarts, stores, traffic, history, IInv, Types, CommandOK

\* Rows whose sum is bounded keep within it when some of them go.
LEMMA CascadeSum ==
  ASSUME NEW rows, NEW left,
         \A x \in Conns : GoodRow(rows[x]) /\ (left[x] = rows[x] \/ left[x] = NoRow)
  PROVE  CredSum(left) <= CredSum(rows) /\ CredSum(rows) \in Nat /\ CredSum(left) \in Nat
<1> DEFINE f == [x \in Conns |-> left[x].total]
           g == [x \in Conns |-> rows[x].total]
<1>1. \A x \in Conns : f[x] \in Nat /\ g[x] \in Nat /\ f[x] <= g[x]
  <2>1. ASSUME NEW x \in Conns
        PROVE  left[x].total \in Nat /\ rows[x].total \in Nat /\ left[x].total <= rows[x].total
    BY GoodNoRow DEF GoodRow, Rows
  <2> QED
    BY <2>1
<1>2. SumFunctionOnSet(f, Conns) <= SumFunctionOnSet(g, Conns)
      /\ SumFunctionOnSet(f, Conns) \in Nat /\ SumFunctionOnSet(g, Conns) \in Nat
  <2> HIDE DEF f, g
  <2> QED
    BY <1>1, ConnsAssumption, SumMonotonic, SumNat
<1> QED
  BY <1>2 DEF CredSum

LEMMA NoCredSum ==
  ASSUME NEW rows, \A x \in Conns : rows[x] = NoRow PROVE CredSum(rows) = 0
<1> DEFINE f == [x \in Conns |-> rows[x].total]
<1>1. \A x \in Conns : f[x] = 0
  BY GoodNoRow
<1>2. SumFunctionOnSet(f, Conns) = 0
  <2> HIDE DEF f
  <2> QED
    BY <1>1, ConnsAssumption, SumZero
<1> QED
  BY <1>2 DEF CredSum

LEMMA CommitCommandKeeps == ASSUME IInv, CommitCommand PROVE IInv'
<1>1. command # NoCommand /\ command.db \in Stores
  BY AtWork DEF CommitCommand, IInv, Types, CommandOK
<1>2. /\ db' = command.db
      /\ agg' = [c \in Clients |-> Cascade(command.db.known[c] # {}, agg[c])]
      /\ cred' = [c \in Clients |-> [x \in Conns |->
                    Cascade(x \in command.db.known[c], cred[c][x])]]
      /\ UNCHANGED <<lock, pc, seen, config, xray, mishaps>>
  BY DEF CommitCommand
<1>3. CommandOK'
  BY NoCommandOK DEF CommitCommand
<1>4. /\ carried' \in [Clients -> Nat]
      /\ reborn' \subseteq Clients /\ moved' \subseteq Clients /\ undone' \subseteq Clients
  BY DEF CommitCommand, IInv, Types
<1>5. readIn' \in [Clients -> [Conns -> Nat]]
  BY DEF CommitCommand, IInv, RowsOK
<1>6. Types' /\ Exclusive'
  BY <1>1, <1>2, <1>3, <1>4 DEF IInv, Types, Exclusive, UnitOK
<1>7. ASSUME NEW c \in Clients
      PROVE  /\ agg'[c] = IF command.db.known[c] # {} THEN agg[c] ELSE NoRow
             /\ \A x \in Conns : cred'[c][x] = IF x \in command.db.known[c]
                                                 THEN cred[c][x] ELSE NoRow
  BY <1>2 DEF Cascade
<1>8. RowsBelong'
  BY <1>2, <1>7 DEF RowsBelong
<1>9. ASSUME NEW c \in Clients
      PROVE  /\ GoodRow(agg'[c]) /\ \A x \in Conns : GoodRow(cred'[c][x])
             /\ CredSum(cred'[c]) <= agg'[c].total
  <2>1. /\ GoodRow(agg[c]) /\ \A x \in Conns : GoodRow(cred[c][x])
        /\ CredSum(cred[c]) <= agg[c].total
    BY DEF IInv, RowsOK
  <2>2. GoodRow(agg'[c]) /\ \A x \in Conns : GoodRow(cred'[c][x])
    BY <1>7, <2>1, GoodNoRow
  <2>3. agg[c].total \in Nat /\ agg'[c].total \in Nat
    BY <2>1, <2>2 DEF GoodRow, Rows
  <2>4. CASE command.db.known[c] # {}
    <3>1. \A x \in Conns : GoodRow(cred[c][x])
                           /\ (cred'[c][x] = cred[c][x] \/ cred'[c][x] = NoRow)
      BY <1>7, <2>1
    <3>2. CredSum(cred'[c]) <= CredSum(cred[c])
          /\ CredSum(cred[c]) \in Nat /\ CredSum(cred'[c]) \in Nat
      BY <3>1, CascadeSum
    <3> QED
      BY <1>7, <2>1, <2>2, <2>3, <2>4, <3>2
  <2>5. CASE command.db.known[c] = {}
    <3>1. \A x \in Conns : cred'[c][x] = NoRow
      BY <1>7, <2>5
    <3>2. CredSum(cred'[c]) = 0
      BY <3>1, NoCredSum
    <3> QED
      BY <2>2, <2>3, <3>2
  <2> QED
    BY <2>4, <2>5
<1>10. RowsOK'
  <2>1. ASSUME NEW c \in Clients
        PROVE  agg'[c] \in Rows /\ \A x \in Conns : cred'[c][x] \in Rows
    BY <1>9 DEF GoodRow
  <2>2. agg' \in [Clients -> Rows]
    <3>1. agg' = [c \in Clients |-> agg'[c]]
      BY <1>2
    <3> QED
      BY <2>1, <3>1
  <2>3. cred' \in [Clients -> [Conns -> Rows]]
    <3>1. cred' = [c \in Clients |-> [x \in Conns |-> cred'[c][x]]]
      BY <1>2
    <3>2. \A c \in Clients : [x \in Conns |-> cred'[c][x]] \in [Conns -> Rows]
      BY <2>1
    <3> QED
      BY <3>1, <3>2
  <2> QED
    BY <1>5, <1>9, <2>2, <2>3 DEF RowsOK, CredSum
<1>11. ASSUME NEW t \in Syncs PROVE SeenOK(t)'
  <2>1. SeenOK(t) /\ pc'[t] = pc[t] /\ seen'[t] = seen[t]
    BY <1>2 DEF IInv
  <2>2. \A c \in Clients :
          /\ agg'[c] = agg[c] \/ agg'[c] = NoRow
          /\ \A x \in Conns : cred'[c][x] = cred[c][x] \/ cred'[c][x] = NoRow
    BY <1>7
  <2> QED
    BY <2>1, <2>2, SeenKept
<1> QED
  BY <1>6, <1>8, <1>10, <1>11 DEF IInv

-----------------------------------------------------------------------------
(***************************************************************************)
(* The theorems.                                                           *)
(***************************************************************************)
LEMMA InitHolds == Init => IInv
<1> SUFFICES ASSUME Init PROVE IInv
  OBVIOUS
<1>1. /\ lock = NoSync /\ pc = [s \in Syncs |-> "idle"]
      /\ seen = [s \in Syncs |-> Nothing] /\ command = NoCommand
      /\ config = [served |-> [c \in Clients |-> {}], route |-> [c \in Clients |-> NoRoute]]
      /\ db = [known |-> [c \in Clients |-> {}], on |-> [c \in Clients |-> {}],
               route |-> [c \in Clients |-> NoRoute]]
      /\ agg = [c \in Clients |-> NoRow]
      /\ cred = [c \in Clients |-> [x \in Conns |-> NoRow]]
      /\ xray = [state |-> "up", served |-> config.served, counter |-> Zero, run |-> 0]
      /\ carried = [c \in Clients |-> 0] /\ readIn = Zero
      /\ reborn = {} /\ moved = {} /\ undone = {}
  BY DEF Init
<1>2. db \in Stores
  <2>1. SoundTable(db.known, db.on, db.route)
    BY <1>1 DEF SoundTable, RouteOrNone
  <2>2. db = [known |-> db.known, on |-> db.on, route |-> db.route]
    BY <1>1
  <2> QED
    BY <2>1, <2>2, MakeStores
<1>3. config \in Configs
  BY <1>1 DEF Configs, RouteOrNone
<1>4. UnitOK
  BY <1>1, <1>3, ZeroOK DEF UnitOK, UnitStates, Served, Configs
<1>5. Types
  BY <1>1, <1>2, <1>3, <1>4 DEF Types, CommandOK, SyncSteps
<1>6. RowsOK
  <2>1. \A c \in Clients : CredSum(cred[c]) = 0
    BY <1>1, NoCredSum
  <2>2. \A c \in Clients : agg[c] = NoRow /\ \A x \in Conns : cred[c][x] = NoRow
    BY <1>1
  <2>3. NoRow \in Rows /\ readIn \in [Clients -> [Conns -> Nat]]
    BY <1>1, GoodNoRow DEF GoodRow, Zero
  <2> QED
    BY <1>1, <2>1, <2>2, <2>3, GoodNoRow DEF RowsOK
<1>7. RowsBelong /\ Exclusive /\ \A s \in Syncs : SeenOK(s)
  BY <1>1 DEF RowsBelong, Exclusive, SeenOK, Working
<1> QED
  BY <1>5, <1>6, <1>7 DEF IInv

LEMMA StepKeeps == IInv /\ [Next]_vars => IInv'
<1> SUFFICES ASSUME IInv, [Next]_vars PROVE IInv'
  OBVIOUS
<1>1. ASSUME NEW s \in Syncs,
             StartSync(s) \/ AcquireTraffic(s) \/ SyncStep(s) \/ SyncDies(s)
      PROVE  IInv'
  BY <1>1, StartSyncKeeps, AcquireTrafficKeeps, ReadConfigKeeps, ReadRowsKeeps,
     QueryStatsKeeps, QueryFailsKeeps, LoadTrafficKeeps, SaveTrafficKeeps, SyncDiesKeeps
     DEF SyncStep
<1>2. CASE BeginCommand
  BY <1>2, BeginCommandKeeps
<1>3. CASE CommandStep
  <2>1. CASE StopXray \/ XrayStopped \/ StartXray \/ CommitCommand
    BY <2>1, StopXrayKeeps, XrayStoppedKeeps, StartXrayKeeps, CommitCommandKeeps
  <2>2. CASE StartFails \/ CommitFails
    BY <2>2, AtWork, RollBackKeeps DEF StartFails, CommitFails
  <2> QED
    BY <1>3, <2>1, <2>2 DEF CommandStep
<1>4. CASE StopTimeout
  BY <1>4, AtWork, RollBackKeeps DEF StopTimeout
<1>5. CASE CommandDies
  BY <1>5, CommandDiesKeeps
<1>6. ASSUME NEW c \in Clients, NEW x \in Conns, Carry(c, x) PROVE IInv'
  BY <1>6, CarryKeeps
<1>7. CASE KillXray \/ XrayExits \/ XrayStarts
  BY <1>7, KillXrayKeeps, XrayExitsKeeps, XrayStartsKeeps
<1>8. CASE UNCHANGED vars
  <2>1. UNCHANGED <<lock, pc, seen, db, agg, cred, readIn>>
        /\ UNCHANGED <<command, config, xray, carried, reborn, moved, undone>>
    BY <1>8 DEF vars
  <2> QED
    BY <2>1, UnitMovesKeep DEF IInv, Types, CommandOK, UnitOK
<1> QED
  BY <1>1, <1>2, <1>3, <1>4, <1>5, <1>6, <1>7, <1>8 DEF Next

LEMMA Inductive == Spec => []IInv
  BY InitHolds, StepKeeps, PTL DEF Spec

\* Every reachable state is well typed: totals, histories and last values stay
\* natural numbers whatever counters Xray reports and whichever rows have been
\* deleted meanwhile (commands/traffic_sync.py, traffic/repository.py).
THEOREM TypeCorrect == Spec => []TypeOK
<1>1. IInv => TypeOK
  BY InvSuffices
<1> QED
  BY <1>1, Inductive, PTL

\* The history of every row adds up to its total, and the connections of a client to
\* no more than the client: save_traffic writes totals that were computed before
\* it, but under traffic.lock, and ON DELETE CASCADE takes a row as a whole.
THEOREM HistoryAddsUp == Spec => []TotalsAddUp
<1>1. IInv => TotalsAddUp
  BY InvSuffices
<1> QED
  BY <1>1, Inductive, PTL

-----------------------------------------------------------------------------
(***************************************************************************)
(* Nothing is counted twice.  That totals stay below what was carried is   *)
(* not inductive: it is the last values that keep a sync from counting the *)
(* same bytes again.  For one client, counted[x] is how much of the        *)
(* present counter of x the total already has: the last value, if it was   *)
(* read in this run of Xray, nothing for an older one.  A credential with  *)
(* no row may be partly counted too; its first row counts nothing.         *)
(***************************************************************************)
Bytes(f) == SumFunctionOnSet(f, Conns)

Counted(total, rows, reads, cap, counter, bytes, now) ==
  \E counted \in [Conns -> Nat] :
    /\ \A x \in Conns :
         /\ counted[x] <= cap[x]
         /\ rows[x] # NoRow => counted[x] = IF reads[x] = now THEN rows[x].last ELSE 0
    /\ total + Bytes(counter) <= bytes + Bytes(counted)

LEMMA BytesNat ==
  ASSUME NEW f \in [Conns -> Nat]
  PROVE  Bytes(f) \in Nat /\ \A x \in Conns : f[x] <= Bytes(f)
  BY ConnsAssumption, SumNat DEF Bytes

LEMMA BytesMonotonic ==
  ASSUME NEW f \in [Conns -> Nat], NEW g \in [Conns -> Nat], \A x \in Conns : f[x] <= g[x]
  PROVE  Bytes(f) <= Bytes(g)
<1>1. \A x \in Conns : f[x] \in Int /\ g[x] \in Int /\ f[x] <= g[x]
  OBVIOUS
<1> QED
  BY <1>1, ConnsAssumption, SumMonotonic DEF Bytes

LEMMA BytesPlus ==
  ASSUME NEW f \in [Conns -> Nat], NEW g \in [Conns -> Nat], NEW h \in [Conns -> Nat],
         \A x \in Conns : h[x] = f[x] + g[x]
  PROVE  Bytes(h) = Bytes(f) + Bytes(g)
<1>1. \A x \in Conns : f[x] \in Int /\ g[x] \in Int /\ h[x] = f[x] + g[x]
  OBVIOUS
<1> QED
  BY <1>1, ConnsAssumption, SumPlus DEF Bytes

LEMMA BytesZero == ASSUME NEW f, \A x \in Conns : f[x] = 0 PROVE Bytes(f) = 0
  BY ConnsAssumption, SumZero DEF Bytes

LEMMA BytesChange ==
  ASSUME NEW f, NEW g, NEW e \in Conns, \A x \in Conns : f[x] \in Int /\ g[x] \in Int,
         \A x \in Conns \ {e} : f[x] = g[x]
  PROVE  Bytes(g) = Bytes(f) + g[e] - f[e]
  BY ConnsAssumption, SumChange DEF Bytes

LEMMA BytesGrow ==
  ASSUME NEW f \in [Conns -> Nat], NEW e \in Conns,
         NEW g \in [Conns -> Nat], g = [f EXCEPT ![e] = f[e] + 1]
  PROVE  Bytes(g) = Bytes(f) + 1
<1>1. \A x \in Conns : f[x] \in Int /\ g[x] \in Int
  OBVIOUS
<1>2. \A x \in Conns \ {e} : f[x] = g[x]
  OBVIOUS
<1>3. Bytes(g) = Bytes(f) + g[e] - f[e]
  BY <1>1, <1>2, BytesChange
<1>4. Bytes(f) \in Nat /\ f[e] \in Nat /\ g[e] = f[e] + 1
  BY BytesNat
<1> QED
  BY <1>3, <1>4 DEF Bytes

\* The same bytes, rows that are gone or unchanged, and a cap no lower.
LEMMA CountedSame ==
  ASSUME NEW total, NEW rows, NEW reads, NEW cap, NEW counter, NEW bytes, NEW now,
         Counted(total, rows, reads, cap, counter, bytes, now),
         NEW rows2, NEW reads2, NEW cap2 \in [Conns -> Nat],
         \A x \in Conns : rows2[x] # NoRow => rows2[x] = rows[x] /\ reads2[x] = reads[x],
         cap \in [Conns -> Nat], \A x \in Conns : cap[x] <= cap2[x]
  PROVE  Counted(total, rows2, reads2, cap2, counter, bytes, now)
<1>1. PICK C \in [Conns -> Nat] :
        /\ \A x \in Conns :
             /\ C[x] <= cap[x]
             /\ rows[x] # NoRow => C[x] = IF reads[x] = now THEN rows[x].last ELSE 0
        /\ total + Bytes(counter) <= bytes + Bytes(C)
  BY DEF Counted
<1>2. \A x \in Conns :
        /\ C[x] <= cap2[x]
        /\ rows2[x] # NoRow => C[x] = IF reads2[x] = now THEN rows2[x].last ELSE 0
  BY <1>1
<1> QED
  BY <1>1, <1>2 DEF Counted

\* Xray carries one more byte.
LEMMA CountedCarry ==
  ASSUME NEW total \in Nat, NEW rows, NEW reads, NEW cap \in [Conns -> Nat],
         NEW counter \in [Conns -> Nat], NEW bytes \in Nat, NEW now,
         Counted(total, rows, reads, cap, counter, bytes, now),
         NEW e \in Conns, NEW counter2 \in [Conns -> Nat],
         counter2 = [counter EXCEPT ![e] = counter[e] + 1],
         NEW cap2 \in [Conns -> Nat], \A x \in Conns : cap[x] <= cap2[x]
  PROVE  Counted(total, rows, reads, cap2, counter2, bytes + 1, now)
<1>1. PICK C \in [Conns -> Nat] :
        /\ \A x \in Conns :
             /\ C[x] <= cap[x]
             /\ rows[x] # NoRow => C[x] = IF reads[x] = now THEN rows[x].last ELSE 0
        /\ total + Bytes(counter) <= bytes + Bytes(C)
  BY DEF Counted
<1>2. Bytes(counter2) = Bytes(counter) + 1 /\ Bytes(counter) \in Nat /\ Bytes(C) \in Nat
  BY BytesGrow, BytesNat
<1>3. total + Bytes(counter2) <= bytes + 1 + Bytes(C)
  BY <1>1, <1>2
<1>4. \A x \in Conns : C[x] <= cap2[x]
  <2>1. \A x \in Conns : C[x] <= cap[x]
    BY <1>1
  <2>2. \A x \in Conns : C[x] \in Nat /\ cap[x] \in Nat /\ cap2[x] \in Nat
    OBVIOUS
  <2> QED
    BY <2>1, <2>2
<1> QED
  BY <1>1, <1>3, <1>4 DEF Counted

\* What is counted was carried.
LEMMA CountedBound ==
  ASSUME NEW total \in Nat, NEW rows, NEW reads, NEW cap \in [Conns -> Nat],
         NEW counter \in [Conns -> Nat], NEW bytes \in Nat, NEW now,
         Counted(total, rows, reads, cap, counter, bytes, now),
         \A x \in Conns : cap[x] <= counter[x]
  PROVE  total <= bytes
<1>1. PICK C \in [Conns -> Nat] :
        /\ \A x \in Conns : C[x] <= cap[x]
        /\ total + Bytes(counter) <= bytes + Bytes(C)
  BY DEF Counted
<1>2. \A x \in Conns : C[x] <= counter[x]
  BY <1>1
<1>3. Bytes(C) <= Bytes(counter) /\ Bytes(C) \in Nat /\ Bytes(counter) \in Nat
  BY <1>2, BytesMonotonic, BytesNat
<1> QED
  BY <1>1, <1>3

\* A total that has none of the present counters.
LEMMA CountedAfresh ==
  ASSUME NEW total \in Nat, NEW rows, NEW reads, NEW cap \in [Conns -> Nat],
         NEW counter \in [Conns -> Nat], NEW bytes \in Nat, NEW now,
         total + Bytes(counter) <= bytes,
         \A x \in Conns : rows[x] # NoRow /\ reads[x] = now =>
                            rows[x].last \in Nat /\ rows[x].last <= cap[x]
  PROVE  Counted(total, rows, reads, cap, counter, bytes, now)
<1> DEFINE C == [x \in Conns |->
                   IF rows[x] # NoRow /\ reads[x] = now THEN rows[x].last ELSE 0]
<1>1. C \in [Conns -> Nat]
  OBVIOUS
<1>2. \A x \in Conns : /\ C[x] <= cap[x]
                       /\ rows[x] # NoRow => C[x] = IF reads[x] = now THEN rows[x].last ELSE 0
  OBVIOUS
<1> HIDE DEF C
<1>3. Bytes(C) \in Nat /\ Bytes(counter) \in Nat
  BY <1>1, BytesNat
<1>4. total + Bytes(counter) <= bytes + Bytes(C)
  BY <1>3
<1> QED
  BY <1>1, <1>2, <1>4 DEF Counted

-----------------------------------------------------------------------------
(***************************************************************************)
(* What holds of Xray and of the command whatever the traffic rows say:    *)
(* counters are bytes carried since the start by credentials Xray serves,  *)
(* and a client is deleted only once Xray has stopped serving it.          *)
(***************************************************************************)
\* The run whose counters can be asked for.
Now == IF Alive THEN xray.run ELSE Never

UnitInv ==
  /\ ~ Alive => xray.counter = Zero
  /\ \A c \in Clients, x \in Conns : xray.counter[c][x] > 0 => x \in xray.served[c]
  /\ \A c \in Clients : Bytes(xray.counter[c]) <= carried[c]
  /\ command.step = "stopped" => xray.state = "down"
  /\ command.step = "save" =>
       /\ ~ command.undo
       /\ command.kind = "apply" /\ Alive => xray.served = config.served

\* The command keeps a client's credentials, deletes the client or moves it.
CommandInv ==
  command # NoCommand =>
    \A c \in Clients :
      \/ db.known[c] \subseteq command.db.known[c]
      \/ /\ command.kind = "apply" /\ command.db.known[c] = {}
         /\ ~ command.undo => config.served[c] = {}
      \/ command.db.known[c] # {} /\ db.known[c] \intersect command.db.known[c] = {}

\* A last value read in this run of Xray is one its counter has passed.
LastOK(rows, reads, c) ==
  \A x \in Conns :
    /\ reads[x] <= xray.run
    /\ rows[x] # NoRow /\ reads[x] = Now => rows[x].last <= xray.counter[c][x]

ReadInv ==
  /\ \A c \in Clients : LastOK(cred[c], readIn[c], c)
  /\ \A s \in Syncs :
       /\ pc[s] = "load" =>
            /\ seen[s].run <= xray.run
            /\ seen[s].run = Now =>
                 \A c \in Clients, x \in Conns : seen[s].stats[c][x] <= xray.counter[c][x]
       /\ pc[s] = "save" => \A c \in Clients : LastOK(seen[s].cred[c], seen[s].read[c], c)

LEMMA UnitTypes ==
  ASSUME IInv
  PROVE  /\ xray.run \in Nat
         /\ xray.counter \in Counters
         /\ \A c \in Clients : /\ xray.counter[c] \in [Conns -> Nat]
                               /\ carried[c] \in Nat
                               /\ xray.served[c] \subseteq Conns
         /\ Now \in Nat \union {Never}
<1>1. /\ xray.run \in Nat /\ xray.counter \in Counters /\ xray.served \in Served
      /\ carried \in [Clients -> Nat] /\ MaxBytes \in Nat
  BY SyncsAssumption DEF IInv, Types, UnitOK
<1>2. \A c \in Clients : xray.counter[c] \in [Conns -> Nat]
  <2>1. ASSUME NEW c \in Clients PROVE xray.counter[c] \in [Conns -> Nat]
    <3>1. xray.counter[c] \in [Conns -> 0..MaxBytes]
      BY <1>1 DEF Counters
    <3>2. 0..MaxBytes \subseteq Nat
      BY <1>1
    <3> QED
      BY <3>1, <3>2
  <2> QED
    BY <2>1
<1> QED
  BY <1>1, <1>2 DEF Now, Served

LEMMA UnitTypesNext ==
  ASSUME IInv'
  PROVE  xray'.run \in Nat /\ \A c \in Clients : xray'.counter[c] \in [Conns -> Nat]
<1>1. xray'.run \in Nat /\ xray'.counter \in Counters /\ MaxBytes \in Nat
  BY SyncsAssumption DEF IInv, Types, UnitOK
<1>2. 0..MaxBytes \subseteq Nat
  BY <1>1
<1>3. ASSUME NEW c \in Clients PROVE xray'.counter[c] \in [Conns -> Nat]
  <2>1. xray'.counter[c] \in [Conns -> 0..MaxBytes]
    BY <1>1 DEF Counters
  <2> QED
    BY <1>2, <2>1
<1> QED
  BY <1>1, <1>3

\* Xray carries nothing for a client that is being deleted.
LEMMA DeletedIdle ==
  ASSUME IInv, UnitInv, CommandInv, command.step = "save", NEW c \in Deleted
  PROVE  \A x \in Conns : xray.counter[c][x] = 0
<1>1. c \in Clients /\ db.known[c] # {} /\ command.db.known[c] = {}
  BY DEF Deleted
<1>2. command # NoCommand /\ ~ command.undo
  BY AtWork DEF UnitInv
<1>3. command.kind = "apply" /\ config.served[c] = {}
  BY <1>1, <1>2 DEF CommandInv
<1>4. CASE Alive
  <2>1. xray.served[c] = {}
    BY <1>3, <1>4 DEF UnitInv
  <2>2. \A x \in Conns : ~ xray.counter[c][x] > 0
    BY <1>1, <2>1 DEF UnitInv
  <2>3. \A x \in Conns : xray.counter[c][x] \in Nat
    BY <1>1, UnitTypes
  <2> QED
    BY <2>2, <2>3
<1>5. CASE ~ Alive
  BY <1>1, <1>5 DEF UnitInv, Zero
<1> QED
  BY <1>4, <1>5

LEMMA UnitKept ==
  ASSUME UnitInv, UNCHANGED <<xray, carried>>,
         command'.step = "stopped" => xray.state = "down",
         command'.step = "save" =>
           /\ ~ command'.undo
           /\ command'.kind = "apply" /\ Alive => xray.served = config'.served
  PROVE  UnitInv'
  BY DEF UnitInv, Alive

LEMMA CommandGone == ASSUME command' = NoCommand PROVE CommandInv'
  BY DEF CommandInv

LEMMA BeginCommandUnit ==
  ASSUME IInv, UnitInv, BeginCommand PROVE UnitInv' /\ CommandInv'
<1>1. config \in Configs /\ db \in Stores
  BY DEF IInv, Types
<1>2. PICK r \in Commands : \E k \in Candidates(r, config, db) :
        /\ command' = [step |-> IF k.kind = "apply" THEN "written" ELSE "save",
                       undo |-> FALSE, kind |-> k.kind, db |-> k.db, oldCfg |-> config]
        /\ config' = k.cfg
  BY DEF BeginCommand
<1>3. PICK k \in Candidates(r, config, db) :
        /\ command' = [step |-> IF k.kind = "apply" THEN "written" ELSE "save",
                       undo |-> FALSE, kind |-> k.kind, db |-> k.db, oldCfg |-> config]
        /\ config' = k.cfg
  BY <1>2
<1>4. KnownStep(k, config, db)
  BY <1>1, ConnsAssumption, CandidatesKnown DEF Commands
<1>5. UNCHANGED <<xray, carried, db>>
  BY DEF BeginCommand, history
<1>6. UnitInv'
  BY <1>3, <1>5, UnitKept
<1>7. CommandInv'
  BY <1>3, <1>4, <1>5 DEF KnownStep, CommandInv
<1> QED
  BY <1>6, <1>7

LEMMA RollBackUnit ==
  ASSUME IInv, UnitInv, CommandInv, command # NoCommand, RollBack, UNCHANGED <<xray, carried, db>>
  PROVE  UnitInv' /\ CommandInv'
<1>1. CASE command' = NoCommand
  BY <1>1, UnitKept, CommandGone DEF NoCommand
<1>2. CASE command' # NoCommand
  <2>1. command' = [command EXCEPT !.step = "written", !.undo = TRUE]
    BY <1>2 DEF RollBack
  <2>2. command \in [step : {"written", "stopping", "stopped", "save"}, undo : BOOLEAN,
                     kind : Kinds, db : Stores, oldCfg : Configs]
    BY DEF IInv, Types, CommandOK
  <2>3. /\ command'.step = "written" /\ command'.undo = TRUE
        /\ command'.kind = command.kind /\ command'.db = command.db
    BY <2>1, <2>2
  <2> QED
    BY <2>3, UnitKept DEF CommandInv
<1> QED
  BY <1>1, <1>2

\* The command goes on to its next step.
LEMMA CommandOn ==
  ASSUME IInv, CommandInv, command # NoCommand, NEW step,
         command' = [command EXCEPT !.step = step], UNCHANGED <<config, db>>
  PROVE  /\ CommandInv'
         /\ command'.step = step /\ command'.undo = command.undo
         /\ command'.kind = command.kind
<1>1. command \in [step : {"written", "stopping", "stopped", "save"}, undo : BOOLEAN,
                   kind : Kinds, db : Stores, oldCfg : Configs]
  BY DEF IInv, Types, CommandOK
<1>2. /\ command'.step = step /\ command'.undo = command.undo
      /\ command'.kind = command.kind /\ command'.db = command.db
  BY <1>1
<1> QED
  BY <1>2 DEF CommandInv

LEMMA StopXrayUnit ==
  ASSUME IInv, UnitInv, CommandInv, StopXray
  PROVE  UnitInv' /\ CommandInv' /\ Now' = Now /\ xray'.counter = xray.counter
         /\ xray'.run = xray.run
<1>1. /\ command # NoCommand /\ command' = [command EXCEPT !.step = "stopping"]
      /\ UNCHANGED <<config, db, carried>>
  BY AtWork DEF StopXray, stores, history
<1>2. CommandInv' /\ command'.step = "stopping"
  BY <1>1, CommandOn
<1>3. /\ xray'.counter = xray.counter /\ xray'.run = xray.run /\ xray'.served = xray.served
      /\ Alive' = Alive
  BY DEF StopXray, Alive, IInv, Types, UnitOK
<1> QED
  BY <1>1, <1>2, <1>3 DEF UnitInv, Now

LEMMA XrayStoppedUnit ==
  ASSUME IInv, UnitInv, CommandInv, XrayStopped PROVE UnitInv' /\ CommandInv'
<1>1. /\ command # NoCommand /\ command' = [command EXCEPT !.step = "stopped"]
      /\ UNCHANGED <<config, db, carried, xray>> /\ xray.state = "down"
  BY AtWork DEF XrayStopped, stores, history
<1>2. CommandInv' /\ command'.step = "stopped"
  BY <1>1, CommandOn
<1> QED
  BY <1>1, <1>2, UnitKept

\* Xray starts from nothing.
LEMMA StartedUnit ==
  ASSUME IInv, UnitInv, ~ Alive, xray' = Started
  PROVE  /\ xray'.counter = xray.counter /\ xray.counter = Zero
         /\ xray'.run = xray.run + 1 /\ Now' = xray.run + 1 /\ Now = Never
         /\ xray'.served = config.served /\ xray'.state = "up"
<1>1. xray' = [state |-> "up", served |-> config.served, counter |-> xray.counter,
               run |-> xray.run + 1]
  BY DEF Started, IInv, Types, UnitOK
<1> QED
  BY <1>1 DEF UnitInv, Now, Alive

LEMMA StartXrayUnit ==
  ASSUME IInv, UnitInv, CommandInv, StartXray PROVE UnitInv' /\ CommandInv' /\ ~ Alive
<1>1. ~ Alive /\ command # NoCommand
  BY AtWork DEF StartXray, UnitInv, Alive
<1>2. /\ xray'.counter = xray.counter /\ xray.counter = Zero
      /\ xray'.served = config.served /\ xray'.state = "up"
  BY <1>1, StartedUnit DEF StartXray
<1>3. UNCHANGED <<config, db, carried>>
  BY DEF StartXray, stores, history
<1>4. /\ CommandInv'
      /\ command'.step = "idle" \/ (command'.step = "save" /\ ~ command'.undo)
  <2>1. CASE command.undo
    BY <2>1, CommandGone DEF StartXray, NoCommand
  <2>2. CASE ~ command.undo
    <3>1. command' = [command EXCEPT !.step = "save"]
      BY <2>2 DEF StartXray
    <3> QED
      BY <1>1, <1>3, <2>2, <3>1, CommandOn
  <2> QED
    BY <2>1, <2>2
<1>5. /\ \A c \in Clients, x \in Conns : ~ xray'.counter[c][x] > 0
      /\ \A c \in Clients : Bytes(xray'.counter[c]) <= carried'[c]
  BY <1>2, <1>3 DEF Zero, UnitInv
<1>6. Alive'
  BY <1>2 DEF Alive
<1> QED
  BY <1>1, <1>2, <1>3, <1>4, <1>5, <1>6 DEF UnitInv

LEMMA XrayStartsUnit ==
  ASSUME IInv, UnitInv, CommandInv, XrayStarts PROVE UnitInv' /\ CommandInv' /\ ~ Alive
<1>1. ~ Alive /\ command.step # "stopped"
  BY DEF XrayStarts, UnitInv, Alive
<1>2. /\ xray'.counter = xray.counter /\ xray.counter = Zero
      /\ xray'.served = config.served /\ xray'.state = "up"
  BY <1>1, StartedUnit DEF XrayStarts
<1>3. UNCHANGED <<config, db, carried, command>>
  BY DEF XrayStarts, stores, history
<1>5. /\ \A c \in Clients, x \in Conns : ~ xray'.counter[c][x] > 0
      /\ \A c \in Clients : Bytes(xray'.counter[c]) <= carried'[c]
  BY <1>2, <1>3 DEF Zero, UnitInv
<1>6. Alive'
  BY <1>2 DEF Alive
<1> QED
  BY <1>1, <1>2, <1>3, <1>5, <1>6 DEF UnitInv, CommandInv

\* Xray stops, in whichever way.
LEMMA StoppedUnit ==
  ASSUME IInv, UnitInv, CommandInv, UNCHANGED <<config, db, carried, command>>,
         xray'.counter = Zero, xray'.state \in {"down", "exited"},
         command.step = "stopped" => xray'.state = "down"
  PROVE  UnitInv' /\ CommandInv' /\ Now' = Never
<1>1. ~ Alive'
  BY DEF Alive
<1>2. \A c \in Clients, x \in Conns : ~ xray'.counter[c][x] > 0
  BY DEF Zero
<1>3. \A c \in Clients : Bytes(xray'.counter[c]) <= carried'[c]
  <2>1. ASSUME NEW c \in Clients PROVE Bytes(xray'.counter[c]) <= carried'[c]
    <3>1. \A x \in Conns : xray'.counter[c][x] = 0
      BY DEF Zero
    <3>2. Bytes(xray'.counter[c]) = 0
      BY <3>1, BytesZero
    <3> QED
      BY <3>2, UnitTypes
  <2> QED
    BY <2>1
<1> QED
  BY <1>1, <1>2, <1>3 DEF UnitInv, CommandInv, Now

LEMMA KillXrayUnit ==
  ASSUME IInv, UnitInv, CommandInv, KillXray
  PROVE  UnitInv' /\ CommandInv' /\ Now' = Never /\ xray'.counter = Zero /\ xray'.run = xray.run
<1>1. xray'.counter = Zero /\ xray'.state = "down" /\ xray'.run = xray.run
  BY DEF KillXray, IInv, Types, UnitOK
<1>2. UNCHANGED <<config, db, carried, command>>
  BY DEF KillXray, stores, history
<1> QED
  BY <1>1, <1>2, StoppedUnit

LEMMA XrayExitsUnit ==
  ASSUME IInv, UnitInv, CommandInv, XrayExits
  PROVE  UnitInv' /\ CommandInv' /\ Now' = Never /\ xray'.counter = Zero /\ xray'.run = xray.run
<1>1. xray'.counter = Zero /\ xray'.state = "exited" /\ xray'.run = xray.run
  BY DEF XrayExits, IInv, Types, UnitOK
<1>2. UNCHANGED <<config, db, carried, command>> /\ command.step # "stopped"
  BY DEF XrayExits, stores, UnitInv
<1> QED
  BY <1>1, <1>2, StoppedUnit

LEMMA CommitCommandUnit ==
  ASSUME IInv, UnitInv, CommandInv, CommitCommand PROVE UnitInv' /\ CommandInv'
<1>1. /\ command.step = "save" /\ command' = NoCommand /\ UNCHANGED <<xray, config>>
      /\ carried' = [c \in Clients |-> IF c \in Deleted THEN 0 ELSE carried[c]]
  BY DEF CommitCommand
<1>2. \A c \in Clients : Bytes(xray'.counter[c]) <= carried'[c]
  <2>1. ASSUME NEW c \in Clients PROVE Bytes(xray'.counter[c]) <= carried'[c]
    <3>1. CASE c \in Deleted
      BY <1>1, <3>1, DeletedIdle, BytesZero
    <3>2. CASE c \notin Deleted
      BY <1>1, <3>2 DEF UnitInv
    <3> QED
      BY <3>1, <3>2
  <2> QED
    BY <2>1
<1>3. CommandInv'
  BY <1>1, CommandGone
<1> QED
  BY <1>1, <1>2, <1>3 DEF UnitInv, Alive, NoCommand

LEMMA CarryUnit ==
  ASSUME IInv, UnitInv, CommandInv, NEW c \in Clients, NEW x \in Conns, Carry(c, x)
  PROVE  /\ UnitInv' /\ CommandInv' /\ Now' = Now /\ xray'.run = xray.run
         /\ carried' = [carried EXCEPT ![c] = carried[c] + 1]
         /\ xray'.counter[c] = [xray.counter[c] EXCEPT ![x] = xray.counter[c][x] + 1]
         /\ \A b \in Clients \ {c} : xray'.counter[b] = xray.counter[b]
         /\ \A b \in Clients, y \in Conns : xray.counter[b][y] <= xray'.counter[b][y]
<1>1. /\ xray' = [xray EXCEPT !.counter[c][x] = xray.counter[c][x] + 1]
      /\ carried' = [carried EXCEPT ![c] = carried[c] + 1]
      /\ UNCHANGED <<config, db, command>> /\ x \in xray.served[c]
  BY DEF Carry, stores
<1>2. /\ xray \in [state : UnitStates, served : Served, counter : Counters, run : Nat]
      /\ carried \in [Clients -> Nat]
      /\ \A b \in Clients : xray.counter[b] \in [Conns -> Nat]
  BY UnitTypes DEF IInv, Types, UnitOK
<1>3. /\ xray'.state = xray.state /\ xray'.run = xray.run /\ xray'.served = xray.served
      /\ xray'.counter = [xray.counter EXCEPT ![c] =
                            [xray.counter[c] EXCEPT ![x] = xray.counter[c][x] + 1]]
  BY <1>1, <1>2
<1>4. /\ xray'.counter[c] = [xray.counter[c] EXCEPT ![x] = xray.counter[c][x] + 1]
      /\ \A b \in Clients \ {c} : xray'.counter[b] = xray.counter[b]
  BY <1>2, <1>3 DEF Counters
<1>5. \A b \in Clients, y \in Conns : xray.counter[b][y] <= xray'.counter[b][y]
  BY <1>2, <1>4
<1>6. Now' = Now /\ Alive' = Alive /\ Alive
  BY <1>3 DEF Now, Alive, Carry
<1>7. ASSUME NEW b \in Clients, NEW y \in Conns, xray'.counter[b][y] > 0
      PROVE  y \in xray'.served[b]
  <2>1. CASE b = c /\ y = x
    BY <1>1, <1>3, <2>1
  <2>2. CASE ~ (b = c /\ y = x)
    <3>1. xray'.counter[b][y] = xray.counter[b][y]
      BY <1>2, <1>4, <2>2
    <3> QED
      BY <1>3, <1>7, <3>1 DEF UnitInv
  <2> QED
    BY <2>1, <2>2
<1>8. ASSUME NEW b \in Clients PROVE Bytes(xray'.counter[b]) <= carried'[b]
  <2>1. Bytes(xray.counter[b]) <= carried[b] /\ Bytes(xray.counter[b]) \in Nat
    BY <1>2, BytesNat DEF UnitInv
  <2>2. CASE b = c
    <3> DEFINE f == xray.counter[c]
               g == xray'.counter[c]
    <3>1. f \in [Conns -> Nat] /\ g \in [Conns -> Nat] /\ g = [f EXCEPT ![x] = f[x] + 1]
      <4>1. f \in [Conns -> Nat] /\ g = [f EXCEPT ![x] = f[x] + 1]
        BY <1>2, <1>4
      <4> HIDE DEF f, g
      <4> QED
        BY <4>1
    <3> HIDE DEF f, g
    <3>2. Bytes(g) = Bytes(f) + 1
      BY <3>1, BytesGrow
    <3>3. carried'[c] = carried[c] + 1 /\ carried[c] \in Nat
      BY <1>1, <1>2
    <3> QED
      BY <2>1, <2>2, <3>2, <3>3 DEF f, g
  <2>3. CASE b # c
    BY <1>1, <1>2, <1>4, <2>1, <2>3
  <2> QED
    BY <2>2, <2>3
<1> QED
  BY <1>1, <1>3, <1>4, <1>5, <1>6, <1>7, <1>8 DEF UnitInv, CommandInv

-----------------------------------------------------------------------------
(***************************************************************************)
(* Last values and the runs they were read in.                             *)
(***************************************************************************)
\* Counters that may still be compared with a last value have not gone back.
Onward ==
  /\ xray.run <= xray'.run
  /\ Now' = Now \/ Now' = Never \/ Now' > xray.run
  /\ Now' = Now => \A c \in Clients, x \in Conns : xray.counter[c][x] <= xray'.counter[c][x]

\* Rows and reads are as they were where there is still a row.
LEMMA LastKept ==
  ASSUME IInv, IInv', Onward, NEW c \in Clients,
         NEW rows \in [Conns -> Rows], NEW reads \in [Conns -> Nat], LastOK(rows, reads, c),
         \A x \in Conns : rows[x] = NoRow \/ rows[x].last \in Nat,
         NEW rows2 \in [Conns -> Rows], NEW reads2 \in [Conns -> Nat],
         \A x \in Conns : /\ reads2[x] <= reads[x]
                          /\ rows2[x] # NoRow => rows2[x] = rows[x] /\ reads2[x] = reads[x]
  PROVE  /\ \A x \in Conns : reads2[x] <= xray'.run
         /\ \A x \in Conns : rows2[x] # NoRow /\ reads2[x] = Now' =>
                               rows2[x].last <= xray'.counter[c][x]
<1>1. /\ xray.run \in Nat /\ Now \in Nat \union {Never}
      /\ xray.counter[c] \in [Conns -> Nat]
  BY UnitTypes
<1>2. xray'.run \in Nat /\ xray'.counter[c] \in [Conns -> Nat]
  BY UnitTypesNext
<1>3. ASSUME NEW x \in Conns PROVE reads2[x] <= xray'.run
  <2>1. reads2[x] <= reads[x] /\ reads[x] <= xray.run /\ xray.run <= xray'.run
    BY DEF LastOK, Onward
  <2>2. reads2[x] \in Nat /\ reads[x] \in Nat
    OBVIOUS
  <2> QED
    BY <1>1, <1>2, <2>1, <2>2
<1>4. ASSUME NEW x \in Conns, rows2[x] # NoRow, reads2[x] = Now'
      PROVE  rows2[x].last <= xray'.counter[c][x]
  <2>1. rows2[x] = rows[x] /\ reads[x] = Now' /\ reads[x] <= xray.run /\ reads[x] \in Nat
    BY <1>4 DEF LastOK
  <2>2. Now' = Now
    BY <1>1, <2>1 DEF Onward, Never
  <2>3. /\ rows[x].last <= xray.counter[c][x] /\ xray.counter[c][x] <= xray'.counter[c][x]
        /\ rows[x].last \in Nat
    BY <1>4, <2>1, <2>2 DEF LastOK, Onward
  <2>4. xray.counter[c][x] \in Nat /\ xray'.counter[c][x] \in Nat
    BY <1>1, <1>2
  <2> QED
    BY <2>1, <2>3, <2>4
<1> QED
  BY <1>3, <1>4

\* A sync at these steps has done nothing.
SeenStays ==
  \A t \in Syncs : pc'[t] \in {"load", "save"} => pc'[t] = pc[t] /\ seen'[t] = seen[t]

RowsStay ==
  \A c \in Clients, x \in Conns :
    /\ readIn'[c][x] <= readIn[c][x]
    /\ cred'[c][x] # NoRow => cred'[c][x] = cred[c][x] /\ readIn'[c][x] = readIn[c][x]

LEMMA RowTypes ==
  ASSUME IInv, NEW c \in Clients
  PROVE  /\ cred[c] \in [Conns -> Rows] /\ readIn[c] \in [Conns -> Nat]
         /\ \A x \in Conns : cred[c][x] = NoRow \/ cred[c][x].last \in Nat
         /\ agg[c] \in Rows /\ agg[c].total \in Nat
         /\ \A s \in Syncs : pc[s] = "save" =>
              /\ seen[s].cred[c] \in [Conns -> Rows] /\ seen[s].read[c] \in [Conns -> Nat]
              /\ \A x \in Conns : seen[s].cred[c][x] = NoRow \/ seen[s].cred[c][x].last \in Nat
              /\ seen[s].agg[c] \in Rows /\ seen[s].agg[c].total \in Nat
<1>1. /\ cred[c] \in [Conns -> Rows] /\ readIn[c] \in [Conns -> Nat] /\ agg[c] \in Rows
      /\ \A x \in Conns : GoodRow(cred[c][x])
  BY DEF IInv, RowsOK
<1>2. ASSUME NEW s \in Syncs, pc[s] = "save"
      PROVE  /\ seen[s].cred[c] \in [Conns -> Rows] /\ seen[s].read[c] \in [Conns -> Nat]
             /\ \A x \in Conns : GoodRow(seen[s].cred[c][x])
             /\ seen[s].agg[c] \in Rows
  <2>1. OutcomeOK(seen[s])
    BY <1>2 DEF IInv, SeenOK
  <2> QED
    BY <2>1 DEF OutcomeOK, GrownFrom
<1> QED
  BY <1>1, <1>2 DEF GoodRow, Rows

LEMMA RowTypesNext ==
  ASSUME IInv', NEW c \in Clients
  PROVE  cred'[c] \in [Conns -> Rows] /\ readIn'[c] \in [Conns -> Nat]
  BY DEF IInv, RowsOK

LEMMA ReadKept ==
  ASSUME IInv, IInv', ReadInv, Onward, RowsStay, SeenStays
  PROVE  ReadInv'
<1>1. ASSUME NEW c \in Clients PROVE LastOK(cred[c], readIn[c], c)'
  <2>1. LastOK(cred[c], readIn[c], c)
    BY DEF ReadInv
  <2>2. \A x \in Conns :
          /\ readIn'[c][x] <= readIn[c][x]
          /\ cred'[c][x] # NoRow => cred'[c][x] = cred[c][x] /\ readIn'[c][x] = readIn[c][x]
    BY DEF RowsStay
  <2>3. /\ \A x \in Conns : readIn'[c][x] <= xray'.run
        /\ \A x \in Conns : cred'[c][x] # NoRow /\ readIn'[c][x] = Now' =>
                              cred'[c][x].last <= xray'.counter[c][x]
    BY <2>1, <2>2, RowTypes, RowTypesNext, LastKept
  <2> QED
    BY <2>3 DEF LastOK
<1>2. ASSUME NEW s \in Syncs, pc'[s] = "load"
      PROVE  /\ seen'[s].run <= xray'.run
             /\ seen'[s].run = Now' =>
                  \A c \in Clients, x \in Conns : seen'[s].stats[c][x] <= xray'.counter[c][x]
  <2>1. pc[s] = "load" /\ seen'[s] = seen[s]
    BY <1>2 DEF SeenStays
  <2>2. /\ seen[s].run <= xray.run
        /\ seen[s].run = Now =>
             \A c \in Clients, x \in Conns : seen[s].stats[c][x] <= xray.counter[c][x]
    BY <2>1 DEF ReadInv
  <2>3. /\ seen[s].run \in Nat /\ seen[s].stats \in Counters /\ MaxBytes \in Nat
        /\ xray.run \in Nat /\ xray'.run \in Nat /\ Now \in Nat \union {Never}
    BY <2>1, UnitTypes, UnitTypesNext, SyncsAssumption DEF IInv, SeenOK
  <2>4. seen[s].run <= xray'.run
    BY <2>2, <2>3 DEF Onward
  <2>5. ASSUME seen[s].run = Now', NEW c \in Clients, NEW x \in Conns
        PROVE  seen[s].stats[c][x] <= xray'.counter[c][x]
    <3>1. Now' = Now
      BY <2>2, <2>3, <2>5 DEF Onward, Never
    <3>2. /\ seen[s].stats[c][x] <= xray.counter[c][x]
          /\ xray.counter[c][x] <= xray'.counter[c][x]
      BY <2>2, <2>5, <3>1 DEF Onward
    <3>3. seen[s].stats[c][x] \in Nat
      BY <2>3 DEF Counters
    <3>4. xray.counter[c][x] \in Nat /\ xray'.counter[c][x] \in Nat
      BY UnitTypes, UnitTypesNext
    <3> QED
      BY <3>2, <3>3, <3>4
  <2> QED
    BY <2>1, <2>4, <2>5
<1>3. ASSUME NEW s \in Syncs, pc'[s] = "save", NEW c \in Clients
      PROVE  LastOK(seen[s].cred[c], seen[s].read[c], c)'
  <2>1. pc[s] = "save" /\ seen'[s] = seen[s]
    BY <1>3 DEF SeenStays
  <2> DEFINE rows == seen[s].cred[c]
             reads == seen[s].read[c]
  <2>2. LastOK(rows, reads, c)
    BY <2>1 DEF ReadInv
  <2>3. /\ rows \in [Conns -> Rows] /\ reads \in [Conns -> Nat]
        /\ \A x \in Conns : rows[x] = NoRow \/ rows[x].last \in Nat
    BY <2>1, RowTypes
  <2>4. \A x \in Conns : reads[x] <= reads[x]
    <3> HIDE DEF reads
    <3> QED
      BY <2>3
  <2>5. /\ \A x \in Conns : reads[x] <= xray'.run
        /\ \A x \in Conns : rows[x] # NoRow /\ reads[x] = Now' =>
                              rows[x].last <= xray'.counter[c][x]
    <3> HIDE DEF rows, reads
    <3> QED
      BY <2>2, <2>3, <2>4, LastKept
  <2> QED
    BY <2>1, <2>5 DEF LastOK
<1> QED
  BY <1>1, <1>2, <1>3 DEF ReadInv

\* What a sync is going to write, field by field.
LEMMA OutcomeFields ==
  ASSUME IInv, NEW s \in Syncs, pc[s] = "load", NEW c \in Clients
  PROVE  /\ Outcome(s).agg[c].total = NewAgg(s, c).total
         /\ Outcome(s).agg[c] = NewAgg(s, c)
         /\ \A x \in Conns :
              /\ Outcome(s).cred[c][x] = NewCred(s, c, x)
              /\ Outcome(s).read[c][x] = IF x \in Known(s, c) THEN seen[s].run ELSE readIn[c][x]
<1>1. GoodRow(NewAgg(s, c))
  BY AggOutcome DEF IInv, GrownFrom
<1>2. Outcome(s).agg[c] = [NewAgg(s, c) EXCEPT !.hist = NewAgg(s, c).hist + Gap(NewAgg(s, c), c)]
  BY DEF Outcome
<1>3. Gap(NewAgg(s, c), c) = 0
  BY <1>1 DEF Gap, GoodRow, Rows
<1>4. Outcome(s).agg[c] = NewAgg(s, c)
  BY <1>1, <1>2, <1>3 DEF GoodRow, Rows
<1>5. \A x \in Conns :
        /\ Outcome(s).cred[c][x] = NewCred(s, c, x)
        /\ Outcome(s).read[c][x] = IF x \in Known(s, c) THEN seen[s].run ELSE readIn[c][x]
  BY DEF Outcome
<1> QED
  BY <1>4, <1>5

\* The new last value of a credential is the counter that was seen.
LEMMA NewLast ==
  ASSUME IInv, NEW s \in Syncs, pc[s] = "load", NEW c \in Clients, NEW x \in Conns
  PROVE  /\ x \in Known(s, c) =>
              NewCred(s, c, x) # NoRow /\ NewCred(s, c, x).last = seen[s].stats[c][x]
         /\ x \notin Known(s, c) => NewCred(s, c, x) = cred[c][x] /\ Gain(s, c, x) = 0
         /\ seen[s].stats[c][x] \in Nat
<1>1. seen[s].stats[c][x] \in Nat
  <2>1. seen[s].stats \in Counters /\ MaxBytes \in Nat
    BY SyncsAssumption DEF IInv, SeenOK
  <2> QED
    BY <2>1 DEF Counters
<1>2. ASSUME x \in Known(s, c)
      PROVE  NewCred(s, c, x).last = seen[s].stats[c][x]
  BY <1>2 DEF NewCred, Grown
<1>3. x \in Known(s, c) => NewCred(s, c, x) # NoRow
  BY <1>1, <1>2 DEF NoRow, Never
<1>4. x \notin Known(s, c) => NewCred(s, c, x) = cred[c][x] /\ Gain(s, c, x) = 0
  BY DEF NewCred, Gain
<1> QED
  BY <1>1, <1>2, <1>3, <1>4

\* The rows a save leaves.
LEMMA SavedRows ==
  ASSUME IInv, NEW s \in Syncs, SaveTraffic(s), NEW c \in Clients
  PROVE  /\ agg'[c] = IF db.known[c] # {} /\ seen[s].agg[c] # NoRow
                        THEN seen[s].agg[c] ELSE agg[c]
         /\ \A x \in Conns :
              /\ cred'[c][x] = IF Writable(c, x, seen[s].cred[c][x])
                                 THEN seen[s].cred[c][x] ELSE cred[c][x]
              /\ readIn'[c][x] = IF Writable(c, x, seen[s].cred[c][x])
                                   THEN seen[s].read[c][x] ELSE readIn[c][x]
<1>1. OutcomeOK(seen[s])
  BY DEF IInv, SeenOK, SaveTraffic
<1>2. agg'[c] = IF db.known[c] # {} /\ seen[s].agg[c] # NoRow
                  THEN seen[s].agg[c] ELSE agg[c]
  <2>1. agg'[c] = IF db.known[c] # {} /\ seen[s].agg[c] # NoRow
                    THEN Written(agg[c], seen[s].agg[c], seen[s].dAgg[c]) ELSE agg[c]
    BY DEF SaveTraffic
  <2>2. Written(agg[c], seen[s].agg[c], seen[s].dAgg[c]) = seen[s].agg[c]
    BY <1>1, WrittenIsNew DEF OutcomeOK
  <2> QED
    BY <2>1, <2>2
<1>3. ASSUME NEW x \in Conns
      PROVE  /\ cred'[c][x] = IF Writable(c, x, seen[s].cred[c][x])
                                THEN seen[s].cred[c][x] ELSE cred[c][x]
             /\ readIn'[c][x] = IF Writable(c, x, seen[s].cred[c][x])
                                  THEN seen[s].read[c][x] ELSE readIn[c][x]
  <2>1. /\ cred'[c][x] = IF Writable(c, x, seen[s].cred[c][x])
                           THEN Written(cred[c][x], seen[s].cred[c][x], seen[s].dCred[c][x])
                           ELSE cred[c][x]
        /\ readIn'[c][x] = IF Writable(c, x, seen[s].cred[c][x])
                             THEN seen[s].read[c][x] ELSE readIn[c][x]
    BY DEF SaveTraffic
  <2>2. Written(cred[c][x], seen[s].cred[c][x], seen[s].dCred[c][x]) = seen[s].cred[c][x]
    BY <1>1, WrittenIsNew DEF OutcomeOK
  <2> QED
    BY <2>1, <2>2
<1> QED
  BY <1>2, <1>3

\* Only the lock holder is past the start.
LEMMA Alone ==
  ASSUME IInv, NEW s \in Syncs, pc[s] \in Working, NEW t \in Syncs \ {s}
  PROVE  pc[t] \notin Working
  BY DEF IInv, Exclusive

LEMMA SyncUnit ==
  ASSUME IInv, UnitInv, CommandInv, ReadInv, NEW s \in Syncs,
         StartSync(s) \/ AcquireTraffic(s) \/ SyncStep(s) \/ SyncDies(s)
  PROVE  /\ UnitInv' /\ CommandInv'
         /\ UNCHANGED <<command, config, db, xray, carried, reborn, moved, undone>>
         /\ Now' = Now
<1>1. UNCHANGED <<command, config, db, xray, carried, reborn, moved, undone>>
  BY DEF StartSync, AcquireTraffic, SyncStep, ReadConfig, ReadRows, QueryStats, QueryFails,
         LoadTraffic, SaveTraffic, SyncDies, stores, history
<1> QED
  BY <1>1 DEF UnitInv, CommandInv, Alive, Now

LEMMA QueryStatsRead ==
  ASSUME IInv, UnitInv, ReadInv, NEW s \in Syncs, QueryStats(s) PROVE ReadInv'
<1>1. /\ UNCHANGED <<cred, readIn, xray>> /\ Alive
      /\ pc' = [pc EXCEPT ![s] = "load"]
      /\ seen' = [seen EXCEPT ![s] = [served |-> seen[s].served, known |-> seen[s].known,
                                      stats |-> xray.counter, run |-> xray.run]]
  BY DEF QueryStats, traffic, Goto
<1>2. /\ seen'[s].run = xray.run /\ seen'[s].stats = xray.counter /\ pc'[s] = "load"
      /\ \A t \in Syncs \ {s} : seen'[t] = seen[t] /\ pc'[t] = pc[t]
  BY <1>1 DEF IInv, Types
<1>3. xray.run <= xray.run /\ \A c \in Clients, x \in Conns : xray.counter[c][x] <= xray.counter[c][x]
  BY UnitTypes
<1>4. Now' = Now /\ \A c \in Clients : LastOK(cred[c], readIn[c], c)'
  BY <1>1 DEF ReadInv, LastOK, Now, Alive
<1>5. ASSUME NEW t \in Syncs
      PROVE /\ pc'[t] = "load" =>
                 /\ seen'[t].run <= xray'.run
                 /\ seen'[t].run = Now' =>
                      \A c \in Clients, x \in Conns : seen'[t].stats[c][x] <= xray'.counter[c][x]
            /\ pc'[t] = "save" => \A c \in Clients : LastOK(seen[t].cred[c], seen[t].read[c], c)'
  <2>1. CASE t = s
    BY <1>1, <1>2, <1>3, <2>1
  <2>2. CASE t # s
    BY <1>1, <1>2, <1>4, <2>2 DEF ReadInv, LastOK
  <2> QED
    BY <2>1, <2>2
<1> QED
  BY <1>4, <1>5 DEF ReadInv

LEMMA LoadTrafficRead ==
  ASSUME IInv, UnitInv, ReadInv, NEW s \in Syncs, LoadTraffic(s) PROVE ReadInv'
<1>1. /\ UNCHANGED <<cred, readIn, xray>> /\ pc[s] = "load"
      /\ pc' = [pc EXCEPT ![s] = "save"] /\ seen' = [seen EXCEPT ![s] = Outcome(s)]
  BY DEF LoadTraffic, traffic, Goto
<1>2. /\ seen'[s] = Outcome(s) /\ pc'[s] = "save"
      /\ \A t \in Syncs \ {s} : seen'[t] = seen[t] /\ pc'[t] = pc[t]
  BY <1>1 DEF IInv, Types
<1>3. /\ seen[s].run <= xray.run
      /\ seen[s].run = Now =>
           \A c \in Clients, x \in Conns : seen[s].stats[c][x] <= xray.counter[c][x]
  BY <1>1 DEF ReadInv
<1>4. Now' = Now /\ \A c \in Clients : LastOK(cred[c], readIn[c], c)'
  BY <1>1 DEF ReadInv, LastOK, Now, Alive
<1>5. ASSUME NEW c \in Clients PROVE LastOK(seen[s].cred[c], seen[s].read[c], c)'
  <2>1. ASSUME NEW x \in Conns
        PROVE  /\ Outcome(s).read[c][x] <= xray.run
               /\ Outcome(s).cred[c][x] # NoRow /\ Outcome(s).read[c][x] = Now =>
                    Outcome(s).cred[c][x].last <= xray.counter[c][x]
    <3>1. /\ Outcome(s).cred[c][x] = NewCred(s, c, x)
          /\ Outcome(s).read[c][x] = IF x \in Known(s, c) THEN seen[s].run ELSE readIn[c][x]
      BY <1>1, OutcomeFields
    <3>2. /\ x \in Known(s, c) => NewCred(s, c, x).last = seen[s].stats[c][x]
          /\ x \notin Known(s, c) => NewCred(s, c, x) = cred[c][x]
      BY <1>1, NewLast
    <3>3. LastOK(cred[c], readIn[c], c)
      BY DEF ReadInv
    <3> QED
      BY <1>3, <3>1, <3>2, <3>3 DEF LastOK
  <2> QED
    BY <1>1, <1>2, <1>4, <2>1 DEF LastOK
<1>6. ASSUME NEW t \in Syncs
      PROVE /\ pc'[t] = "load" =>
                 /\ seen'[t].run <= xray'.run
                 /\ seen'[t].run = Now' =>
                      \A c \in Clients, x \in Conns : seen'[t].stats[c][x] <= xray'.counter[c][x]
            /\ pc'[t] = "save" => \A c \in Clients : LastOK(seen[t].cred[c], seen[t].read[c], c)'
  <2>1. CASE t = s
    BY <1>2, <1>5, <2>1
  <2>2. CASE t # s
    BY <1>1, <1>2, <1>4, <2>2 DEF ReadInv, LastOK
  <2> QED
    BY <2>1, <2>2
<1> QED
  BY <1>4, <1>6 DEF ReadInv

LEMMA SaveTrafficRead ==
  ASSUME IInv, UnitInv, ReadInv, NEW s \in Syncs, SaveTraffic(s) PROVE ReadInv'
<1>1. /\ UNCHANGED xray /\ pc[s] = "save"
      /\ pc' = [pc EXCEPT ![s] = "idle"]
  BY DEF SaveTraffic, EndSync, Goto
<1>2. \A t \in Syncs : pc'[t] \notin {"load", "save"}
  BY <1>1, Alone DEF IInv, Types, Working
<1>3. Now' = Now
  BY <1>1 DEF Now, Alive
<1>4. ASSUME NEW c \in Clients PROVE LastOK(cred[c], readIn[c], c)'
  <2>1. \A x \in Conns :
          /\ cred'[c][x] = IF Writable(c, x, seen[s].cred[c][x])
                             THEN seen[s].cred[c][x] ELSE cred[c][x]
          /\ readIn'[c][x] = IF Writable(c, x, seen[s].cred[c][x])
                               THEN seen[s].read[c][x] ELSE readIn[c][x]
    BY SavedRows
  <2>2. LastOK(cred[c], readIn[c], c) /\ LastOK(seen[s].cred[c], seen[s].read[c], c)
    BY <1>1 DEF ReadInv
  <2> QED
    BY <1>1, <1>3, <2>1, <2>2 DEF LastOK
<1> QED
  BY <1>2, <1>4 DEF ReadInv

BaseInv == UnitInv /\ CommandInv /\ ReadInv

\* Xray and the rows stay, and no sync moves, unless to do nothing.
LEMMA StillRead ==
  ASSUME IInv, IInv', ReadInv, Now' = Now, xray'.run = xray.run,
         xray'.counter = xray.counter, UNCHANGED <<cred, readIn>>, SeenStays
  PROVE  ReadInv'
<1>1. Onward
  <2>1. xray.run <= xray.run /\ \A c \in Clients, x \in Conns : xray.counter[c][x] <= xray.counter[c][x]
    BY UnitTypes
  <2> QED
    BY <2>1 DEF Onward
<1>2. RowsStay
  <2>1. \A c \in Clients, x \in Conns : readIn[c][x] <= readIn[c][x]
    BY RowTypes
  <2> QED
    BY <2>1 DEF RowsStay
<1> QED
  BY <1>1, <1>2, ReadKept

\* Xray stops or starts.
LEMMA UnitMovesRead ==
  ASSUME IInv, IInv', ReadInv, xray.run <= xray'.run, Now' = Never \/ Now' > xray.run,
         UNCHANGED <<cred, readIn, pc, seen>>, Now = Never => Now' # Never
  PROVE  ReadInv'
<1>1. Now' # Now
  BY UnitTypes DEF Now, Never
<1>2. Onward
  BY <1>1 DEF Onward
<1>3. RowsStay
  <2>1. \A c \in Clients, x \in Conns : readIn[c][x] <= readIn[c][x]
    BY RowTypes
  <2> QED
    BY <2>1 DEF RowsStay
<1> QED
  BY <1>2, <1>3, ReadKept DEF SeenStays

LEMMA CommitCommandRead ==
  ASSUME IInv, IInv', ReadInv, CommitCommand PROVE ReadInv'
<1>1. /\ cred' = [c \in Clients |-> [x \in Conns |->
                    Cascade(x \in command.db.known[c], cred[c][x])]]
      /\ readIn' = [c \in Clients |-> [x \in Conns |->
                      IF x \in command.db.known[c] THEN readIn[c][x] ELSE 0]]
      /\ UNCHANGED <<pc, seen, xray>>
  BY DEF CommitCommand
<1>2. RowsStay
  <2>1. \A c \in Clients, x \in Conns : readIn[c][x] \in Nat
    BY RowTypes
  <2> QED
    BY <1>1, <2>1 DEF RowsStay, Cascade
<1>3. Onward
  <2>1. xray.run <= xray.run /\ \A c \in Clients, x \in Conns : xray.counter[c][x] <= xray.counter[c][x]
    BY UnitTypes
  <2> QED
    BY <1>1, <2>1 DEF Onward, Now, Alive
<1> QED
  BY <1>1, <1>2, <1>3, ReadKept DEF SeenStays

LEMMA SyncRead ==
  ASSUME IInv, IInv', BaseInv, NEW s \in Syncs,
         StartSync(s) \/ AcquireTraffic(s) \/ SyncStep(s) \/ SyncDies(s)
  PROVE  ReadInv'
<1>1. CASE QueryStats(s)
  BY <1>1, QueryStatsRead DEF BaseInv
<1>2. CASE LoadTraffic(s)
  BY <1>2, LoadTrafficRead DEF BaseInv
<1>3. CASE SaveTraffic(s)
  BY <1>3, SaveTrafficRead DEF BaseInv
<1>4. CASE StartSync(s) \/ AcquireTraffic(s) \/ ReadConfig(s) \/ ReadRows(s)
           \/ QueryFails(s) \/ SyncDies(s)
  <2>1. UNCHANGED <<cred, readIn, xray>> /\ Now' = Now
    BY <1>4 DEF StartSync, AcquireTraffic, ReadConfig, ReadRows, QueryFails, SyncDies,
                traffic, history, stores, Now, Alive
  <2>2. PICK step, v :
          /\ step \in {"waiting", "config", "rows", "query", "idle"}
          /\ pc' = [pc EXCEPT ![s] = step]
          /\ seen' = seen \/ seen' = [seen EXCEPT ![s] = v]
    BY <1>4 DEF StartSync, AcquireTraffic, ReadConfig, ReadRows, QueryFails, SyncDies,
                EndSync, Goto
  <2>3. SeenStays
    <3>1. pc \in [Syncs -> SyncSteps] /\ DOMAIN seen = Syncs
      BY DEF IInv, Types
    <3> QED
      BY <2>2, <3>1 DEF SeenStays
  <2> QED
    BY <2>1, <2>3, StillRead DEF BaseInv
<1> QED
  BY <1>1, <1>2, <1>3, <1>4 DEF SyncStep

LEMMA BaseKeeps ==
  ASSUME IInv, IInv', BaseInv, [Next]_vars PROVE BaseInv'
<1>0. UnitInv /\ CommandInv /\ ReadInv
  BY DEF BaseInv
<1>1. ASSUME NEW s \in Syncs,
             StartSync(s) \/ AcquireTraffic(s) \/ SyncStep(s) \/ SyncDies(s)
      PROVE  BaseInv'
  BY <1>0, <1>1, SyncUnit, SyncRead DEF BaseInv
<1> DEFINE Still == UNCHANGED <<pc, seen, xray, cred, readIn>>
<1>2. ASSUME Still PROVE ReadInv'
  BY <1>0, <1>2, StillRead DEF SeenStays, Now, Alive
<1>3. CASE BeginCommand
  <2>1. Still
    BY <1>3 DEF BeginCommand, traffic
  <2> QED
    BY <1>0, <1>2, <1>3, <2>1, BeginCommandUnit DEF BaseInv
<1>4. CASE StopTimeout \/ StartFails \/ CommitFails
  <2>1. command # NoCommand /\ RollBack /\ Still /\ UNCHANGED <<carried, db>>
    BY <1>4, AtWork DEF StopTimeout, StartFails, CommitFails, traffic
  <2> QED
    BY <1>0, <1>2, <2>1, RollBackUnit DEF BaseInv
<1>5. CASE StopXray
  <2>1. UNCHANGED <<seen, cred, readIn>> /\ SeenStays
    <3>1. UNCHANGED <<seen, cred, readIn>> /\ (pc' = pc \/ pc' = [pc EXCEPT ![ExecStop] = "waiting"])
      BY <1>5 DEF StopXray, Goto, traffic
    <3>2. pc \in [Syncs -> SyncSteps]
      BY DEF IInv, Types
    <3> QED
      BY <3>1, <3>2 DEF SeenStays
  <2> QED
    BY <1>0, <1>5, <2>1, StopXrayUnit, StillRead DEF BaseInv
<1>6. CASE XrayStopped
  <2>1. Still
    BY <1>6 DEF XrayStopped, traffic
  <2> QED
    BY <1>0, <1>2, <1>6, <2>1, XrayStoppedUnit DEF BaseInv
<1>7. CASE StartXray \/ XrayStarts
  <2>1. ~ Alive /\ UnitInv' /\ CommandInv' /\ xray' = Started
        /\ UNCHANGED <<pc, seen, cred, readIn>>
    BY <1>0, <1>7, StartXrayUnit, XrayStartsUnit DEF StartXray, XrayStarts, traffic
  <2>2. xray'.run = xray.run + 1 /\ Now' = xray.run + 1 /\ xray.run \in Nat
    BY <1>0, <2>1, StartedUnit, UnitTypes
  <2>3. xray.run <= xray'.run /\ Now' > xray.run /\ Now' # Never
    BY <2>2 DEF Never
  <2> QED
    BY <1>0, <2>1, <2>3, UnitMovesRead DEF BaseInv
<1>8. CASE CommitCommand
  BY <1>0, <1>8, CommitCommandUnit, CommitCommandRead DEF BaseInv
<1>9. CASE CommandDies
  <2>1. Still /\ UNCHANGED carried /\ command' = NoCommand
    BY <1>9 DEF CommandDies, traffic
  <2>2. UnitInv' /\ CommandInv'
    BY <1>0, <2>1, UnitKept, CommandGone DEF NoCommand
  <2> QED
    BY <1>2, <2>1, <2>2 DEF BaseInv
<1>10. ASSUME NEW c \in Clients, NEW x \in Conns, Carry(c, x) PROVE BaseInv'
  <2>1. /\ UnitInv' /\ CommandInv' /\ Now' = Now /\ xray'.run = xray.run
        /\ \A b \in Clients, y \in Conns : xray.counter[b][y] <= xray'.counter[b][y]
    BY <1>0, <1>10, CarryUnit
  <2>2. Onward
    <3>1. xray.run <= xray.run
      BY UnitTypes
    <3> QED
      BY <2>1, <3>1 DEF Onward
  <2>3. UNCHANGED <<pc, seen, cred, readIn>>
    BY <1>10 DEF Carry, traffic
  <2>4. RowsStay
    <3>1. \A b \in Clients, y \in Conns : readIn[b][y] <= readIn[b][y]
      BY RowTypes
    <3> QED
      BY <2>3, <3>1 DEF RowsStay
  <2> QED
    BY <1>0, <2>1, <2>2, <2>3, <2>4, ReadKept DEF BaseInv, SeenStays
<1>11. CASE KillXray \/ XrayExits
  <2>1. /\ UnitInv' /\ CommandInv' /\ Now' = Never /\ xray'.run = xray.run
        /\ UNCHANGED <<pc, seen, cred, readIn>>
    BY <1>0, <1>11, KillXrayUnit, XrayExitsUnit DEF KillXray, XrayExits, traffic
  <2>2. Alive
    BY <1>11 DEF KillXray, XrayExits, Alive
  <2>3. xray.run \in Nat /\ Now # Never /\ xray.run <= xray.run
    BY <2>2, UnitTypes DEF Now, Never
  <2> QED
    BY <1>0, <2>1, <2>3, UnitMovesRead DEF BaseInv
<1>12. CASE UNCHANGED vars
  <2>1. Still /\ UNCHANGED <<carried, command, config, db>>
    BY <1>12 DEF vars
  <2>2. UnitInv' /\ CommandInv'
    BY <1>0, <2>1 DEF UnitInv, CommandInv, Alive
  <2> QED
    BY <1>2, <2>1, <2>2 DEF BaseInv
<1> QED
  BY <1>1, <1>3, <1>4, <1>5, <1>6, <1>7, <1>8, <1>9, <1>10, <1>11, <1>12
     DEF Next, CommandStep

-----------------------------------------------------------------------------
(***************************************************************************)
(* The invariant of one client, at each step a sync can be at.             *)
(***************************************************************************)
Gains(s, c) == [x \in Conns |-> Gain(s, c, x)]

\* The total has no more of the present counters than the last values say, and
\* nothing at all as long as no credential has a row.
RowInv(c) ==
  /\ Counted(agg[c].total, cred[c], readIn[c], xray.counter[c], xray.counter[c], carried[c], Now)
  /\ (\A x \in Conns : cred[c][x] = NoRow) => agg[c].total = 0

\* The sync knows a credential of every client that has a row.
QueryInv(s, c) ==
  pc[s] \in {"query", "load"} /\ agg[c] # NoRow => seen[s].known[c] \intersect db.known[c] # {}

\* What was counted when Xray was asked is in the answer, and if that Xray is gone,
\* what the sync is going to add was carried by it.
LoadInv(s, c) ==
  pc[s] = "load" =>
    /\ seen[s].run = Now =>
         Counted(agg[c].total, cred[c], readIn[c], seen[s].stats[c], xray.counter[c],
                 carried[c], Now)
    /\ seen[s].run # Now =>
         agg[c].total + Bytes(Gains(s, c)) + Bytes(xray.counter[c]) <= carried[c]

\* What is going to be written satisfies RowInv.
SaveInv(s, c) ==
  pc[s] = "save" /\ db.known[c] # {} =>
    /\ Counted(seen[s].agg[c].total, seen[s].cred[c], seen[s].read[c], xray.counter[c],
               xray.counter[c], carried[c], Now)
    /\ seen[s].agg[c].total > 0 => \E x \in db.known[c] : seen[s].cred[c][x] # NoRow

ClientInv(c) ==
  RowInv(c) /\ \A s \in Syncs : QueryInv(s, c) /\ LoadInv(s, c) /\ SaveInv(s, c)

\* Nothing a client's rows are compared with changes.
Same(c) ==
  /\ agg'[c] = agg[c] /\ cred'[c] = cred[c]
  /\ \A x \in Conns : cred[c][x] # NoRow => readIn'[c][x] = readIn[c][x]
  /\ carried'[c] = carried[c] /\ xray'.counter[c] = xray.counter[c] /\ Now' = Now

\* The sync has read nothing new.
Waits(s) ==
  pc'[s] \in {"query", "load", "save"} => pc'[s] = pc[s] /\ seen'[s] = seen[s]

LEMMA GainTypes ==
  ASSUME IInv, NEW s \in Syncs, pc[s] = "load", NEW c \in Clients
  PROVE  /\ Gains(s, c) \in [Conns -> Nat] /\ Bytes(Gains(s, c)) \in Nat
         /\ \A x \in Conns : Gains(s, c)[x] = Gain(s, c, x)
         /\ seen[s].stats[c] \in [Conns -> Nat] /\ seen[s].run \in Nat
<1>1. \A x \in Conns : Gain(s, c, x) \in Nat
  BY CredOutcome DEF IInv
<1>2. Gains(s, c) \in [Conns -> Nat] /\ \A x \in Conns : Gains(s, c)[x] = Gain(s, c, x)
  BY <1>1 DEF Gains
<1>3. seen[s].stats[c] \in [Conns -> Nat] /\ seen[s].run \in Nat
  <2>1. seen[s].stats \in Counters /\ seen[s].run \in Nat /\ MaxBytes \in Nat
    BY SyncsAssumption DEF IInv, SeenOK
  <2>2. seen[s].stats[c] \in [Conns -> 0..MaxBytes] /\ 0..MaxBytes \subseteq Nat
    BY <2>1 DEF Counters
  <2> QED
    BY <2>1, <2>2
<1> QED
  BY <1>2, <1>3, BytesNat

\* The total grows by what the credentials gain.
LEMMA NewTotal ==
  ASSUME IInv, NEW s \in Syncs, pc[s] = "load", NEW c \in Clients
  PROVE  NewAgg(s, c).total = agg[c].total + Bytes(Gains(s, c))
<1>1. Bytes(Gains(s, c)) \in Nat /\ agg[c].total \in Nat
  BY GainTypes, RowTypes
<1>2. CASE Known(s, c) = {}
  <2>1. \A x \in Conns : Gains(s, c)[x] = 0
    BY <1>2 DEF Gains, Gain
  <2>2. NewAgg(s, c) = agg[c]
    BY <1>2 DEF NewAgg
  <2> QED
    BY <1>1, <2>1, <2>2, BytesZero
<1>3. CASE Known(s, c) # {}
  BY <1>3 DEF NewAgg, Grown, Bytes, Gains
<1> QED
  BY <1>2, <1>3

\* Rows that are not there gain nothing.
LEMMA GainNone ==
  ASSUME NEW s \in Syncs, NEW c \in Clients, NEW x \in Conns,
         agg[c] = NoRow, cred[c][x] = NoRow
  PROVE  Gain(s, c, x) = 0
<1>1. Opening(s, c, x) = NoRow
  BY DEF Opening
<1> QED
  BY <1>1 DEF Gain, Delta, NoRow

LEMMA GainsSame ==
  ASSUME NEW s \in Syncs, NEW c \in Clients, seen'[s] = seen[s],
         agg'[c] = agg[c], cred'[c] = cred[c]
  PROVE  Gains(s, c)' = Gains(s, c)
<1>1. Known(s, c)' = Known(s, c) /\ Lead(s, c)' = Lead(s, c)
  BY DEF Known, Lead
<1>2. ASSUME NEW x \in Conns PROVE Opening(s, c, x)' = Opening(s, c, x)
  BY <1>1 DEF Opening
<1>3. ASSUME NEW x \in Conns PROVE Gain(s, c, x)' = Gain(s, c, x)
  BY <1>1, <1>2 DEF Gain
<1> QED
  BY <1>3 DEF Gains

\* When that Xray still runs, what a sync adds was carried and was not counted.
LEMMA FreshGain ==
  ASSUME IInv, BaseInv, NEW s \in Syncs, pc[s] = "load", NEW c \in Clients,
         seen[s].run = Now, RowInv(c), LoadInv(s, c)
  PROVE  \E C \in [Conns -> Nat] :
           /\ \A x \in Conns :
                /\ C[x] <= xray.counter[c][x]
                /\ x \in Known(s, c) => C[x] = seen[s].stats[c][x]
                /\ x \notin Known(s, c) /\ cred[c][x] # NoRow =>
                     C[x] = IF readIn[c][x] = Now THEN cred[c][x].last ELSE 0
           /\ agg[c].total + Bytes(Gains(s, c)) + Bytes(xray.counter[c])
                <= carried[c] + Bytes(C)
<1> DEFINE stats == seen[s].stats[c]
           counter == xray.counter[c]
           gains == Gains(s, c)
<1>1. /\ stats \in [Conns -> Nat] /\ counter \in [Conns -> Nat] /\ gains \in [Conns -> Nat]
      /\ \A x \in Conns : gains[x] = Gain(s, c, x) /\ stats[x] <= counter[x]
      /\ carried[c] \in Nat /\ agg[c].total \in Nat
  BY GainTypes, UnitTypes, RowTypes DEF BaseInv, ReadInv
<1>2. \A x \in Conns : x \notin Known(s, c) => gains[x] = 0
  BY <1>1 DEF Gain
<1>3. PICK C0 \in [Conns -> Nat] :
        /\ \A x \in Conns :
             /\ C0[x] <= stats[x]
             /\ cred[c][x] # NoRow => C0[x] = IF readIn[c][x] = Now THEN cred[c][x].last ELSE 0
        /\ agg[c].total + Bytes(counter) <= carried[c] + Bytes(C0)
  BY DEF LoadInv, Counted
<1> DEFINE C == [x \in Conns |-> IF x \in Known(s, c) THEN stats[x] ELSE C0[x]]
<1>4. /\ C \in [Conns -> Nat]
      /\ \A x \in Conns : /\ x \in Known(s, c) => C[x] = stats[x]
                          /\ x \notin Known(s, c) => C[x] = C0[x]
  BY <1>1
<1> HIDE DEF C, stats, counter, gains
<1>5. \A x \in Conns :
        /\ C[x] <= counter[x]
        /\ x \notin Known(s, c) /\ cred[c][x] # NoRow =>
             C[x] = IF readIn[c][x] = Now THEN cred[c][x].last ELSE 0
  <2>1. \A x \in Conns : C0[x] \in Nat /\ stats[x] \in Nat /\ counter[x] \in Nat
    BY <1>1
  <2> QED
    BY <1>1, <1>3, <1>4, <2>1
<1>6. /\ Bytes(C) \in Nat /\ Bytes(C0) \in Nat /\ Bytes(counter) \in Nat /\ Bytes(gains) \in Nat
  BY <1>1, <1>4, BytesNat
<1>7. agg[c].total + Bytes(gains) + Bytes(counter) <= carried[c] + Bytes(C)
  <2>1. CASE \A x \in Conns : cred[c][x] = NoRow
    <3>1. agg[c].total = 0
      BY <2>1 DEF RowInv
    <3>2. ASSUME NEW x \in Conns PROVE gains[x] <= C[x]
      <4>1. CASE x \in Known(s, c)
        <5>1. gains[x] = Delta(stats[x], Opening(s, c, x).last)
          BY <1>1, <4>1 DEF Gain, stats
        <5>2. Opening(s, c, x).last \in Nat \union {Never} /\ stats[x] \in Nat
          BY <1>1, <2>1, RowTypes DEF Opening, Rows, NoRow
        <5>3. gains[x] <= stats[x]
          BY <5>1, <5>2, DeltaBounds
        <5> QED
          BY <1>4, <4>1, <5>3
      <4>2. CASE x \notin Known(s, c)
        <5>1. gains[x] = 0 /\ C[x] \in Nat
          BY <1>2, <1>4, <4>2
        <5> QED
          BY <5>1
      <4> QED
        BY <4>1, <4>2
    <3>3. Bytes(gains) <= Bytes(C)
      BY <1>1, <1>4, <3>2, BytesMonotonic
    <3>4. Bytes(counter) <= carried[c]
      BY DEF BaseInv, UnitInv, counter
    <3> QED
      BY <1>1, <1>6, <3>1, <3>3, <3>4
  <2>2. CASE ~ \A x \in Conns : cred[c][x] = NoRow
    <3> DEFINE G == [x \in Conns |-> C0[x] + gains[x]]
    <3>1. G \in [Conns -> Nat] /\ \A x \in Conns : G[x] = C0[x] + gains[x]
      BY <1>1
    <3>2. ASSUME NEW x \in Conns PROVE C0[x] + gains[x] <= C[x]
      <4>1. C0[x] \in Nat /\ stats[x] \in Nat /\ C0[x] <= stats[x] /\ gains[x] \in Nat
        BY <1>1, <1>3
      <4>2. CASE x \in Known(s, c)
        <5>1. gains[x] = Delta(stats[x], cred[c][x].last)
          BY <1>1, <2>2, <4>2 DEF Gain, Opening, stats
        <5>2. CASE cred[c][x] = NoRow
          <6>1. gains[x] = 0
            BY <5>1, <5>2 DEF Delta, NoRow
          <6> QED
            BY <1>4, <4>1, <4>2, <6>1
        <5>3. CASE cred[c][x] # NoRow
          <6>1. cred[c][x].last \in Nat /\ cred[c][x].last # Never
            BY <5>3, RowTypes DEF Never
          <6>2. CASE readIn[c][x] = Now
            <7>1. C0[x] = cred[c][x].last
              BY <1>3, <5>3, <6>2
            <7>2. gains[x] = stats[x] - C0[x]
              BY <4>1, <5>1, <6>1, <7>1 DEF Delta
            <7> QED
              BY <1>4, <4>1, <4>2, <7>2
          <6>3. CASE readIn[c][x] # Now
            <7>1. C0[x] = 0
              BY <1>3, <5>3, <6>3
            <7>2. gains[x] <= stats[x]
              BY <4>1, <5>1, <6>1, DeltaBounds
            <7> QED
              BY <1>4, <4>1, <4>2, <7>1, <7>2
          <6> QED
            BY <6>2, <6>3
        <5> QED
          BY <5>2, <5>3
      <4>3. CASE x \notin Known(s, c)
        <5>1. gains[x] = 0 /\ C[x] = C0[x]
          BY <1>2, <1>4, <4>3
        <5> QED
          BY <4>1, <5>1
      <4> QED
        BY <4>2, <4>3
    <3> HIDE DEF G
    <3>3. Bytes(G) = Bytes(C0) + Bytes(gains)
      BY <1>1, <3>1, BytesPlus
    <3>4. Bytes(G) <= Bytes(C)
      BY <1>4, <3>1, <3>2, BytesMonotonic
    <3> QED
      BY <1>1, <1>3, <1>6, <3>3, <3>4
  <2> QED
    BY <2>1, <2>2
<1> QED
  BY <1>4, <1>5, <1>7 DEF stats, counter, gains

\* So in any case what a sync adds was carried before the present counters.
LEMMA GainCarried ==
  ASSUME IInv, BaseInv, NEW s \in Syncs, pc[s] = "load", NEW c \in Clients,
         RowInv(c), LoadInv(s, c)
  PROVE  agg[c].total + Bytes(Gains(s, c)) <= carried[c]
<1>1. /\ Bytes(Gains(s, c)) \in Nat /\ agg[c].total \in Nat /\ carried[c] \in Nat
      /\ xray.counter[c] \in [Conns -> Nat] /\ Bytes(xray.counter[c]) \in Nat
  BY GainTypes, UnitTypes, RowTypes, BytesNat
<1>2. CASE seen[s].run = Now
  <2>1. PICK C \in [Conns -> Nat] :
          /\ \A x \in Conns : C[x] <= xray.counter[c][x]
          /\ agg[c].total + Bytes(Gains(s, c)) + Bytes(xray.counter[c])
               <= carried[c] + Bytes(C)
    BY <1>2, FreshGain
  <2>2. Bytes(C) \in Nat /\ Bytes(C) <= Bytes(xray.counter[c])
    BY <1>1, <2>1, BytesNat, BytesMonotonic
  <2> QED
    BY <1>1, <2>1, <2>2
<1>3. CASE seen[s].run # Now
  BY <1>1, <1>3 DEF LoadInv
<1> QED
  BY <1>2, <1>3

-----------------------------------------------------------------------------
(***************************************************************************)
(* Steps that leave what a client's rows are compared with.                *)
(***************************************************************************)
LEMMA RowSame ==
  ASSUME IInv, NEW c \in Clients, RowInv(c), Same(c)
  PROVE  RowInv(c)'
<1> DEFINE reads2 == readIn'[c]
<1>1. xray.counter[c] \in [Conns -> Nat] /\ \A x \in Conns : xray.counter[c][x] <= xray.counter[c][x]
  BY UnitTypes
<1>2. \A x \in Conns : cred[c][x] # NoRow => cred[c][x] = cred[c][x] /\ reads2[x] = readIn[c][x]
  BY DEF Same
<1>3. Counted(agg[c].total, cred[c], readIn[c], xray.counter[c], xray.counter[c], carried[c], Now)
  BY DEF RowInv
<1> HIDE DEF reads2
<1>4. Counted(agg[c].total, cred[c], reads2, xray.counter[c], xray.counter[c], carried[c], Now)
  BY <1>1, <1>2, <1>3, CountedSame
<1>5. Counted(agg'[c].total, cred'[c], readIn'[c], xray'.counter[c], xray'.counter[c],
              carried'[c], Now')
  BY <1>4 DEF reads2, Same
<1> QED
  BY <1>5 DEF RowInv, Same

LEMMA LoadSame ==
  ASSUME IInv, NEW c \in Clients, NEW s \in Syncs, LoadInv(s, c), Same(c), Waits(s)
  PROVE  LoadInv(s, c)'
<1> SUFFICES ASSUME pc'[s] = "load" PROVE LoadInv(s, c)'
  BY DEF LoadInv
<1>0. pc[s] = "load" /\ seen'[s] = seen[s]
  BY DEF Waits
<1>1. CASE seen[s].run = Now
  <2> DEFINE reads2 == readIn'[c]
             stats == seen[s].stats[c]
  <2>1. stats \in [Conns -> Nat] /\ \A x \in Conns : stats[x] <= stats[x]
    <3>1. stats \in [Conns -> Nat]
      BY <1>0, GainTypes
    <3> HIDE DEF stats
    <3> QED
      BY <3>1
  <2>2. \A x \in Conns : cred[c][x] # NoRow => cred[c][x] = cred[c][x] /\ reads2[x] = readIn[c][x]
    BY DEF Same
  <2>3. Counted(agg[c].total, cred[c], readIn[c], stats, xray.counter[c], carried[c], Now)
    BY <1>0, <1>1 DEF LoadInv
  <2> HIDE DEF reads2, stats
  <2>4. Counted(agg[c].total, cred[c], reads2, stats, xray.counter[c], carried[c], Now)
    BY <2>1, <2>2, <2>3, CountedSame
  <2>5. Counted(agg'[c].total, cred'[c], readIn'[c], seen'[s].stats[c], xray'.counter[c],
                carried'[c], Now')
    BY <1>0, <2>4 DEF reads2, stats, Same
  <2> QED
    BY <1>0, <1>1, <2>5 DEF LoadInv, Same
<1>2. CASE seen[s].run # Now
  <2>1. Gains(s, c)' = Gains(s, c)
    BY <1>0, GainsSame DEF Same
  <2>2. agg[c].total + Bytes(Gains(s, c)) + Bytes(xray.counter[c]) <= carried[c]
    BY <1>0, <1>2 DEF LoadInv
  <2>3. (agg[c].total + Bytes(Gains(s, c)) + Bytes(xray.counter[c]) <= carried[c])'
    <3>1. Bytes(Gains(s, c))' = Bytes(Gains(s, c))
      BY <2>1 DEF Bytes
    <3>2. Bytes(xray'.counter[c]) = Bytes(xray.counter[c])
      BY DEF Same
    <3> QED
      BY <2>2, <3>1, <3>2 DEF Same
  <2> QED
    BY <1>0, <1>2, <2>3 DEF LoadInv, Same
<1> QED
  BY <1>1, <1>2

LEMMA QuerySame ==
  ASSUME NEW c \in Clients, NEW s \in Syncs, QueryInv(s, c), Waits(s),
         agg'[c] # NoRow => agg[c] # NoRow /\ db.known[c] \subseteq db'.known[c]
  PROVE  QueryInv(s, c)'
<1>1. pc'[s] \in {"query", "load"} => pc[s] = pc'[s] /\ seen'[s] = seen[s]
  BY DEF Waits
<1> QED
  BY <1>1 DEF QueryInv

LEMMA SaveSame ==
  ASSUME NEW c \in Clients, NEW s \in Syncs, SaveInv(s, c), Waits(s),
         carried'[c] = carried[c], xray'.counter[c] = xray.counter[c], Now' = Now,
         db'.known[c] # {} => db.known[c] # {} /\ db.known[c] \subseteq db'.known[c]
  PROVE  SaveInv(s, c)'
<1> SUFFICES ASSUME pc'[s] = "save", db'.known[c] # {} PROVE SaveInv(s, c)'
  BY DEF SaveInv
<1>1. pc[s] = "save" /\ seen'[s] = seen[s] /\ db.known[c] # {} /\ db.known[c] \subseteq db'.known[c]
  BY DEF Waits
<1>2. /\ Counted(seen[s].agg[c].total, seen[s].cred[c], seen[s].read[c], xray.counter[c],
                 xray.counter[c], carried[c], Now)
      /\ seen[s].agg[c].total > 0 => \E x \in db.known[c] : seen[s].cred[c][x] # NoRow
  BY <1>1 DEF SaveInv
<1>3. Counted(seen'[s].agg[c].total, seen'[s].cred[c], seen'[s].read[c], xray'.counter[c],
              xray'.counter[c], carried'[c], Now')
  BY <1>1, <1>2
<1>4. seen'[s].agg[c].total > 0 => \E x \in db'.known[c] : seen'[s].cred[c][x] # NoRow
  BY <1>1, <1>2
<1> QED
  BY <1>3, <1>4 DEF SaveInv

LEMMA ClientSame ==
  ASSUME IInv, NEW c \in Clients, ClientInv(c), Same(c), db'.known[c] = db.known[c],
         \A s \in Syncs : Waits(s)
  PROVE  ClientInv(c)'
<1>1. RowInv(c)'
  BY RowSame DEF ClientInv
<1>2. ASSUME NEW s \in Syncs PROVE QueryInv(s, c)' /\ LoadInv(s, c)' /\ SaveInv(s, c)'
  <2>1. QueryInv(s, c) /\ LoadInv(s, c) /\ SaveInv(s, c)
    BY DEF ClientInv
  <2>2. QueryInv(s, c)'
    BY <2>1, QuerySame DEF Same
  <2>3. LoadInv(s, c)'
    BY <2>1, LoadSame
  <2>4. SaveInv(s, c)'
    BY <2>1, SaveSame DEF Same
  <2> QED
    BY <2>2, <2>3, <2>4
<1> QED
  BY <1>1, <1>2 DEF ClientInv

-----------------------------------------------------------------------------
(***************************************************************************)
(* Xray stops, starts and carries.                                         *)
(***************************************************************************)
\* Counters at zero, of a run nothing has been read in.
LEMMA CountedReset ==
  ASSUME NEW total \in Nat, NEW rows, NEW reads, NEW bytes \in Nat, NEW now, total <= bytes,
         NEW counter \in [Conns -> Nat], \A x \in Conns : counter[x] = 0,
         \A x \in Conns : rows[x] # NoRow => reads[x] # now
  PROVE  Counted(total, rows, reads, counter, counter, bytes, now)
<1>1. Bytes(counter) = 0
  BY BytesZero
<1>2. total + Bytes(counter) <= bytes
  BY <1>1
<1> QED
  BY <1>2, CountedAfresh

LEMMA ResetClient ==
  ASSUME IInv, IInv', BaseInv, NEW c \in Clients, ClientInv(c),
         UNCHANGED <<agg, cred, readIn, carried, pc, seen, db>>,
         \A x \in Conns : xray'.counter[c][x] = 0, Now' = Never \/ Now' > xray.run
  PROVE  ClientInv(c)'
<1>1. /\ xray.run \in Nat /\ carried[c] \in Nat /\ agg[c].total \in Nat
      /\ xray.counter[c] \in [Conns -> Nat] /\ xray'.counter[c] \in [Conns -> Nat]
      /\ \A x \in Conns : xray.counter[c][x] <= xray.counter[c][x]
      /\ readIn[c] \in [Conns -> Nat]
  BY UnitTypes, UnitTypesNext, RowTypes
<1>2. \A n \in Nat : n <= xray.run => n # Now'
  BY <1>1 DEF Never
<1>3. RowInv(c) /\ \A s \in Syncs : QueryInv(s, c) /\ LoadInv(s, c) /\ SaveInv(s, c)
  BY DEF ClientInv
<1>4. RowInv(c)'
  <2>1. agg[c].total <= carried[c]
    BY <1>1, <1>3, CountedBound DEF RowInv
  <2>2. \A x \in Conns : readIn[c][x] # Now'
    BY <1>1, <1>2 DEF BaseInv, ReadInv, LastOK
  <2>3. Counted(agg[c].total, cred[c], readIn[c], xray'.counter[c], xray'.counter[c],
                carried[c], Now')
    BY <1>1, <2>1, <2>2, CountedReset
  <2> QED
    BY <1>3, <2>3 DEF RowInv
<1>5. ASSUME NEW s \in Syncs PROVE QueryInv(s, c)' /\ LoadInv(s, c)' /\ SaveInv(s, c)'
  <2>1. QueryInv(s, c)'
    BY <1>3 DEF QueryInv
  <2>2. ASSUME pc[s] = "load" PROVE LoadInv(s, c)'
    <3>1. seen[s].run # Now'
      BY <1>2, <2>2, GainTypes DEF BaseInv, ReadInv
    <3>2. agg[c].total + Bytes(Gains(s, c)) <= carried[c] /\ Bytes(Gains(s, c)) \in Nat
      BY <1>3, <2>2, GainCarried, GainTypes
    <3>3. Gains(s, c)' = Gains(s, c)
      BY GainsSame
    <3>4. Bytes(Gains(s, c))' = Bytes(Gains(s, c))
      BY <3>3 DEF Bytes
    <3>5. Bytes(xray'.counter[c]) = 0
      BY BytesZero
    <3>6. agg[c].total + Bytes(Gains(s, c)) + Bytes(xray'.counter[c]) <= carried[c]
      BY <1>1, <3>2, <3>5
    <3> QED
      BY <3>1, <3>4, <3>6 DEF LoadInv
  <2>3. ASSUME pc[s] = "save", db.known[c] # {} PROVE SaveInv(s, c)'
    <3>1. /\ seen[s].agg[c].total \in Nat /\ seen[s].read[c] \in [Conns -> Nat]
      BY <2>3, RowTypes
    <3>2. /\ Counted(seen[s].agg[c].total, seen[s].cred[c], seen[s].read[c], xray.counter[c],
                     xray.counter[c], carried[c], Now)
          /\ seen[s].agg[c].total > 0 => \E x \in db.known[c] : seen[s].cred[c][x] # NoRow
      BY <1>3, <2>3 DEF SaveInv
    <3>3. seen[s].agg[c].total <= carried[c]
      BY <1>1, <3>1, <3>2, CountedBound
    <3>4. \A x \in Conns : seen[s].read[c][x] # Now'
      BY <1>2, <2>3, <3>1 DEF BaseInv, ReadInv, LastOK
    <3>5. Counted(seen[s].agg[c].total, seen[s].cred[c], seen[s].read[c], xray'.counter[c],
                  xray'.counter[c], carried[c], Now')
      BY <1>1, <3>1, <3>3, <3>4, CountedReset
    <3> QED
      BY <3>2, <3>5 DEF SaveInv
  <2> QED
    BY <2>1, <2>2, <2>3 DEF LoadInv, SaveInv
<1> QED
  BY <1>4, <1>5 DEF ClientInv

LEMMA CarryClient ==
  ASSUME IInv, IInv', BaseInv, NEW c \in Clients, ClientInv(c), NEW x \in Conns, Carry(c, x)
  PROVE  ClientInv(c)'
<1> DEFINE counter == xray.counter[c]
           counter2 == xray'.counter[c]
<1>1. /\ Now' = Now /\ carried'[c] = carried[c] + 1
      /\ counter2 = [counter EXCEPT ![x] = counter[x] + 1]
      /\ \A y \in Conns : counter[y] <= counter2[y]
  BY CarryUnit DEF BaseInv, IInv, Types
<1>2. UNCHANGED <<agg, cred, readIn, pc, seen, db>>
  BY DEF Carry, traffic, stores
<1>3. /\ counter \in [Conns -> Nat] /\ counter2 \in [Conns -> Nat] /\ carried[c] \in Nat
      /\ agg[c].total \in Nat
  BY UnitTypes, UnitTypesNext, RowTypes
<1>4. RowInv(c) /\ \A s \in Syncs : QueryInv(s, c) /\ LoadInv(s, c) /\ SaveInv(s, c)
  BY DEF ClientInv
<1>5. /\ Counted(agg[c].total, cred[c], readIn[c], counter, counter, carried[c], Now)
      /\ \A s \in Syncs : /\ pc[s] = "load" /\ seen[s].run = Now =>
                               Counted(agg[c].total, cred[c], readIn[c], seen[s].stats[c],
                                       counter, carried[c], Now)
                          /\ pc[s] = "save" /\ db.known[c] # {} =>
                               Counted(seen[s].agg[c].total, seen[s].cred[c], seen[s].read[c],
                                       counter, counter, carried[c], Now)
  BY <1>4 DEF RowInv, LoadInv, SaveInv
<1>6. Bytes(counter2) = Bytes(counter) + 1 /\ Bytes(counter) \in Nat
  <2> HIDE DEF counter, counter2
  <2> QED
    BY <1>1, <1>3, BytesGrow, BytesNat
<1>7. Counted(agg[c].total, cred[c], readIn[c], counter2, counter2, carried[c] + 1, Now)
  <2> HIDE DEF counter, counter2
  <2> QED
    BY <1>1, <1>3, <1>5, CountedCarry
<1>8. RowInv(c)'
  BY <1>1, <1>2, <1>4, <1>7 DEF RowInv
<1>9. ASSUME NEW s \in Syncs PROVE QueryInv(s, c)' /\ LoadInv(s, c)' /\ SaveInv(s, c)'
  <2>1. QueryInv(s, c)'
    BY <1>2, <1>4 DEF QueryInv
  <2>2. ASSUME pc[s] = "load", seen[s].run = Now PROVE LoadInv(s, c)'
    <3> DEFINE stats == seen[s].stats[c]
    <3>1. stats \in [Conns -> Nat] /\ Counted(agg[c].total, cred[c], readIn[c], stats,
                                              counter, carried[c], Now)
      BY <1>5, <2>2, GainTypes
    <3>2. Counted(agg[c].total, cred[c], readIn[c], stats, counter2, carried[c] + 1, Now)
      <4> HIDE DEF counter, counter2, stats
      <4>1. \A y \in Conns : stats[y] <= stats[y]
        BY <3>1
      <4> QED
        BY <1>1, <1>3, <3>1, <4>1, CountedCarry
    <3> QED
      BY <1>1, <1>2, <2>2, <3>2 DEF LoadInv
  <2>3. ASSUME pc[s] = "load", seen[s].run # Now PROVE LoadInv(s, c)'
    <3>1. /\ agg[c].total + Bytes(Gains(s, c)) + Bytes(counter) <= carried[c]
          /\ Bytes(Gains(s, c)) \in Nat
      BY <1>4, <2>3, GainTypes DEF LoadInv
    <3>2. agg[c].total + Bytes(Gains(s, c)) + Bytes(counter2) <= carried[c] + 1
      BY <1>3, <1>6, <3>1
    <3>3. Gains(s, c)' = Gains(s, c)
      BY <1>2, GainsSame
    <3>4. Bytes(Gains(s, c))' = Bytes(Gains(s, c))
      BY <3>3 DEF Bytes
    <3> QED
      BY <1>1, <1>2, <2>3, <3>2, <3>4 DEF LoadInv
  <2>4. ASSUME pc[s] = "save", db.known[c] # {} PROVE SaveInv(s, c)'
    <3>1. /\ Counted(seen[s].agg[c].total, seen[s].cred[c], seen[s].read[c], counter,
                     counter, carried[c], Now)
          /\ seen[s].agg[c].total \in Nat
      BY <1>5, <2>4, RowTypes
    <3>2. Counted(seen[s].agg[c].total, seen[s].cred[c], seen[s].read[c], counter2,
                  counter2, carried[c] + 1, Now)
      <4> HIDE DEF counter, counter2
      <4> QED
        BY <1>1, <1>3, <3>1, CountedCarry
    <3>3. seen[s].agg[c].total > 0 => \E y \in db.known[c] : seen[s].cred[c][y] # NoRow
      BY <1>4, <2>4 DEF SaveInv
    <3> QED
      BY <1>1, <1>2, <3>2, <3>3 DEF SaveInv
  <2> QED
    BY <1>2, <2>1, <2>2, <2>3, <2>4 DEF LoadInv, SaveInv
<1> QED
  BY <1>8, <1>9 DEF ClientInv

-----------------------------------------------------------------------------
(***************************************************************************)
(* Steps of a sync.                                                        *)
(***************************************************************************)
LEMMA OthersWait ==
  ASSUME IInv, NEW c \in Clients, ClientInv(c), NEW s \in Syncs,
         UNCHANGED <<agg, cred, readIn, carried, xray, db>>,
         \A t \in Syncs \ {s} : Waits(t),
         QueryInv(s, c)', LoadInv(s, c)', SaveInv(s, c)'
  PROVE  ClientInv(c)'
<1>1. Same(c)
  BY DEF Same, Now, Alive
<1>2. RowInv(c)'
  BY <1>1, RowSame DEF ClientInv
<1>3. ASSUME NEW t \in Syncs \ {s} PROVE QueryInv(t, c)' /\ LoadInv(t, c)' /\ SaveInv(t, c)'
  <2>1. QueryInv(t, c) /\ LoadInv(t, c) /\ SaveInv(t, c) /\ Waits(t)
    BY DEF ClientInv
  <2>2. QueryInv(t, c)'
    BY <2>1, QuerySame
  <2>3. LoadInv(t, c)'
    BY <1>1, <2>1, LoadSame
  <2>4. SaveInv(t, c)'
    BY <1>1, <2>1, SaveSame DEF Same
  <2> QED
    BY <2>2, <2>3, <2>4
<1> QED
  BY <1>2, <1>3 DEF ClientInv

LEMMA ReadRowsClient ==
  ASSUME IInv, NEW c \in Clients, ClientInv(c), NEW s \in Syncs, ReadRows(s)
  PROVE  ClientInv(c)'
<1>1. /\ UNCHANGED <<agg, cred, readIn, carried, xray, db>>
      /\ pc' = [pc EXCEPT ![s] = "query"]
      /\ seen' = [seen EXCEPT ![s] = [served |-> seen[s].served, known |-> db.known]]
  BY DEF ReadRows, traffic, stores, history, Goto
<1>2. /\ pc'[s] = "query" /\ seen'[s].known = db.known
      /\ \A t \in Syncs \ {s} : pc'[t] = pc[t] /\ seen'[t] = seen[t]
  BY <1>1 DEF IInv, Types
<1>3. agg[c] # NoRow => db.known[c] # {}
  BY DEF IInv, RowsBelong
<1>4. QueryInv(s, c)' /\ LoadInv(s, c)' /\ SaveInv(s, c)'
  BY <1>1, <1>2, <1>3 DEF QueryInv, LoadInv, SaveInv
<1> QED
  BY <1>1, <1>2, <1>4, OthersWait DEF Waits

LEMMA QueryStatsClient ==
  ASSUME IInv, NEW c \in Clients, ClientInv(c), NEW s \in Syncs, QueryStats(s)
  PROVE  ClientInv(c)'
<1>1. /\ UNCHANGED <<agg, cred, readIn, carried, xray, db>> /\ pc[s] = "query" /\ Alive
      /\ pc' = [pc EXCEPT ![s] = "load"]
      /\ seen' = [seen EXCEPT ![s] = [served |-> seen[s].served, known |-> seen[s].known,
                                      stats |-> xray.counter, run |-> xray.run]]
  BY DEF QueryStats, traffic, stores, history, Goto
<1>2. /\ pc'[s] = "load" /\ seen'[s].known = seen[s].known /\ seen'[s].stats = xray.counter
      /\ seen'[s].run = xray.run
      /\ \A t \in Syncs \ {s} : pc'[t] = pc[t] /\ seen'[t] = seen[t]
  BY <1>1 DEF IInv, Types
<1>3. RowInv(c) /\ QueryInv(s, c)
  BY DEF ClientInv
<1>4. QueryInv(s, c)' /\ SaveInv(s, c)'
  BY <1>1, <1>2, <1>3 DEF QueryInv, SaveInv
<1>5. Now' = Now /\ Now = xray.run
  BY <1>1 DEF Now, Alive
<1>6. LoadInv(s, c)'
  BY <1>1, <1>2, <1>3, <1>5 DEF LoadInv, RowInv
<1> QED
  BY <1>1, <1>2, <1>4, <1>6, OthersWait DEF Waits

LEMMA StoredConns == ASSUME IInv, NEW c \in Clients PROVE db.known[c] \subseteq Conns
<1>1. db \in Stores
  BY DEF IInv, Types
<1> QED
  BY <1>1 DEF Stores, Tables

LEMMA LoadTrafficClient ==
  ASSUME IInv, BaseInv, BaseInv', NEW c \in Clients, ClientInv(c), NEW s \in Syncs,
         LoadTraffic(s)
  PROVE  ClientInv(c)'
<1> DEFINE o == Outcome(s)
           counter == xray.counter[c]
           rows == o.cred[c]
           reads == o.read[c]
           total == o.agg[c].total
<1>1. /\ UNCHANGED <<agg, cred, readIn, carried, xray, db>> /\ pc[s] = "load"
      /\ pc' = [pc EXCEPT ![s] = "save"] /\ seen' = [seen EXCEPT ![s] = o]
  BY DEF LoadTraffic, traffic, stores, history, Goto
<1>2. /\ pc'[s] = "save" /\ seen'[s] = o
      /\ \A t \in Syncs \ {s} : pc'[t] = pc[t] /\ seen'[t] = seen[t]
  BY <1>1 DEF IInv, Types
<1>3. RowInv(c) /\ QueryInv(s, c) /\ LoadInv(s, c)
  BY DEF ClientInv
<1>4. Now' = Now
  BY <1>1 DEF Now, Alive
<1>5. /\ total = agg[c].total + Bytes(Gains(s, c))
      /\ Bytes(Gains(s, c)) \in Nat /\ agg[c].total \in Nat
      /\ Gains(s, c) \in [Conns -> Nat] /\ \A x \in Conns : Gains(s, c)[x] = Gain(s, c, x)
      /\ counter \in [Conns -> Nat] /\ carried[c] \in Nat
      /\ total \in Nat
  <2>1. total = agg[c].total + Bytes(Gains(s, c))
    BY <1>1, OutcomeFields, NewTotal
  <2>2. /\ Bytes(Gains(s, c)) \in Nat /\ agg[c].total \in Nat
        /\ Gains(s, c) \in [Conns -> Nat] /\ \A x \in Conns : Gains(s, c)[x] = Gain(s, c, x)
        /\ counter \in [Conns -> Nat] /\ carried[c] \in Nat
    BY <1>1, GainTypes, UnitTypes, RowTypes
  <2> HIDE DEF total, counter
  <2>3. total \in Nat
    BY <2>1, <2>2
  <2> QED
    BY <2>1, <2>2, <2>3
<1>6. \A x \in Conns :
        /\ rows[x] = NewCred(s, c, x)
        /\ reads[x] = IF x \in Known(s, c) THEN seen[s].run ELSE readIn[c][x]
        /\ x \in Known(s, c) => rows[x] # NoRow /\ rows[x].last = seen[s].stats[c][x]
        /\ x \notin Known(s, c) => rows[x] = cred[c][x]
  BY <1>1, OutcomeFields, NewLast
<1>7. LastOK(rows, reads, c)
  BY <1>1, <1>2 DEF BaseInv, ReadInv, LastOK, Now, Alive
<1>8. Counted(total, rows, reads, counter, counter, carried[c], Now)
  <2>1. CASE seen[s].run = Now
    <3>1. PICK C \in [Conns -> Nat] :
            /\ \A x \in Conns :
                 /\ C[x] <= counter[x]
                 /\ x \in Known(s, c) => C[x] = seen[s].stats[c][x]
                 /\ x \notin Known(s, c) /\ cred[c][x] # NoRow =>
                      C[x] = IF readIn[c][x] = Now THEN cred[c][x].last ELSE 0
            /\ agg[c].total + Bytes(Gains(s, c)) + Bytes(counter) <= carried[c] + Bytes(C)
      BY <1>1, <1>3, <2>1, FreshGain
    <3> HIDE DEF o, counter, rows, reads, total
    <3>2. \A x \in Conns : rows[x] # NoRow => C[x] = IF reads[x] = Now THEN rows[x].last ELSE 0
      BY <1>6, <2>1, <3>1
    <3>3. total + Bytes(counter) <= carried[c] + Bytes(C)
      BY <1>5, <3>1
    <3> QED
      BY <3>1, <3>2, <3>3 DEF Counted
  <2>2. CASE seen[s].run # Now
    <3>1. total + Bytes(counter) <= carried[c]
      BY <1>1, <1>3, <1>5, <2>2 DEF LoadInv
    <3>2. \A x \in Conns : rows[x] # NoRow /\ reads[x] = Now =>
                             rows[x].last \in Nat /\ rows[x].last <= counter[x]
      <4>1. \A x \in Conns : rows[x] = NoRow \/ rows[x].last \in Nat
        <5>1. \A x \in Conns : seen[s].stats[c][x] \in Nat
          BY <1>1, GainTypes
        <5>2. \A x \in Conns : cred[c][x] = NoRow \/ cred[c][x].last \in Nat
          BY RowTypes
        <5> QED
          BY <1>6, <5>1, <5>2
      <4> QED
        BY <1>7, <4>1 DEF LastOK
    <3> HIDE DEF o, counter, rows, reads, total
    <3> QED
      BY <1>5, <3>1, <3>2, CountedAfresh
  <2> QED
    BY <2>1, <2>2
<1>9. ASSUME total > 0 PROVE \E x \in db.known[c] : rows[x] # NoRow
  <2>1. CASE agg[c] # NoRow
    <3>1. PICK x : x \in seen[s].known[c] /\ x \in db.known[c]
      BY <1>1, <1>3, <2>1 DEF QueryInv
    <3>2. x \in Known(s, c) /\ x \in Conns
      <4>1. db.known[c] \subseteq Conns
        BY StoredConns
      <4> QED
        BY <3>1, <4>1 DEF Known
    <3> QED
      BY <1>6, <3>1, <3>2
  <2>2. CASE agg[c] = NoRow
    <3>1. ~ \A x \in Conns : Gains(s, c)[x] = 0
      <4>1. SUFFICES ASSUME \A x \in Conns : Gains(s, c)[x] = 0 PROVE FALSE
        OBVIOUS
      <4>2. Bytes(Gains(s, c)) = 0 /\ agg[c].total = 0
        BY <2>2, <4>1, BytesZero DEF NoRow
      <4> HIDE DEF total
      <4> QED
        BY <1>5, <1>9, <4>2
    <3>2. PICK x \in Conns : Gain(s, c, x) # 0
      BY <1>5, <3>1
    <3>3. cred[c][x] # NoRow /\ x \in Known(s, c)
      BY <2>2, <3>2, GainNone DEF Gain
    <3>4. x \in db.known[c]
      BY <3>3 DEF IInv, RowsBelong
    <3> QED
      BY <1>6, <3>3, <3>4
  <2> QED
    BY <2>1, <2>2
<1>10. QueryInv(s, c)' /\ LoadInv(s, c)'
  BY <1>2 DEF QueryInv, LoadInv
<1>11. SaveInv(s, c)'
  <2>1. /\ Counted(seen'[s].agg[c].total, seen'[s].cred[c], seen'[s].read[c],
                   xray'.counter[c], xray'.counter[c], carried'[c], Now')
        /\ seen'[s].agg[c].total > 0 => \E x \in db'.known[c] : seen'[s].cred[c][x] # NoRow
    BY <1>1, <1>2, <1>4, <1>8, <1>9
  <2> QED
    BY <2>1 DEF SaveInv
<1> QED
  BY <1>1, <1>2, <1>10, <1>11, OthersWait DEF Waits

LEMMA SaveTrafficClient ==
  ASSUME IInv, NEW c \in Clients, ClientInv(c), NEW s \in Syncs, SaveTraffic(s)
  PROVE  ClientInv(c)'
<1>1. /\ UNCHANGED <<carried, xray, db>> /\ pc[s] = "save" /\ pc' = [pc EXCEPT ![s] = "idle"]
  BY DEF SaveTraffic, stores, history, EndSync, Goto
<1>2. \A t \in Syncs : pc'[t] \notin {"query", "load", "save"}
  BY <1>1, Alone DEF IInv, Types, Working
<1>3. \A t \in Syncs : QueryInv(t, c)' /\ LoadInv(t, c)' /\ SaveInv(t, c)'
  BY <1>2 DEF QueryInv, LoadInv, SaveInv
<1>4. Now' = Now
  BY <1>1 DEF Now, Alive
<1>5. /\ agg'[c] = IF db.known[c] # {} /\ seen[s].agg[c] # NoRow
                     THEN seen[s].agg[c] ELSE agg[c]
      /\ \A x \in Conns :
           /\ cred'[c][x] = IF Writable(c, x, seen[s].cred[c][x])
                              THEN seen[s].cred[c][x] ELSE cred[c][x]
           /\ readIn'[c][x] = IF Writable(c, x, seen[s].cred[c][x])
                                THEN seen[s].read[c][x] ELSE readIn[c][x]
  BY SavedRows
<1>6. RowInv(c) /\ SaveInv(s, c)
  BY DEF ClientInv
<1>7. /\ xray.counter[c] \in [Conns -> Nat]
      /\ \A x \in Conns : xray.counter[c][x] <= xray.counter[c][x]
  BY UnitTypes
<1> DEFINE rows2 == cred'[c]
           reads2 == readIn'[c]
           counter == xray.counter[c]
<1>8. CASE db.known[c] = {}
  <2>1. \A x \in Conns : rows2[x] = cred[c][x] /\ reads2[x] = readIn[c][x]
    BY <1>5, <1>8 DEF Writable
  <2>2. Counted(agg[c].total, cred[c], readIn[c], counter, counter, carried[c], Now)
    BY <1>6 DEF RowInv
  <2>3. Counted(agg[c].total, rows2, reads2, counter, counter, carried[c], Now)
    <3> HIDE DEF rows2, reads2, counter
    <3> QED
      BY <1>7, <2>1, <2>2, CountedSame DEF counter
  <2>4. RowInv(c)'
    BY <1>1, <1>4, <1>5, <1>6, <1>8, <2>1, <2>3 DEF RowInv
  <2> QED
    BY <1>3, <2>4 DEF ClientInv
<1>9. CASE db.known[c] # {}
  <2>1. OutcomeOK(seen[s])
    BY <1>1 DEF IInv, SeenOK
  <2>2. /\ agg[c] = NoRow \/ seen[s].agg[c] # NoRow
        /\ \A x \in Conns : cred[c][x] = NoRow \/ seen[s].cred[c][x] # NoRow
    BY <2>1 DEF OutcomeOK, GrownFrom
  <2>3. agg'[c] = seen[s].agg[c]
    BY <1>5, <1>9, <2>2
  <2>4. \A x \in Conns : cred[c][x] # NoRow => x \in db.known[c]
    BY DEF IInv, RowsBelong
  <2>5. \A x \in Conns :
          /\ rows2[x] # NoRow => rows2[x] = seen[s].cred[c][x] /\ reads2[x] = seen[s].read[c][x]
          /\ x \in db.known[c] /\ seen[s].cred[c][x] # NoRow => rows2[x] # NoRow
    BY <1>5, <2>2, <2>4 DEF Writable
  <2>6. /\ Counted(seen[s].agg[c].total, seen[s].cred[c], seen[s].read[c], counter,
                   counter, carried[c], Now)
        /\ seen[s].agg[c].total > 0 => \E x \in db.known[c] : seen[s].cred[c][x] # NoRow
    BY <1>1, <1>6, <1>9 DEF SaveInv
  <2>7. Counted(seen[s].agg[c].total, rows2, reads2, counter, counter, carried[c], Now)
    <3> HIDE DEF rows2, reads2, counter
    <3> QED
      BY <1>7, <2>5, <2>6, CountedSame DEF counter
  <2>8. (\A x \in Conns : rows2[x] = NoRow) => seen[s].agg[c].total = 0
    <3>1. seen[s].agg[c].total \in Nat /\ db.known[c] \subseteq Conns
      BY <1>1, RowTypes, StoredConns
    <3> QED
      BY <2>5, <2>6, <3>1
  <2>9. RowInv(c)'
    BY <1>1, <1>4, <2>3, <2>7, <2>8 DEF RowInv
  <2> QED
    BY <1>3, <2>9 DEF ClientInv
<1> QED
  BY <1>8, <1>9

LEMMA SyncClient ==
  ASSUME IInv, BaseInv, BaseInv', NEW c \in Clients, ClientInv(c), NEW s \in Syncs,
         StartSync(s) \/ AcquireTraffic(s) \/ SyncStep(s) \/ SyncDies(s)
  PROVE  ClientInv(c)'
<1>1. CASE ReadRows(s)
  BY <1>1, ReadRowsClient
<1>2. CASE QueryStats(s)
  BY <1>2, QueryStatsClient
<1>3. CASE LoadTraffic(s)
  BY <1>3, LoadTrafficClient
<1>4. CASE SaveTraffic(s)
  BY <1>4, SaveTrafficClient
<1>5. CASE StartSync(s) \/ AcquireTraffic(s) \/ ReadConfig(s) \/ QueryFails(s) \/ SyncDies(s)
  <2>1. UNCHANGED <<agg, cred, readIn, carried, xray, db>>
    BY <1>5 DEF StartSync, AcquireTraffic, ReadConfig, QueryFails, SyncDies, traffic,
                history, stores
  <2>2. PICK step, v :
          /\ step \in {"waiting", "config", "rows", "idle"}
          /\ pc' = [pc EXCEPT ![s] = step]
          /\ seen' = seen \/ seen' = [seen EXCEPT ![s] = v]
    BY <1>5 DEF StartSync, AcquireTraffic, ReadConfig, QueryFails, SyncDies, EndSync, Goto
  <2>3. pc \in [Syncs -> SyncSteps] /\ DOMAIN seen = Syncs
    BY DEF IInv, Types
  <2>4. pc'[s] \notin {"query", "load", "save"}
        /\ \A t \in Syncs \ {s} : pc'[t] = pc[t] /\ seen'[t] = seen[t]
    BY <2>2, <2>3
  <2>5. QueryInv(s, c)' /\ LoadInv(s, c)' /\ SaveInv(s, c)'
    BY <2>4 DEF QueryInv, LoadInv, SaveInv
  <2> QED
    BY <2>1, <2>4, <2>5, OthersWait DEF Waits
<1> QED
  BY <1>1, <1>2, <1>3, <1>4, <1>5 DEF SyncStep

-----------------------------------------------------------------------------
(***************************************************************************)
(* Steps of the command.                                                   *)
(***************************************************************************)
LEMMA CommitFacts ==
  ASSUME IInv, CommitCommand
  PROVE  /\ command # NoCommand /\ command.step = "save" /\ command' = NoCommand
         /\ UNCHANGED <<pc, seen, config, xray, mishaps>> /\ Now' = Now
         /\ db' = command.db
         /\ \A c \in Clients :
              /\ agg'[c] = Cascade(command.db.known[c] # {}, agg[c])
              /\ \A x \in Conns :
                   /\ cred'[c][x] = Cascade(x \in command.db.known[c], cred[c][x])
                   /\ readIn'[c][x] = IF x \in command.db.known[c] THEN readIn[c][x] ELSE 0
              /\ cred[c] \in [Conns -> Rows] /\ cred'[c] \in [Conns -> Rows]
              /\ carried'[c] = IF c \in Deleted THEN 0 ELSE carried[c]
<1>1. /\ command.step = "save" /\ command' = NoCommand
      /\ UNCHANGED <<pc, seen, config, xray, mishaps>> /\ db' = command.db
      /\ agg' = [c \in Clients |-> Cascade(command.db.known[c] # {}, agg[c])]
      /\ cred' = [c \in Clients |-> [x \in Conns |->
                    Cascade(x \in command.db.known[c], cred[c][x])]]
      /\ readIn' = [c \in Clients |-> [x \in Conns |->
                      IF x \in command.db.known[c] THEN readIn[c][x] ELSE 0]]
      /\ carried' = [c \in Clients |-> IF c \in Deleted THEN 0 ELSE carried[c]]
  BY DEF CommitCommand
<1>2. command # NoCommand /\ Now' = Now
  BY <1>1, AtWork DEF Now, Alive
<1>3. ASSUME NEW c \in Clients PROVE cred[c] \in [Conns -> Rows] /\ cred'[c] \in [Conns -> Rows]
  <2>1. cred[c] \in [Conns -> Rows] /\ NoRow \in Rows
    BY RowTypes, GoodNoRow DEF GoodRow
  <2>2. cred'[c] = [x \in Conns |-> Cascade(x \in command.db.known[c], cred[c][x])]
    BY <1>1
  <2> QED
    BY <2>1, <2>2 DEF Cascade
<1> QED
  BY <1>1, <1>2, <1>3

\* A client that is deleted leaves nothing.
LEMMA DeletedClient ==
  ASSUME IInv, BaseInv, CommitCommand, NEW c \in Deleted
  PROVE  ClientInv(c)'
<1>1. c \in Clients /\ db.known[c] # {} /\ command.db.known[c] = {}
  BY DEF Deleted
<1>2. \A x \in Conns : xray.counter[c][x] = 0
  BY CommitFacts, DeletedIdle DEF BaseInv
<1>3. /\ agg'[c] = NoRow /\ \A x \in Conns : cred'[c][x] = NoRow
      /\ carried'[c] = 0 /\ db'.known[c] = {} /\ UNCHANGED <<pc, seen, xray>> /\ Now' = Now
  BY <1>1, CommitFacts DEF Cascade
<1>4. NoRow.total = 0
  BY DEF NoRow
<1>5. Bytes(xray.counter[c]) = 0 /\ xray.counter[c] \in [Conns -> Nat]
  BY <1>1, <1>2, BytesZero, UnitTypes
<1> DEFINE rows == cred'[c]
           reads == readIn'[c]
<1>6. ASSUME NEW cap \in [Conns -> Nat]
      PROVE  Counted(0, rows, reads, cap, xray.counter[c], 0, Now)
  <2>1. \A x \in Conns : rows[x] = NoRow
    BY <1>3
  <2> DEFINE counter == xray.counter[c]
             none == 0
  <2>2. none + Bytes(counter) <= none /\ none \in Nat /\ counter \in [Conns -> Nat]
    BY <1>5
  <2> HIDE DEF rows, reads, counter, none
  <2>3. Counted(none, rows, reads, cap, counter, none, Now)
    BY <2>1, <2>2, CountedAfresh
  <2> QED
    BY <2>3 DEF counter, none
<1>7. RowInv(c)'
  <2>1. Counted(0, rows, reads, xray.counter[c], xray.counter[c], 0, Now)
    BY <1>5, <1>6
  <2> QED
    BY <1>3, <1>4, <2>1 DEF RowInv
<1>8. ASSUME NEW s \in Syncs PROVE QueryInv(s, c)' /\ LoadInv(s, c)' /\ SaveInv(s, c)'
  <2>1. QueryInv(s, c)' /\ SaveInv(s, c)'
    BY <1>3 DEF QueryInv, SaveInv
  <2>2. ASSUME pc[s] = "load" PROVE LoadInv(s, c)'
    <3>1. Counted(0, rows, reads, seen[s].stats[c], xray.counter[c], 0, Now)
      BY <1>1, <1>6, <2>2, GainTypes
    <3>2. Bytes(Gains(s, c))' = 0
      <4>1. \A x \in Conns : Gain(s, c, x)' = 0
        <5>1. \A x \in Conns : Opening(s, c, x)' = NoRow
          BY <1>3 DEF Opening
        <5> QED
          BY <5>1 DEF Gain, Delta, NoRow
      <4> DEFINE g == Gains(s, c)'
      <4>2. \A x \in Conns : g[x] = 0
        BY <4>1 DEF Gains
      <4> HIDE DEF g
      <4>3. Bytes(g) = 0
        BY <4>2, BytesZero
      <4> QED
        BY <4>3 DEF g, Bytes
    <3>3. agg'[c].total + Bytes(Gains(s, c))' + Bytes(xray'.counter[c]) <= carried'[c]
      BY <1>3, <1>4, <1>5, <3>2
    <3> QED
      BY <1>3, <1>4, <3>1, <3>3 DEF LoadInv
  <2>3. ASSUME pc[s] # "load" PROVE LoadInv(s, c)'
    BY <1>3, <2>3 DEF LoadInv
  <2> QED
    BY <2>1, <2>2, <2>3
<1> QED
  BY <1>7, <1>8 DEF ClientInv

\* A client that is made anew has no rows, and no sync has any for it.
LEMMA CreatedSave ==
  ASSUME IInv, BaseInv, CommitCommand, NEW c \in Clients, c \notin reborn',
         db.known[c] = {}, command.db.known[c] # {}, NEW s \in Syncs
  PROVE  SaveInv(s, c)'
<1> SUFFICES ASSUME pc'[s] = "save" PROVE SaveInv(s, c)'
  BY DEF SaveInv
<1>1. /\ UNCHANGED <<pc, seen, xray>> /\ Now' = Now /\ carried'[c] = carried[c]
  BY CommitFacts DEF Deleted
<1>2. /\ seen[s].agg[c].total \in Nat
      /\ \A x \in Conns : seen[s].cred[c][x] = NoRow \/ seen[s].cred[c][x].last \in Nat
  BY <1>1, RowTypes
<1>3. seen[s].agg[c].total = 0
  <2>1. ~ seen[s].agg[c].total > 0
    BY <1>1 DEF CommitCommand
  <2> QED
    BY <1>2, <2>1
<1> DEFINE rows == seen[s].cred[c]
           reads == seen[s].read[c]
           counter == xray.counter[c]
<1>4. \A x \in Conns : rows[x] # NoRow /\ reads[x] = Now =>
                         rows[x].last \in Nat /\ rows[x].last <= counter[x]
  BY <1>1, <1>2 DEF BaseInv, ReadInv, LastOK
<1>5. 0 + Bytes(counter) <= carried[c] /\ counter \in [Conns -> Nat] /\ carried[c] \in Nat
  <2>1. Bytes(counter) <= carried[c] /\ counter \in [Conns -> Nat] /\ carried[c] \in Nat
    BY UnitTypes DEF BaseInv, UnitInv
  <2>2. Bytes(counter) \in Nat
    BY <2>1, BytesNat
  <2> QED
    BY <2>1, <2>2
<1>6. Counted(0, rows, reads, counter, counter, carried[c], Now)
  <2> HIDE DEF rows, reads, counter
  <2> QED
    BY <1>4, <1>5, CountedAfresh
<1> QED
  BY <1>1, <1>3, <1>6 DEF SaveInv

LEMMA CommitClient ==
  ASSUME IInv, BaseInv, CommitCommand, NEW c \in Clients \ (reborn' \union moved'),
         c \notin reborn \union moved => ClientInv(c)
  PROVE  ClientInv(c)'
<1>1. CASE c \in Deleted
  BY <1>1, DeletedClient
<1>2. CASE c \notin Deleted
  <2>1. ClientInv(c)
    BY <1>2 DEF CommitCommand
  <2>2. db.known[c] \subseteq command.db.known[c]
    <3>1. \/ db.known[c] \subseteq command.db.known[c]
          \/ command.db.known[c] = {}
          \/ command.db.known[c] # {} /\ db.known[c] \intersect command.db.known[c] = {}
      BY CommitFacts DEF BaseInv, CommandInv
    <3>2. CASE command.db.known[c] = {}
      BY <1>2, <3>2 DEF Deleted
    <3>3. CASE command.db.known[c] # {} /\ db.known[c] \intersect command.db.known[c] = {}
      <4>1. db.known[c] = {}
        BY <3>3 DEF CommitCommand
      <4> QED
        BY <4>1
    <3> QED
      BY <3>1, <3>2, <3>3
  <2>3. /\ agg[c] # NoRow => db.known[c] # {}
        /\ \A x \in Conns : cred[c][x] # NoRow => x \in db.known[c]
    BY DEF IInv, RowsBelong
  <2>4. Same(c) /\ db' = command.db /\ UNCHANGED <<pc, seen>>
    <3>1. agg'[c] = agg[c]
      BY <2>2, <2>3, CommitFacts DEF Cascade
    <3>2. /\ \A x \in Conns : cred'[c][x] = cred[c][x]
          /\ \A x \in Conns : cred[c][x] # NoRow => readIn'[c][x] = readIn[c][x]
      BY <2>2, <2>3, CommitFacts DEF Cascade
    <3>3. cred'[c] = cred[c]
      <4>1. cred[c] \in [Conns -> Rows] /\ cred'[c] \in [Conns -> Rows]
        BY CommitFacts
      <4> QED
        BY <3>2, <4>1
    <3>4. /\ carried'[c] = carried[c] /\ UNCHANGED <<xray, pc, seen>> /\ Now' = Now
          /\ db' = command.db
      BY <1>2, CommitFacts
    <3> QED
      BY <3>1, <3>2, <3>3, <3>4 DEF Same
  <2>5. RowInv(c)'
    BY <2>1, <2>4, RowSame DEF ClientInv
  <2>6. ASSUME NEW s \in Syncs PROVE QueryInv(s, c)' /\ LoadInv(s, c)' /\ SaveInv(s, c)'
    <3>1. QueryInv(s, c) /\ LoadInv(s, c) /\ SaveInv(s, c) /\ Waits(s)
      BY <2>1, <2>4 DEF ClientInv, Waits
    <3>2. QueryInv(s, c)'
      BY <2>2, <2>4, <3>1, QuerySame DEF Same
    <3>3. LoadInv(s, c)'
      BY <2>4, <3>1, LoadSame
    <3>4. SaveInv(s, c)'
      <4>1. CASE db.known[c] # {} \/ command.db.known[c] = {}
        BY <2>2, <2>4, <3>1, <4>1, SaveSame DEF Same
      <4>2. CASE db.known[c] = {} /\ command.db.known[c] # {}
        BY <4>2, CreatedSave
      <4> QED
        BY <4>1, <4>2
    <3> QED
      BY <3>2, <3>3, <3>4
  <2> QED
    BY <2>5, <2>6 DEF ClientInv
<1> QED
  BY <1>1, <1>2

-----------------------------------------------------------------------------
CountInv == \A c \in Clients \ (reborn \union moved) : ClientInv(c)

\* Xray keeps its counters, and no row is touched.
LEMMA StillCount ==
  ASSUME IInv, CountInv, UNCHANGED <<agg, cred, readIn, carried, db, reborn, moved>>,
         xray'.counter = xray.counter, Now' = Now, \A s \in Syncs : Waits(s)
  PROVE  CountInv'
<1>1. ASSUME NEW c \in Clients, c \notin reborn \union moved PROVE ClientInv(c)'
  <2>1. ClientInv(c)
    BY <1>1 DEF CountInv
  <2> QED
    BY <2>1, ClientSame DEF Same
<1> QED
  BY <1>1 DEF CountInv

LEMMA ResetCount ==
  ASSUME IInv, IInv', BaseInv, CountInv,
         UNCHANGED <<agg, cred, readIn, carried, pc, seen, db, reborn, moved>>,
         xray'.counter = Zero, Now' = Never \/ Now' > xray.run
  PROVE  CountInv'
<1>1. ASSUME NEW c \in Clients, c \notin reborn \union moved PROVE ClientInv(c)'
  <2>1. ClientInv(c)
    BY <1>1 DEF CountInv
  <2>2. \A x \in Conns : xray'.counter[c][x] = 0
    BY DEF Zero
  <2> QED
    BY <2>1, <2>2, ResetClient
<1> QED
  BY <1>1 DEF CountInv

LEMMA CountKeeps ==
  ASSUME IInv, IInv', BaseInv, BaseInv', CountInv, [Next]_vars PROVE CountInv'
<1>0. UnitInv /\ CommandInv /\ ReadInv
  BY DEF BaseInv
<1> DEFINE Rest == UNCHANGED <<agg, cred, readIn, carried, db, reborn, moved>>
<1>1. ASSUME NEW s \in Syncs,
             StartSync(s) \/ AcquireTraffic(s) \/ SyncStep(s) \/ SyncDies(s)
      PROVE  CountInv'
  <2>1. UNCHANGED <<reborn, moved>>
    BY <1>0, <1>1, SyncUnit
  <2>2. ASSUME NEW c \in Clients, c \notin reborn \union moved PROVE ClientInv(c)'
    <3>1. ClientInv(c)
      BY <2>2 DEF CountInv
    <3> QED
      BY <1>1, <3>1, SyncClient
  <2> QED
    BY <2>1, <2>2 DEF CountInv
<1>2. CASE BeginCommand \/ XrayStopped \/ StopTimeout \/ StartFails \/ CommitFails
           \/ CommandDies \/ UNCHANGED vars
  <2>1. Rest /\ UNCHANGED <<xray, pc, seen>>
    BY <1>2 DEF BeginCommand, XrayStopped, StopTimeout, StartFails, CommitFails, CommandDies,
                vars, traffic, stores, history
  <2>2. Now' = Now
    BY <2>1 DEF Now, Alive
  <2> QED
    BY <2>1, <2>2, StillCount DEF Waits
<1>3. CASE StopXray
  <2>1. Rest /\ UNCHANGED seen /\ (pc' = pc \/ pc' = [pc EXCEPT ![ExecStop] = "waiting"])
    BY <1>3 DEF StopXray, Goto, traffic, stores, history
  <2>2. \A s \in Syncs : Waits(s)
    <3>1. pc \in [Syncs -> SyncSteps]
      BY DEF IInv, Types
    <3> QED
      BY <2>1, <3>1 DEF Waits
  <2>3. Now' = Now /\ xray'.counter = xray.counter
    BY <1>0, <1>3, StopXrayUnit
  <2> QED
    BY <2>1, <2>2, <2>3, StillCount
<1>4. CASE StartXray \/ XrayStarts
  <2>1. ~ Alive /\ xray' = Started /\ Rest /\ UNCHANGED <<pc, seen>>
    BY <1>0, <1>4, StartXrayUnit, XrayStartsUnit DEF StartXray, XrayStarts, traffic, stores,
       history
  <2>2. xray'.counter = Zero /\ Now' = xray.run + 1 /\ xray.run \in Nat
    BY <1>0, <2>1, StartedUnit, UnitTypes
  <2>3. Now' > xray.run
    BY <2>2
  <2> QED
    BY <2>1, <2>2, <2>3, ResetCount
<1>5. CASE KillXray \/ XrayExits
  <2>1. /\ Rest /\ UNCHANGED <<pc, seen>> /\ xray'.counter = Zero /\ Now' = Never
    BY <1>0, <1>5, KillXrayUnit, XrayExitsUnit DEF KillXray, XrayExits, traffic, stores, history
  <2> QED
    BY <2>1, ResetCount
<1>6. CASE CommitCommand
  BY <1>6, CommitClient DEF CountInv
<1>7. ASSUME NEW b \in Clients, NEW x \in Conns, Carry(b, x) PROVE CountInv'
  <2>2. UNCHANGED <<agg, cred, readIn, db, reborn, moved, pc, seen>>
    BY <1>7 DEF Carry, traffic, stores
  <2>3. ASSUME NEW c \in Clients, c \notin reborn \union moved PROVE ClientInv(c)'
    <3>1. ClientInv(c)
      BY <2>3 DEF CountInv
    <3>2. CASE c = b
      BY <1>7, <3>1, <3>2, CarryClient
    <3>3. CASE c # b
      <4>1. xray'.counter[c] = xray.counter[c] /\ Now' = Now
            /\ carried' = [carried EXCEPT ![b] = carried[b] + 1]
        BY <1>0, <1>7, <3>3, CarryUnit
      <4>2. carried'[c] = carried[c]
        BY <3>3, <4>1 DEF IInv, Types
      <4> QED
        BY <2>2, <3>1, <4>1, <4>2, ClientSame DEF Same, Waits
    <3> QED
      BY <3>2, <3>3
  <2> QED
    BY <2>2, <2>3 DEF CountInv
<1> QED
  BY <1>1, <1>2, <1>3, <1>4, <1>5, <1>6, <1>7 DEF Next, CommandStep

-----------------------------------------------------------------------------
(***************************************************************************)
(* No new client inherits a slow sync's totals, as long as nothing dies.   *)
(* While such totals are on their way, the client is served nowhere, and   *)
(* the Xray its deletion was announced to still runs: the stop a new       *)
(* client would need waits in ExecStop for the sync.                       *)
(***************************************************************************)
Pending(s, c) == pc[s] = "save" /\ db.known[c] = {} /\ seen[s].agg[c].total > 0

Held(c) ==
  /\ Alive
  /\ xray.state = "stopping" => pc[ExecStop] # "idle"
  /\ command.step # "stopped"
  /\ command = NoCommand => config.served[c] = {}
  /\ command # NoCommand =>
       /\ command.oldCfg.served[c] = {}
       /\ command.undo \/ command.kind # "apply" => config.served[c] = {}
       /\ command.step = "save" => command.kind # "apply" /\ command.db.known[c] = {}

QuietInv ==
  /\ mishaps \in Nat
  /\ mishaps = 0 =>
       /\ reborn = {}
       /\ command.step = "save" /\ command.kind = "apply" => xray.state = "up"
       /\ \A s \in Syncs, c \in Clients : Pending(s, c) => Held(c)

\* A mishap ends the claim.
LEMMA MishapQuiet == ASSUME QuietInv, Mishap PROVE QuietInv'
<1>1. mishaps \in Nat /\ mishaps' = mishaps + 1
  BY DEF QuietInv, Mishap
<1>2. mishaps' \in Nat /\ mishaps' # 0
  BY <1>1
<1> QED
  BY <1>2 DEF QuietInv

\* What a sync computes for a client manager.db does not have is nothing.
LEMMA UnknownGainsNothing ==
  ASSUME IInv, NEW s \in Syncs, pc[s] = "load", NEW c \in Clients, db.known[c] = {}
  PROVE  Outcome(s).agg[c].total = 0
<1>1. agg[c] = NoRow /\ \A x \in Conns : cred[c][x] = NoRow
  BY DEF IInv, RowsBelong
<1>2. \A x \in Conns : Gains(s, c)[x] = 0
  BY <1>1, GainNone DEF Gains
<1>3. Bytes(Gains(s, c)) = 0 /\ agg[c].total = 0
  BY <1>1, <1>2, BytesZero DEF NoRow
<1>4. Outcome(s).agg[c].total = agg[c].total + Bytes(Gains(s, c))
  BY OutcomeFields, NewTotal
<1> QED
  BY <1>3, <1>4

LEMMA SyncQuiet ==
  ASSUME IInv, BaseInv, QuietInv, NEW s \in Syncs,
         StartSync(s) \/ AcquireTraffic(s) \/ SyncStep(s) \/ SyncDies(s)
  PROVE  QuietInv'
<1>1. UNCHANGED <<command, config, db, xray, reborn>>
  BY SyncUnit DEF BaseInv
<1>2. CASE Mishap
  BY <1>2, MishapQuiet
<1>3. CASE ~ Mishap
  <2>1. UNCHANGED mishaps /\ (SyncDies(s) => s # ExecStop)
    BY <1>3 DEF StartSync, AcquireTraffic, SyncStep, ReadConfig, ReadRows, QueryStats,
                QueryFails, LoadTraffic, SaveTraffic, SyncDies, history
  <2>2. PICK step \in SyncSteps : pc' = [pc EXCEPT ![s] = step]
    BY DEF StartSync, AcquireTraffic, SyncStep, ReadConfig, ReadRows, QueryStats,
           QueryFails, LoadTraffic, SaveTraffic, SyncDies, EndSync, Goto, SyncSteps
  <2>3. PICK v : seen' = seen \/ seen' = [seen EXCEPT ![s] = v]
    BY DEF StartSync, AcquireTraffic, SyncStep, ReadConfig, ReadRows, QueryStats,
           QueryFails, LoadTraffic, SaveTraffic, SyncDies, EndSync
  <2>4. \A t \in Syncs \ {s} : pc'[t] = pc[t] /\ seen'[t] = seen[t]
    BY <2>2, <2>3 DEF IInv, Types
  <2>5. pc'[s] = "save" =>
          pc[s] = "load" /\ seen'[s] = Outcome(s)
    BY DEF StartSync, AcquireTraffic, SyncStep, ReadConfig, ReadRows, QueryStats,
           QueryFails, LoadTraffic, SaveTraffic, SyncDies, EndSync, Goto, IInv, Types
  <2>6. ASSUME mishaps = 0, NEW t \in Syncs, NEW c \in Clients, Pending(t, c)'
        PROVE  Held(c)'
    <3>1. t # s
      <4>1. SUFFICES ASSUME t = s PROVE FALSE
        OBVIOUS
      <4>2. pc[s] = "load" /\ seen'[s] = Outcome(s) /\ db.known[c] = {}
            /\ seen'[s].agg[c].total > 0
        BY <1>1, <2>5, <2>6, <4>1 DEF Pending
      <4>3. seen'[s].agg[c].total = 0
        BY <4>2, UnknownGainsNothing
      <4> QED
        BY <4>2, <4>3
    <3>2. Pending(t, c) /\ pc[t] \in Working
      BY <1>1, <2>4, <2>6, <3>1 DEF Pending, Working
    <3>3. Held(c)
      BY <2>6, <3>2 DEF QuietInv
    <3>4. pc[s] \notin Working
      BY <3>1, <3>2, Alone
    <3>5. CASE s = ExecStop
      <4>1. AcquireTraffic(s)
        BY <2>1, <3>4, <3>5, SyncsAssumption
           DEF StartSync, SyncStep, ReadConfig, ReadRows, QueryStats, QueryFails, LoadTraffic,
               SaveTraffic, Working
      <4>2. pc'[ExecStop] = "config"
        BY <3>5, <4>1 DEF AcquireTraffic, Goto, IInv, Types
      <4> QED
        BY <1>1, <3>3, <4>2 DEF Held, Alive
    <3>6. CASE s # ExecStop
      <4>1. pc'[ExecStop] = pc[ExecStop]
        BY <2>4, <3>6 DEF Syncs
      <4> QED
        BY <1>1, <3>3, <4>1 DEF Held, Alive
    <3> QED
      BY <3>5, <3>6
  <2> QED
    BY <1>1, <2>1, <2>6 DEF QuietInv
<1> QED
  BY <1>2, <1>3

\* No sync moves.
LEMMA StepQuiet ==
  ASSUME QuietInv, UNCHANGED <<mishaps, seen>>,
         mishaps = 0 =>
           /\ reborn' = {}
           /\ command'.step = "save" /\ command'.kind = "apply" => xray'.state = "up"
           /\ \A s \in Syncs, c \in Clients : Pending(s, c)' => Held(c)'
  PROVE  QuietInv'
  BY DEF QuietInv

LEMMA BeginCommandQuiet ==
  ASSUME IInv, QuietInv, BeginCommand PROVE QuietInv'
<1>1. config \in Configs /\ db \in Stores
  BY DEF IInv, Types
<1>2. PICK r \in Commands : \E k \in Candidates(r, config, db) :
        /\ command' = [step |-> IF k.kind = "apply" THEN "written" ELSE "save",
                       undo |-> FALSE, kind |-> k.kind, db |-> k.db, oldCfg |-> config]
        /\ config' = k.cfg
  BY DEF BeginCommand
<1>3. PICK k \in Candidates(r, config, db) :
        /\ command' = [step |-> IF k.kind = "apply" THEN "written" ELSE "save",
                       undo |-> FALSE, kind |-> k.kind, db |-> k.db, oldCfg |-> config]
        /\ config' = k.cfg
  BY <1>2
<1>4. KnownStep(k, config, db)
  BY <1>1, ConnsAssumption, CandidatesKnown DEF Commands
<1>5. UNCHANGED <<xray, db, pc, seen, mishaps, reborn>> /\ command = NoCommand
  BY DEF BeginCommand, history
<1>6. /\ command'.step = (IF k.kind = "apply" THEN "written" ELSE "save")
      /\ command'.kind = k.kind /\ command'.db = k.db /\ command'.oldCfg = config
      /\ command'.undo = FALSE /\ command' # NoCommand
  BY <1>3 DEF NoCommand
<1>7. ASSUME mishaps = 0, NEW s \in Syncs, NEW c \in Clients, Pending(s, c)' PROVE Held(c)'
  <2>1. Held(c) /\ db.known[c] = {}
    BY <1>5, <1>7 DEF QuietInv, Pending
  <2>2. config.served[c] = {}
    BY <1>5, <2>1 DEF Held
  <2>3. k.kind # "apply" => k.cfg.served[c] = {} /\ k.db.known[c] = {}
    BY <1>4, <2>1, <2>2 DEF KnownStep
  <2> QED
    BY <1>3, <1>5, <1>6, <2>1, <2>2, <2>3 DEF Held, Alive
<1> QED
  BY <1>5, <1>6, <1>7, StepQuiet DEF QuietInv

LEMMA RollBackQuiet ==
  ASSUME IInv, QuietInv, command # NoCommand, RollBack,
         UNCHANGED <<xray, db, pc, seen, mishaps, reborn>>
  PROVE  QuietInv'
<1>1. command \in [step : {"written", "stopping", "stopped", "save"}, undo : BOOLEAN,
                   kind : Kinds, db : Stores, oldCfg : Configs]
  BY DEF IInv, Types, CommandOK
<1>2. \/ /\ command.undo \/ command.kind # "apply"
         /\ command' = NoCommand /\ config' = config
      \/ /\ command'.step = "written" /\ command'.oldCfg = command.oldCfg
         /\ config' = command.oldCfg /\ command' # NoCommand
  BY <1>1 DEF RollBack, NoCommand
<1>3. command'.step \in {"idle", "written"}
  BY <1>2 DEF NoCommand
<1>4. ASSUME mishaps = 0, NEW s \in Syncs, NEW c \in Clients, Pending(s, c)' PROVE Held(c)'
  <2>1. Held(c)
    BY <1>4 DEF QuietInv, Pending
  <2>2. command'.step # "stopped" /\ command'.step # "save"
    BY <1>3
  <2> QED
    BY <1>2, <2>1, <2>2 DEF Held, Alive
<1> QED
  BY <1>3, <1>4, StepQuiet DEF QuietInv

LEMMA StopXrayQuiet ==
  ASSUME IInv, BaseInv, QuietInv, StopXray PROVE QuietInv'
<1>1. command # NoCommand /\ command.step = "written"
  BY AtWork DEF StopXray
<1>2. command \in [step : {"written", "stopping", "stopped", "save"}, undo : BOOLEAN,
                   kind : Kinds, db : Stores, oldCfg : Configs]
  BY <1>1 DEF IInv, Types, CommandOK
<1>3. /\ command'.step = "stopping" /\ command'.undo = command.undo
      /\ command'.kind = command.kind /\ command'.db = command.db
      /\ command'.oldCfg = command.oldCfg /\ command' # NoCommand
  BY <1>2 DEF StopXray, NoCommand
<1>4. UNCHANGED <<config, db, seen, mishaps, reborn>>
  BY DEF StopXray, stores, history
<1>5. pc \in [Syncs -> SyncSteps] /\ ExecStop \in Syncs
      /\ xray \in [state : UnitStates, served : Served, counter : Counters, run : Nat]
  BY DEF IInv, Types, UnitOK, Syncs
<1>6. CASE xray.state = "up"
  <2>1. xray'.state = "stopping" /\ pc'[ExecStop] = "waiting"
        /\ \A t \in Syncs \ {ExecStop} : pc'[t] = pc[t]
    BY <1>5, <1>6 DEF StopXray, Goto
  <2>2. ASSUME mishaps = 0, NEW s \in Syncs, NEW c \in Clients, Pending(s, c)' PROVE Held(c)'
    <3>1. Held(c)
      BY <1>4, <2>1, <2>2 DEF QuietInv, Pending
    <3> QED
      BY <1>1, <1>3, <1>4, <2>1, <3>1 DEF Held, Alive
  <2> QED
    BY <1>3, <1>4, <2>2, StepQuiet DEF QuietInv
<1>7. CASE xray.state # "up"
  <2>1. UNCHANGED pc /\ (xray.state = "stopping" => xray'.state = "stopping")
    BY <1>5, <1>7 DEF StopXray
  <2>2. ASSUME mishaps = 0, NEW s \in Syncs, NEW c \in Clients, Pending(s, c)' PROVE Held(c)'
    <3>1. Held(c)
      BY <1>4, <2>1, <2>2 DEF QuietInv, Pending
    <3>2. xray.state = "stopping"
      BY <1>7, <3>1 DEF Held, Alive
    <3> QED
      BY <1>1, <1>3, <1>4, <2>1, <3>1, <3>2 DEF Held, Alive
  <2> QED
    BY <1>3, <1>4, <2>2, StepQuiet DEF QuietInv
<1> QED
  BY <1>6, <1>7

\* Xray starts or stops when nothing is pending.
LEMMA UnitQuiet ==
  ASSUME QuietInv, UNCHANGED <<mishaps, seen, reborn, pc, db>>,
         mishaps = 0 =>
           /\ command'.step = "save" /\ command'.kind = "apply" => xray'.state = "up"
           /\ \A c \in Clients : ~ Held(c)
  PROVE  QuietInv'
<1>1. ASSUME mishaps = 0, NEW s \in Syncs, NEW c \in Clients PROVE ~ Pending(s, c)'
  BY <1>1 DEF QuietInv, Pending
<1> QED
  BY <1>1, StepQuiet DEF QuietInv

LEMMA CommitCommandQuiet ==
  ASSUME IInv, BaseInv, QuietInv, CommitCommand PROVE QuietInv'
<1>1. /\ command # NoCommand /\ command.step = "save" /\ command' = NoCommand
      /\ UNCHANGED <<pc, seen, config, xray, mishaps>> /\ db' = command.db
  BY CommitFacts
<1>2. command'.step = "idle"
  BY <1>1 DEF NoCommand
<1>3. ASSUME mishaps = 0 PROVE reborn' = {}
  <2>1. ASSUME NEW c \in Clients, NEW s \in Syncs, Pending(s, c) PROVE command.db.known[c] = {}
    BY <1>1, <1>3, <2>1 DEF QuietInv, Held
  <2>2. reborn' = reborn \union
          {c \in Clients : /\ db.known[c] = {} /\ command.db.known[c] # {}
                           /\ \E s \in Syncs : pc[s] = "save" /\ seen[s].agg[c].total > 0}
    BY DEF CommitCommand
  <2>3. reborn = {}
    BY <1>3 DEF QuietInv
  <2> QED
    BY <2>1, <2>2, <2>3 DEF Pending
<1>4. ASSUME mishaps = 0, NEW s \in Syncs, NEW c \in Clients, Pending(s, c)' PROVE Held(c)'
  <2>1. pc[s] = "save" /\ command.db.known[c] = {} /\ seen[s].agg[c].total > 0
    BY <1>1, <1>4 DEF Pending
  <2>2. CASE db.known[c] = {}
    <3>1. Held(c)
      BY <1>4, <2>1, <2>2 DEF QuietInv, Pending
    <3> QED
      BY <1>1, <1>2, <3>1 DEF Held, Alive
  <2>3. CASE db.known[c] # {}
    <3>1. ~ command.undo
      BY <1>1 DEF BaseInv, UnitInv
    <3>2. command.kind = "apply" /\ config.served[c] = {}
      BY <1>1, <2>1, <2>3, <3>1 DEF BaseInv, CommandInv
    <3>3. xray.state = "up"
      BY <1>1, <1>4, <3>2 DEF QuietInv
    <3> QED
      BY <1>1, <1>2, <3>2, <3>3 DEF Held, Alive
  <2> QED
    BY <2>2, <2>3
<1> QED
  BY <1>1, <1>2, <1>3, <1>4, StepQuiet

LEMMA QuietKeeps ==
  ASSUME IInv, BaseInv, QuietInv, [Next]_vars PROVE QuietInv'
<1>1. ASSUME NEW s \in Syncs,
             StartSync(s) \/ AcquireTraffic(s) \/ SyncStep(s) \/ SyncDies(s)
      PROVE  QuietInv'
  BY <1>1, SyncQuiet
<1>2. CASE BeginCommand
  BY <1>2, BeginCommandQuiet
<1>3. CASE StopTimeout \/ StartFails \/ CommitFails
  <2>1. command # NoCommand /\ RollBack /\ UNCHANGED <<xray, db, pc, seen, mishaps, reborn>>
    BY <1>3, AtWork DEF StopTimeout, StartFails, CommitFails
  <2> QED
    BY <2>1, RollBackQuiet
<1>4. CASE StopXray
  BY <1>4, StopXrayQuiet
<1>5. CASE XrayStopped
  <2>1. UNCHANGED <<mishaps, seen, reborn, pc, db>> /\ ~ Alive /\ command # NoCommand
        /\ command' = [command EXCEPT !.step = "stopped"]
    BY <1>5, AtWork DEF XrayStopped, history, stores, Alive
  <2>2. command'.step = "stopped"
    BY <2>1 DEF IInv, Types, CommandOK
  <2> QED
    BY <2>1, <2>2, UnitQuiet DEF Held
<1>6. CASE StartXray \/ XrayStarts
  <2>1. UNCHANGED <<mishaps, seen, reborn, pc, db>> /\ ~ Alive /\ xray' = Started
    BY <1>6, StartXrayUnit, XrayStartsUnit DEF StartXray, XrayStarts, history, stores, BaseInv
  <2>2. xray'.state = "up"
    BY <2>1, StartedUnit DEF BaseInv
  <2> QED
    BY <2>1, <2>2, UnitQuiet DEF Held
<1>7. CASE KillXray
  <2>1. UNCHANGED <<mishaps, seen, reborn, pc, db, command>>
        /\ xray.state = "stopping" /\ pc[ExecStop] = "idle"
    BY <1>7 DEF KillXray, history, stores
  <2>2. mishaps = 0 => ~ (command'.step = "save" /\ command'.kind = "apply")
    BY <2>1 DEF QuietInv
  <2>3. \A c \in Clients : ~ Held(c)
    BY <2>1 DEF Held
  <2> QED
    BY <2>1, <2>2, <2>3, UnitQuiet
<1>8. CASE CommitCommand
  BY <1>8, CommitCommandQuiet
<1>9. CASE CommandDies \/ XrayExits
  BY <1>9, MishapQuiet DEF CommandDies, XrayExits
<1>10. ASSUME NEW c \in Clients, NEW x \in Conns, Carry(c, x) PROVE QuietInv'
  <2>1. UNCHANGED <<command, config, db, pc, seen, mishaps, reborn>>
    BY <1>10 DEF Carry, stores
  <2>2. xray'.state = xray.state
    BY <1>10 DEF Carry, IInv, Types, UnitOK
  <2> QED
    BY <2>1, <2>2 DEF QuietInv, Pending, Held, Alive
<1>11. CASE UNCHANGED vars
  BY <1>11 DEF vars, QuietInv, Pending, Held, Alive
<1> QED
  BY <1>1, <1>2, <1>3, <1>4, <1>5, <1>6, <1>7, <1>8, <1>9, <1>10, <1>11
     DEF Next, CommandStep

-----------------------------------------------------------------------------
LEMMA CountStarts == Init => BaseInv /\ CountInv /\ QuietInv
<1> SUFFICES ASSUME Init PROVE BaseInv /\ CountInv /\ QuietInv
  OBVIOUS
<1>1. /\ pc = [s \in Syncs |-> "idle"] /\ command = NoCommand
      /\ agg = [c \in Clients |-> NoRow]
      /\ cred = [c \in Clients |-> [x \in Conns |-> NoRow]]
      /\ xray.state = "up" /\ xray.counter = Zero /\ xray.run = 0
      /\ carried = [c \in Clients |-> 0] /\ readIn = Zero /\ mishaps = 0 /\ reborn = {}
  BY DEF Init
<1>2. command.step = "idle"
  BY <1>1 DEF NoCommand
<1>3. ASSUME NEW c \in Clients PROVE Bytes(xray.counter[c]) = 0
  <2>1. \A x \in Conns : xray.counter[c][x] = 0
    BY <1>1 DEF Zero
  <2> QED
    BY <2>1, BytesZero
<1>4. BaseInv
  <2>1. UnitInv
    BY <1>1, <1>2, <1>3 DEF UnitInv, Zero
  <2>2. CommandInv
    BY <1>1 DEF CommandInv
  <2>3. ReadInv
    BY <1>1 DEF ReadInv, LastOK, Zero
  <2> QED
    BY <2>1, <2>2, <2>3 DEF BaseInv
<1>5. ASSUME NEW c \in Clients PROVE ClientInv(c)
  <2> DEFINE rows == cred[c]
             reads == readIn[c]
             counter == xray.counter[c]
  <2>1. /\ \A x \in Conns : rows[x] = NoRow
        /\ \A x \in Conns : counter[x] = 0
        /\ counter \in [Conns -> Nat]
    BY <1>1 DEF Zero
  <2>2. agg[c].total = 0 /\ carried[c] = 0
    BY <1>1 DEF NoRow
  <2>3. Counted(agg[c].total, rows, reads, counter, counter, carried[c], Now)
    <3> DEFINE total == agg[c].total
               bytes == carried[c]
    <3>1. total \in Nat /\ bytes \in Nat /\ total <= bytes
      BY <2>2
    <3> HIDE DEF rows, reads, counter, total, bytes
    <3>2. Counted(total, rows, reads, counter, counter, bytes, Now)
      BY <2>1, <3>1, CountedReset
    <3> QED
      BY <3>2 DEF total, bytes
  <2> QED
    BY <1>1, <2>2, <2>3 DEF ClientInv, RowInv, QueryInv, LoadInv, SaveInv
<1>6. QuietInv
  BY <1>1, <1>2 DEF QuietInv, Pending
<1> QED
  BY <1>4, <1>5, <1>6 DEF CountInv

LEMMA CountSuffices == IInv /\ CountInv /\ QuietInv => NeverOvercounts
<1> SUFFICES ASSUME IInv, CountInv, QuietInv PROVE NeverOvercounts
  OBVIOUS
<1>1. mishaps = 0 => reborn = {}
  BY DEF QuietInv
<1>2. ASSUME NEW c \in Clients \ (reborn \union moved)
      PROVE  agg[c].total <= carried[c] /\ agg[c].hist <= carried[c]
  <2>1. Counted(agg[c].total, cred[c], readIn[c], xray.counter[c], xray.counter[c],
                carried[c], Now)
    BY DEF CountInv, ClientInv, RowInv
  <2>2. /\ agg[c].total \in Nat /\ xray.counter[c] \in [Conns -> Nat] /\ carried[c] \in Nat
        /\ \A x \in Conns : xray.counter[c][x] <= xray.counter[c][x]
    BY RowTypes, UnitTypes
  <2>3. agg[c].total <= carried[c]
    BY <2>1, <2>2, CountedBound
  <2>4. agg[c].hist = agg[c].total
    BY DEF IInv, RowsOK, GoodRow
  <2> QED
    BY <2>3, <2>4
<1> QED
  BY <1>1, <1>2 DEF NeverOvercounts

LEMMA CountInductive == Spec => [](BaseInv /\ CountInv /\ QuietInv)
<1>1. Init => BaseInv /\ CountInv /\ QuietInv
  BY CountStarts
<1>2. /\ BaseInv /\ CountInv /\ QuietInv
      /\ IInv /\ IInv' /\ [Next]_vars
      => (BaseInv /\ CountInv /\ QuietInv)'
  BY BaseKeeps, CountKeeps, QuietKeeps
<1> QED
  BY <1>1, <1>2, Inductive, PTL DEF Spec

\* Whatever restarts, kills, failures and edits the syncs run into, a client's total
\* and history stay below what Xray carried for it, unless it was created while a sync
\* held totals of its name, which takes a death, or was moved to another credential.
THEOREM NoByteTwice == Spec => []NeverOvercounts
<1>1. Spec => []IInv /\ [](BaseInv /\ CountInv /\ QuietInv)
  BY Inductive, CountInductive
<1>2. IInv /\ (BaseInv /\ CountInv /\ QuietInv) => NeverOvercounts
  BY CountSuffices
<1> QED
  BY <1>1, <1>2, PTL
=============================================================================
