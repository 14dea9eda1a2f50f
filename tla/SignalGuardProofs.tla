--------------------------- MODULE SignalGuardProofs ---------------------------
(***************************************************************************)
(* Theorems about SignalGuard, for any threads and any chain of signals    *)
(* one of which sigaction refuses.                                         *)
(***************************************************************************)
EXTENDS SignalGuardProps, TLAPS

\* The indices whose signal thread state a has saved.
HasSaved(a, j) == a.op \in {"body", "restore"} \/ (a.op = "install" /\ j < a.i)

\* The chain has met no refusal yet, the flags go with the place, and what is
\* saved or set is never stack memory.
Flags ==
  \A t \in Threads :
    /\ ignoring[t] => depth[t] = 1
    /\ ~ ignoring[t] => depth[t] = 0
    /\ at[t].op # "out" => ignoring[t]
    /\ at[t].op = "install" => \A j \in 1..(at[t].i - 1) : Signals[j] \notin Uncatchable
    /\ at[t].op = "out" => at[t].i = 1

Clean ==
  \A j \in Before :
    /\ handler[Signals[j]] # Junk
    /\ \A t \in Threads : HasSaved(at[t], j) => saved[t][Signals[j]] # Junk

\* The disposition of the j-th signal while the only guard is at a.
Expected(a, j) ==
  IF \/ a.op = "body"
     \/ a.op = "install" /\ j < a.i
     \/ a.op = "restore" /\ j >= a.i
  THEN Guard ELSE App

Single == \A t, u \in Threads : at[t].op # "out" /\ at[u].op # "out" => t = u
Lowered == \A t \in Threads : at[t].op = "out" => ~ ignoring[t]
Set == \A t \in Threads : at[t].op # "out" =>
         \A j \in Before : handler[Signals[j]] = Expected(at[t], j)
Rest == (\A t \in Threads : at[t].op = "out") => \A j \in Before : handler[Signals[j]] = App
Kept == \A t \in Threads : \A j \in Before : HasSaved(at[t], j) => saved[t][Signals[j]] = App
Faults == /\ fault.op = "body" /\ fault.sig \in Installed => fault.by = "jump"
          /\ fault.op = "out" => fault.by # "jump"

Lone == ~ spoilt => Single /\ Lowered /\ Set /\ Rest /\ Kept /\ Faults

IInv == TypeOK /\ Flags /\ Clean /\ Lone

\* The chain is a sequence without repetitions; positions before a refusal are
\* positions of it.
LEMMA Chains ==
  /\ Len(Signals) \in Nat /\ DOMAIN Signals = 1..Len(Signals) /\ 1 \in DOMAIN Signals
  /\ \A i \in DOMAIN Signals : Signals[i] \in SignalSet
  /\ Before \subseteq DOMAIN Signals
  /\ \A i, j \in DOMAIN Signals : Signals[i] = Signals[j] => i = j
<1>1. Signals \in Seq(SignalSet)
  BY GuardAssumption
<1>2. Len(Signals) \in Nat /\ DOMAIN Signals = 1..Len(Signals)
  BY <1>1
<1>3. 1 \in DOMAIN Signals
  BY <1>2, GuardAssumption
<1> QED BY <1>2, <1>3, GuardAssumption DEF SignalSet, Before

\* A refusal at position i is behind every installed signal.
LEMMA RefusedBehind ==
  ASSUME NEW i \in DOMAIN Signals, Signals[i] \in Uncatchable, NEW j \in Before
  PROVE  j < i
BY Chains DEF Before

\* A position whose signal and all signals before it are catchable is not the last.
LEMMA NotLast ==
  ASSUME NEW i \in DOMAIN Signals, \A j \in 1..i : Signals[j] \notin Uncatchable
  PROVE  i < Len(Signals)
<1>1. PICK k \in DOMAIN Signals : Signals[k] \in Uncatchable
  BY GuardAssumption
<1>2. k \in 1..Len(Signals) /\ i \in 1..Len(Signals)
  BY Chains
<1>3. ~ (k <= i)
  BY <1>1, <1>2
<1> QED BY <1>2, <1>3, Chains

\* The invariant holds when no guard was ever entered.
LEMMA InitIInv == Init => IInv
<1> SUFFICES ASSUME Init PROVE IInv
  OBVIOUS
<1> USE DEF Init, Out, NoFault
<1>1. TypeOK
  <2>1. at \in [Threads -> [op : Ops, i : DOMAIN Signals]]
    BY Chains DEF Ops
  <2>2. saved \in [Threads -> [SignalSet -> {App, Guard, Junk}]]
    OBVIOUS
  <2>3. fault \in [op : {"out", "body"}, sig : SignalSet \cup {Junk},
                  by : {"none", "app", "jump", "guard"}]
    OBVIOUS
  <2>4. handler \in [SignalSet -> {App, Guard, Junk}]
    OBVIOUS
  <2>5. ignoring \in [Threads -> BOOLEAN]
    BY Zenon
  <2>6. depth \in [Threads -> 0..1]
    OBVIOUS
  <2>7. spoilt \in BOOLEAN
    BY Zenon
  <2> QED BY <2>1, <2>2, <2>3, <2>4, <2>5, <2>6, <2>7 DEF TypeOK
<1>2. Flags
  <2>1. \A t \in Threads : at[t].op = "out" /\ at[t].i = 1
    BY Zenon
  <2>3. \A t \in Threads : depth[t] = 0
    BY Zenon
  <2>2. \A t \in Threads : ~ ignoring[t]
    BY Zenon
  <2> QED BY <2>1, <2>2, <2>3, Zenon DEF Flags
<1>3. Clean
  BY Chains, GuardAssumption DEF Clean, HasSaved
<1>4. Single /\ Lowered /\ Set
  BY DEF Single, Lowered, Set
<1>5. Rest /\ Kept /\ Faults
  BY Chains DEF Rest, Kept, Faults, HasSaved
<1> QED BY <1>1, <1>2, <1>3, <1>4, <1>5 DEF IInv, Lone

\* A step takes one thread from one place to another.
LEMMA Going ==
  ASSUME TypeOK, NEW t \in Threads, NEW op \in Ops, NEW i \in DOMAIN Signals, Goto(t, op, i)
  PROVE  /\ at' \in [Threads -> [op : Ops, i : DOMAIN Signals]]
         /\ at'[t].op = op /\ at'[t].i = i
         /\ \A u \in Threads \ {t} : at'[u] = at[u]
BY DEF Goto, TypeOK

\* Entering a guard, or finding one active on the thread, keeps the invariant.
LEMMA EnterKeeps == ASSUME IInv, NEW t \in Threads, Enter(t) PROVE IInv'
<1> USE DEF IInv, Enter
<1>1. /\ at' \in [Threads -> [op : Ops, i : DOMAIN Signals]]
      /\ at'[t].op = "install" /\ at'[t].i = 1
      /\ \A u \in Threads \ {t} : at'[u] = at[u]
  BY Going, Chains DEF Ops
<1>2. at[t].op = "out" /\ ~ ignoring[t]
  BY DEF Out
<1>3. ignoring' \in [Threads -> BOOLEAN] /\ ignoring'[t] /\ \A u \in Threads \ {t} : ignoring'[u] = ignoring[u]
  BY Zenon DEF TypeOK
<1>4. depth' \in [Threads -> 0..1] /\ depth'[t] = 1 /\ \A u \in Threads \ {t} : depth'[u] = depth[u]
  BY <1>2 DEF TypeOK, Flags
<1>5. saved' \in [Threads -> [SignalSet -> {App, Guard, Junk}]] /\ \A u \in Threads \ {t} : saved'[u] = saved[u]
  BY DEF TypeOK
<1>6. TypeOK'
  <2>1. spoilt' \in BOOLEAN
    BY Zenon DEF TypeOK
  <2>2. /\ handler' \in [SignalSet -> {App, Guard, Junk}]
        /\ fault' \in [op : {"out", "body"}, sig : SignalSet \cup {Junk},
                       by : {"none", "app", "jump", "guard"}]
    BY DEF TypeOK
  <2>3. at' \in [Threads -> [op : Ops, i : DOMAIN Signals]]
    BY <1>1
  <2>4. ignoring' \in [Threads -> BOOLEAN]
    BY <1>3
  <2>5. depth' \in [Threads -> 0..1] /\ saved' \in [Threads -> [SignalSet -> {App, Guard, Junk}]]
    BY <1>4, <1>5
  <2> QED BY <2>1, <2>2, <2>3, <2>4, <2>5, Zenon DEF TypeOK
<1>7. Flags'
  BY <1>1, <1>3, <1>4 DEF Flags
<1>8. Clean'
  <2>1. \A j \in Before : handler'[Signals[j]] # Junk
    BY DEF Clean
  <2>2. \A j \in Before : ~ (j < 1)
    BY Chains
  <2>3. \A j \in Before : ~ HasSaved(at[t], j)'
    BY <1>1, <2>2 DEF HasSaved
  <2>4. \A j \in Before, u \in Threads \ {t} : HasSaved(at[u], j)' => saved'[u][Signals[j]] # Junk
    BY <1>1, <1>5 DEF Clean, HasSaved
  <2> QED BY <2>1, <2>3, <2>4 DEF Clean
<1>9. ASSUME ~ spoilt' PROVE (Single /\ Lowered /\ Set /\ Rest /\ Kept /\ Faults)'
  <2>1. ~ spoilt /\ \A u \in Threads : at[u].op = "out"
    BY <1>2, <1>9
  <2>2. Single'
    BY <2>1, <1>1 DEF Single
  <2>3. Lowered'
    BY <2>1, <1>1, <1>3 DEF Lowered, Lone
  <2>4. Set'
    BY <2>1, <1>1, Chains DEF Set, Rest, Lone, Expected
  <2>5. Rest'
    BY <1>1 DEF Rest
  <2>6. Kept'
    BY <2>1, <1>1, Chains DEF Kept, HasSaved
  <2>7. Faults'
    BY <2>1 DEF Faults, Lone
  <2> QED BY <2>2, <2>3, <2>4, <2>5, <2>6, <2>7
<1> QED BY <1>6, <1>7, <1>8, <1>9 DEF Lone

\* One more sigaction of the chain keeps it: what it saves is a disposition
\* the process had.
LEMMA InstallKeeps == ASSUME IInv, NEW t \in Threads, Install(t) PROVE IInv'
<1> USE DEF IInv, Install
<1> DEFINE i == at[t].i
<1>0. i \in DOMAIN Signals /\ i \in 1..Len(Signals) /\ Signals[i] \in SignalSet
  BY Chains DEF TypeOK
<1>2. \A j \in 1..i : Signals[j] \notin Uncatchable
  BY <1>0 DEF Flags
<1>3. i < Len(Signals) /\ i + 1 \in DOMAIN Signals
  BY <1>0, <1>2, NotLast, Chains
<1>1. /\ at' \in [Threads -> [op : Ops, i : DOMAIN Signals]]
      /\ at'[t].op = "install" /\ at'[t].i = i + 1
      /\ \A u \in Threads \ {t} : at'[u] = at[u]
  BY <1>3, Going DEF Ops
<1>4. /\ handler' \in [SignalSet -> {App, Guard, Junk}]
      /\ handler'[Signals[i]] = Guard
      /\ \A s \in SignalSet \ {Signals[i]} : handler'[s] = handler[s]
  BY <1>0 DEF TypeOK
<1>5. /\ saved' \in [Threads -> [SignalSet -> {App, Guard, Junk}]]
      /\ saved'[t][Signals[i]] = handler[Signals[i]]
      /\ \A s \in SignalSet \ {Signals[i]} : saved'[t][s] = saved[t][s]
      /\ \A u \in Threads \ {t} : saved'[u] = saved[u]
  BY <1>0 DEF TypeOK
<1>6. TypeOK'
  BY <1>1, <1>4, <1>5, Zenon DEF TypeOK
<1>7. Flags'
  BY <1>0, <1>1, <1>2 DEF Flags
<1>8. \A j \in Before : j \in DOMAIN Signals /\ j \in 1..Len(Signals) /\ Signals[j] \in SignalSet
                         /\ (Signals[j] = Signals[i] => j = i)
  BY <1>0, Chains
<1>9. Clean'
  <2>1. \A j \in Before : handler'[Signals[j]] # Junk
    BY <1>4, <1>8, GuardAssumption DEF Clean
  <2>2. \A j \in Before, u \in Threads : HasSaved(at[u], j)' => saved'[u][Signals[j]] # Junk
    BY <1>0, <1>1, <1>5, <1>8 DEF Clean, HasSaved
  <2> QED BY <2>1, <2>2 DEF Clean
<1>10. ASSUME ~ spoilt' PROVE (Single /\ Lowered /\ Set /\ Rest /\ Kept /\ Faults)'
  <2>1. ~ spoilt
    BY <1>10
  <2>2. \A u \in Threads \ {t} : at[u].op = "out"
    BY <2>1 DEF Lone, Single
  <2>3. Single' /\ Rest'
    BY <2>2, <1>1 DEF Single, Rest
  <2>4. Lowered'
    BY <2>1, <1>1 DEF Lowered, Lone
  <2>5. Set'
    BY <2>1, <2>2, <1>0, <1>1, <1>4, <1>8 DEF Set, Lone, Expected
  <2>6. handler[Signals[i]] = App \/ i \notin Before
    BY <2>1, <1>0 DEF Set, Lone, Expected
  <2>7. Kept'
    BY <2>1, <2>2, <2>6, <1>0, <1>1, <1>5, <1>8 DEF Kept, Lone, HasSaved
  <2>8. Faults'
    BY <2>1 DEF Faults, Lone
  <2> QED BY <2>3, <2>4, <2>5, <2>7, <2>8
<1> QED BY <1>6, <1>7, <1>9, <1>10 DEF Lone

\* The sigaction that is refused ends the chain and keeps it.
LEMMA RefusedKeeps == ASSUME IInv, NEW t \in Threads, InstallRefused(t) PROVE IInv'
<1> USE DEF IInv, InstallRefused
<1> DEFINE i == at[t].i
<1>0. i \in DOMAIN Signals
  BY DEF TypeOK
<1>1. /\ at' \in [Threads -> [op : Ops, i : DOMAIN Signals]]
      /\ at'[t].op = "body"
      /\ \A u \in Threads \ {t} : at'[u] = at[u]
  BY Going, Chains DEF Ops
<1>2. \A j \in Before : j < i
  BY <1>0, RefusedBehind
<1>3. TypeOK'
  BY <1>1, Zenon DEF TypeOK
<1>4. Flags'
  BY <1>1 DEF Flags
<1>5. Clean'
  BY <1>1, <1>2 DEF Clean, HasSaved
<1>6. ASSUME ~ spoilt' PROVE (Single /\ Lowered /\ Set /\ Rest /\ Kept /\ Faults)'
  <2>1. ~ spoilt
    BY <1>6
  <2>2. Single' /\ Rest' /\ Lowered'
    BY <2>1, <1>1 DEF Single, Rest, Lowered, Lone
  <2>3. Set'
    BY <2>1, <1>1, <1>2 DEF Set, Lone, Expected
  <2>4. Kept' /\ Faults'
    BY <2>1, <1>1, <1>2 DEF Kept, Lone, HasSaved, Faults
  <2> QED BY <2>2, <2>3, <2>4
<1> QED BY <1>3, <1>4, <1>5, <1>6 DEF Lone

\* The end of the guarded code keeps it.
LEMMA EndsKeeps == ASSUME IInv, NEW t \in Threads, BodyEnds(t) PROVE IInv'
<1> USE DEF IInv, BodyEnds
<1>1. /\ at' \in [Threads -> [op : Ops, i : DOMAIN Signals]]
      /\ at'[t].op = "restore" /\ at'[t].i = 1
      /\ \A u \in Threads \ {t} : at'[u] = at[u]
  BY Going, Chains DEF Ops
<1>2. TypeOK'
  BY <1>1, Zenon DEF TypeOK
<1>3. Flags'
  BY <1>1 DEF Flags
<1>4. Clean'
  BY <1>1 DEF Clean, HasSaved
<1>5. ASSUME ~ spoilt' PROVE (Single /\ Lowered /\ Set /\ Rest /\ Kept /\ Faults)'
  <2>1. ~ spoilt
    BY <1>5
  <2>2. Single' /\ Rest' /\ Lowered'
    BY <2>1, <1>1 DEF Single, Rest, Lowered, Lone
  <2>3. \A j \in Before : j >= 1
    BY Chains
  <2>4. Set'
    BY <2>1, <2>3, <1>1 DEF Set, Lone, Expected
  <2>5. Kept' /\ Faults'
    BY <2>1, <1>1 DEF Kept, Lone, HasSaved, Faults
  <2> QED BY <2>2, <2>4, <2>5
<1> QED BY <1>2, <1>3, <1>4, <1>5 DEF Lone

\* A return out of the guarded code keeps it: the guard is not counted as
\* clean from then on.
LEMMA ReturnsKeeps == ASSUME IInv, NEW t \in Threads, BodyReturns(t) PROVE IInv'
<1> USE DEF IInv, BodyReturns
<1>1. /\ at' \in [Threads -> [op : Ops, i : DOMAIN Signals]]
      /\ at'[t].op = "out" /\ at'[t].i = 1
      /\ \A u \in Threads \ {t} : at'[u] = at[u]
  BY Going, Chains DEF Ops
<1>2. TypeOK'
  BY <1>1, Zenon DEF TypeOK
<1>3. Flags'
  BY <1>1 DEF Flags
<1>4. Clean'
  BY <1>1 DEF Clean, HasSaved
<1> QED BY <1>2, <1>3, <1>4 DEF Lone

\* A fault in the guarded code, caught or not, keeps it.
LEMMA BodyFaultsKeeps == ASSUME IInv, NEW t \in Threads, BodyFaults(t) PROVE IInv'
<1> USE DEF IInv, BodyFaults
<1>1. PICK s \in SignalSet \ Uncatchable :
        /\ handler[s] # Junk
        /\ fault' = [op |-> "body", sig |-> s, by |-> IF handler[s] = App THEN "app" ELSE "jump"]
        /\ Goto(t, IF handler[s] = App THEN "body" ELSE "restore", 1)
  OBVIOUS
<1>2. /\ at' \in [Threads -> [op : Ops, i : DOMAIN Signals]]
      /\ at'[t].op = (IF handler[s] = App THEN "body" ELSE "restore") /\ at'[t].i = 1
      /\ \A u \in Threads \ {t} : at'[u] = at[u]
  BY <1>1, Going, Chains DEF Ops
<1>3. fault' \in [op : {"out", "body"}, sig : SignalSet \cup {Junk}, by : {"none", "app", "jump", "guard"}]
  BY <1>1
<1>4. TypeOK'
  BY <1>2, <1>3, Zenon DEF TypeOK
<1>5. Flags'
  BY <1>2 DEF Flags
<1>6. Clean'
  BY <1>2 DEF Clean, HasSaved
<1>7. ASSUME ~ spoilt' PROVE (Single /\ Lowered /\ Set /\ Rest /\ Kept /\ Faults)'
  <2>1. ~ spoilt
    BY <1>7
  <2>2. Single' /\ Rest' /\ Lowered'
    BY <2>1, <1>2 DEF Single, Rest, Lowered, Lone
  <2>3. \A j \in Before : j >= 1
    BY Chains
  <2>4. Set'
    BY <2>1, <2>3, <1>2 DEF Set, Lone, Expected
  <2>5. Kept'
    BY <2>1, <1>2 DEF Kept, Lone, HasSaved
  <2>6. s \in Installed => handler[s] = Guard
    BY <2>1 DEF Set, Lone, Expected, Installed
  <2>7. Faults'
    BY <1>1, <2>6, GuardAssumption DEF Faults
  <2> QED BY <2>2, <2>4, <2>5, <2>7
<1> QED BY <1>4, <1>5, <1>6, <1>7 DEF Lone

\* A fault of the program outside any guard keeps it.
LEMMA AppFaultsKeeps == ASSUME IInv, NEW t \in Threads, AppFaults(t) PROVE IInv'
<1> USE DEF IInv, AppFaults
<1>1. PICK s \in SignalSet \ Uncatchable :
        fault' = [op |-> "out", sig |-> s,
                  by |-> IF handler[s] = App THEN "app"
                         ELSE IF ignoring[t] THEN "jump" ELSE "guard"]
  OBVIOUS
<1>2. fault' \in [op : {"out", "body"}, sig : SignalSet \cup {Junk}, by : {"none", "app", "jump", "guard"}]
  BY <1>1
<1>3. TypeOK'
  BY <1>2, Zenon DEF TypeOK
<1>4. Flags' /\ Clean'
  BY DEF Flags, Clean, HasSaved
<1>5. ASSUME ~ spoilt' PROVE (Single /\ Lowered /\ Set /\ Rest /\ Kept /\ Faults)'
  <2>1. ~ spoilt /\ ~ ignoring[t]
    BY <1>5 DEF Lone, Lowered
  <2>2. (Single /\ Lowered /\ Set /\ Rest /\ Kept)'
    BY <2>1 DEF Single, Lowered, Set, Rest, Kept, Lone, HasSaved, Expected
  <2>3. fault'.op = "out" /\ fault'.by # "jump"
    BY <1>1, <2>1
  <2> QED BY <2>2, <2>3 DEF Faults
<1> QED BY <1>3, <1>4, <1>5 DEF Lone

\* One sigaction of the restoring chain keeps it: a lone guard writes back
\* what it had saved.
LEMMA RestoreKeeps == ASSUME IInv, NEW t \in Threads, Restore(t) PROVE IInv'
<1> USE DEF IInv, Restore
<1> DEFINE i == at[t].i
<1>0. i \in DOMAIN Signals /\ i \in 1..Len(Signals) /\ Signals[i] \in SignalSet /\ Len(Signals) \in Nat
  BY Chains DEF TypeOK
<1>1. /\ at' \in [Threads -> [op : Ops, i : DOMAIN Signals]]
      /\ \/ at'[t].op = "restore" /\ at'[t].i = i + 1
         \/ at'[t].op = "leave" /\ i = Len(Signals)
      /\ \A u \in Threads \ {t} : at'[u] = at[u]
  <2>1. CASE i < Len(Signals)
    <3>1. i + 1 \in DOMAIN Signals /\ Goto(t, "restore", i + 1)
      BY <2>1, <1>0, Chains
    <3> QED BY <3>1, Going DEF Ops
  <2>2. CASE ~ (i < Len(Signals))
    <3>1. Goto(t, "leave", 1) /\ i = Len(Signals)
      BY <2>2, <1>0
    <3> QED BY <3>1, Going, Chains DEF Ops
  <2> QED BY <2>1, <2>2
<1>2. /\ handler' \in [SignalSet -> {App, Guard, Junk}]
      /\ handler'[Signals[i]] \in {handler[Signals[i]], saved[t][Signals[i]]}
      /\ Signals[i] \notin Uncatchable => handler'[Signals[i]] = saved[t][Signals[i]]
      /\ \A s \in SignalSet \ {Signals[i]} : handler'[s] = handler[s]
  BY <1>0 DEF TypeOK
<1>3. TypeOK'
  BY <1>1, <1>2, Zenon DEF TypeOK
<1>4. Flags'
  BY <1>1 DEF Flags
<1>5. \A j \in Before : j \in DOMAIN Signals /\ j \in 1..Len(Signals) /\ Signals[j] \in SignalSet
                         /\ (Signals[j] = Signals[i] => j = i) /\ Signals[j] \notin Uncatchable
  BY <1>0, Chains DEF Before
<1>6. Clean'
  <2>1. \A j \in Before : handler'[Signals[j]] # Junk
    BY <1>2, <1>5 DEF Clean, HasSaved
  <2>2. \A j \in Before, u \in Threads : HasSaved(at[u], j)' => saved'[u][Signals[j]] # Junk
    BY <1>1 DEF Clean, HasSaved
  <2> QED BY <2>1, <2>2 DEF Clean
<1>7. ASSUME ~ spoilt' PROVE (Single /\ Lowered /\ Set /\ Rest /\ Kept /\ Faults)'
  <2>1. ~ spoilt
    BY <1>7
  <2>2. \A u \in Threads \ {t} : at[u].op = "out"
    BY <2>1 DEF Lone, Single
  <2>3. Single' /\ Rest' /\ Lowered'
    BY <2>1, <2>2, <1>1 DEF Single, Rest, Lowered, Lone
  <2>4. i \in Before => handler'[Signals[i]] = App
    BY <2>1, <1>2, <1>5 DEF Kept, Lone, HasSaved
  <2>5. Set'
    BY <2>1, <2>2, <2>4, <1>0, <1>1, <1>2, <1>5 DEF Set, Lone, Expected
  <2>6. Kept' /\ Faults'
    BY <2>1, <1>1 DEF Kept, Lone, HasSaved, Faults
  <2> QED BY <2>3, <2>5, <2>6
<1> QED BY <1>3, <1>4, <1>6, <1>7 DEF Lone

\* Leaving the guard keeps it: the chain of a clean guard has run to its end.
LEMMA LeaveKeeps == ASSUME IInv, NEW t \in Threads, Leave(t) PROVE IInv'
<1> USE DEF IInv, Leave
<1>1. /\ at' \in [Threads -> [op : Ops, i : DOMAIN Signals]]
      /\ at'[t].op = "out" /\ at'[t].i = 1
      /\ \A u \in Threads \ {t} : at'[u] = at[u]
  BY Going, Chains DEF Ops
<1>2. ignoring' \in [Threads -> BOOLEAN] /\ ~ ignoring'[t] /\ \A u \in Threads \ {t} : ignoring'[u] = ignoring[u]
  BY Zenon DEF TypeOK
<1>3. depth' \in [Threads -> 0..1] /\ depth'[t] = 0 /\ \A u \in Threads \ {t} : depth'[u] = depth[u]
  <2>1. depth[t] = 1
    BY DEF Flags
  <2> QED BY <2>1 DEF TypeOK
<1>4. TypeOK'
  BY <1>1, <1>2, <1>3, Zenon DEF TypeOK
<1>5. Flags'
  BY <1>1, <1>2, <1>3 DEF Flags
<1>6. Clean'
  BY <1>1 DEF Clean, HasSaved
<1>7. ASSUME ~ spoilt' PROVE (Single /\ Lowered /\ Set /\ Rest /\ Kept /\ Faults)'
  <2>1. ~ spoilt
    BY <1>7
  <2>2. \A u \in Threads \ {t} : at[u].op = "out"
    BY <2>1 DEF Lone, Single
  <2>3. Single' /\ Set'
    BY <2>2, <1>1 DEF Single, Set
  <2>4. Lowered'
    BY <2>1, <1>1, <1>2 DEF Lowered, Lone
  <2>5. Rest'
    BY <2>1 DEF Rest, Set, Lone, Expected
  <2>6. Kept' /\ Faults'
    BY <2>1, <1>1 DEF Kept, Lone, HasSaved, Faults
  <2> QED BY <2>3, <2>4, <2>5, <2>6
<1> QED BY <1>4, <1>5, <1>6, <1>7 DEF Lone

\* The inductive invariant: it holds initially and every step keeps it.
THEOREM GuardInvariance == Spec => []IInv
<1>1. IInv /\ [Next]_vars => IInv'
  <2> SUFFICES ASSUME IInv, [Next]_vars PROVE IInv'
    OBVIOUS
  <2>1. CASE Next
    <3>1. PICK t \in Threads :
            \/ Enter(t) \/ Install(t) \/ InstallRefused(t)
            \/ BodyEnds(t) \/ BodyReturns(t) \/ BodyFaults(t) \/ AppFaults(t)
            \/ Restore(t) \/ Leave(t)
      BY <2>1 DEF Next
    <3> QED BY <3>1, EnterKeeps, InstallKeeps, RefusedKeeps, EndsKeeps, ReturnsKeeps,
               BodyFaultsKeeps, AppFaultsKeeps, RestoreKeeps, LeaveKeeps
  <2>2. CASE UNCHANGED vars
    <3> USE <2>2 DEF vars, IInv
    <3>1. TypeOK'
      BY Zenon DEF TypeOK
    <3>2. Flags' /\ Clean'
      BY DEF Flags, Clean, HasSaved
    <3>3. Lone'
      BY DEF Lone, HasSaved, Single, Lowered, Set, Rest, Kept, Faults, Expected
    <3> QED BY <3>1, <3>2, <3>3
  <2> QED BY <2>1, <2>2
<1> QED BY InitIInv, <1>1, PTL DEF Spec

\* Every variable keeps its type; in particular guards never nest, the depth of
\* two that the macro allows for is never reached.
THEOREM GuardTypeCorrect == Spec => []TypeOK
BY GuardInvariance, PTL DEF IInv

\* A guard that no other thread's guard overlapped, and that was left by its end
\* or by the jump, keeps its faults from the program's handler.
THEOREM LoneGuard == Spec => []LoneGuardCatches
<1>1. IInv => LoneGuardCatches
  BY DEF IInv, Lone, Faults, LoneGuardCatches
<1> QED BY <1>1, GuardInvariance, PTL

\* ... and gives the program its dispositions back.
THEOREM LoneGuardRestores == Spec => []DispositionsComeBack
<1>1. IInv => DispositionsComeBack
  BY DEF IInv, Lone, Faults, Rest, DispositionsComeBack, Installed
<1> QED BY <1>1, GuardInvariance, PTL

\* However guards overlap, an installed signal never gets uninitialised memory
\* for its disposition.
THEOREM NoStackMemory == Spec => []NeverStackMemory
<1>1. IInv => NeverStackMemory
  BY DEF IInv, Clean, NeverStackMemory, Installed
<1> QED BY <1>1, GuardInvariance, PTL
=============================================================================
