------------------------- MODULE TracerLifecycleProofs -------------------------
(***************************************************************************)
(* Theorems about TracerLifecycle, for any tracers, threads, number of     *)
(* filters and number of attempts.                                         *)
(***************************************************************************)
EXTENDS TracerLifecycleProps, TLAPS

CtlTypeOK == /\ driver \in {"loader", "program"}
             /\ ctl \in [op : Ops, t : Tracers \cup {None}, tries : 0..Attempts]
TracerTypeOK == /\ mem \in [Tracers -> {"none", "live", "freed"}]
                /\ filters \in [Tracers -> 0..MaxFilters]
                /\ transport \subseteq Tracers /\ threads \subseteq Tracers
FlagTypeOK == /\ initialized \in [Tracers -> BOOLEAN] /\ running \in [Tracers -> BOOLEAN]
              /\ hooked \in BOOLEAN
HookTypeOK == /\ served \in Tracers \cup {None}
              /\ pool \in {"none", "raw", "ready"}
              /\ at \in [Workers -> Places]

\* TypeOK in four parts, so that a step is charged only for the variables it
\* changes.
LEMMA Types == TypeOK <=> CtlTypeOK /\ TracerTypeOK /\ FlagTypeOK /\ HookTypeOK
BY Zenon DEF TypeOK, CtlTypeOK, TracerTypeOK, FlagTypeOK, HookTypeOK

Trying == {"start", "intercept", "started"}
Closing == {"close", "drop", "free"}

\* The call in progress is one of an allocated tracer; the loader has attempts
\* left while it is trying.
Calls ==
  /\ ctl.op # "idle" => ctl.t \in Tracers
  /\ ctl.op \in Trying \cup Closing => mem[ctl.t] = "live"
  /\ ctl.op \in Trying => ctl.tries < Attempts
  /\ ctl.op = "done" => driver = "loader"

\* Threads are in the hook only once it is installed.
Hooks ==
  /\ hooked => served # None
  /\ ~ hooked => \A w \in Workers : at[w] = "out"

\* The loader's hook is in place only when it has stopped failing, with the
\* tracer of the call allocated.
Loads == driver = "loader" =>
  /\ hooked => ctl.op \in {"started", "done"} /\ served = ctl.t /\ mem[ctl.t] = "live"
  /\ ctl.op = "idle" => served = None /\ \A t \in Tracers : ~ initialized[t]

\* What threads hold in the hook is there.
Holds == driver = "loader" =>
  \A w \in Workers :
    /\ at[w] \in {"buffer", "sending", "return"} => pool # "none"
    /\ at[w] = "sending" => served \in transport

\* How far the loader's first attempt has come.
Firsts == driver = "loader" /\ ctl.tries = 0 =>
  /\ ctl.op = "start" => served = None /\ ~ initialized[ctl.t]
  /\ ctl.op = "intercept" => served = None /\ ctl.t \in transport /\ ctl.t \in threads
  /\ ctl.op \in {"started", "done"} =>
       hooked /\ served = ctl.t /\ ctl.t \in transport /\ ctl.t \in threads
  /\ ctl.op = "done" => running[ctl.t]
  /\ ctl.op \notin Closing
  /\ ctl.op \in {"intercept", "started", "done"} => pool = "ready"
  /\ \A w \in Workers : at[w] \notin {"making", "filling", "crashed"}

IInv == TypeOK /\ Calls /\ Hooks /\ Loads /\ Holds /\ Firsts

\* The invariant holds before anything was created.
LEMMA InitIInv == Init => IInv
<1> SUFFICES ASSUME Init PROVE IInv
  OBVIOUS
<1> USE DEF Init, Idle
<1>1. CtlTypeOK /\ TracerTypeOK
  BY LifecycleAssumption DEF CtlTypeOK, TracerTypeOK, Ops
<1>2. FlagTypeOK
  BY Zenon DEF FlagTypeOK
<1>3. HookTypeOK
  BY Zenon DEF HookTypeOK, Places
<1>4. Calls /\ Hooks
  BY DEF Calls, Hooks, Trying, Closing
<1>5. Loads /\ Holds /\ Firsts
  BY Zenon DEF Loads, Holds, Firsts, Closing
<1> QED BY <1>1, <1>2, <1>3, <1>4, <1>5, Types DEF IInv

\* A failed attempt is counted, within the attempts there are.
LEMMA FailCounts ==
  ASSUME CtlTypeOK, ctl.tries < Attempts, Fail
  PROVE  ctl' \in [op : Ops, t : Tracers \cup {None}, tries : 0..Attempts]
<1> DEFINE n == ctl.tries + 1
<1>1. n \in 0..Attempts
  BY LifecycleAssumption DEF CtlTypeOK
<1>2. Idle \in [op : Ops, t : Tracers \cup {None}, tries : 0..Attempts]
  BY LifecycleAssumption DEF Idle, Ops
<1>3. CASE driver = "program"
  BY <1>2, <1>3 DEF Fail
<1>4. CASE driver # "program"
  <2>1. /\ [ctl EXCEPT !.op = "start", !.tries = n] \in [op : Ops, t : Tracers \cup {None}, tries : 0..Attempts]
        /\ [ctl EXCEPT !.op = "close", !.tries = n] \in [op : Ops, t : Tracers \cup {None}, tries : 0..Attempts]
    BY <1>1 DEF CtlTypeOK, Ops
  <2> QED BY <1>4, <2>1 DEF Fail
<1> QED BY <1>3, <1>4

\* Create keeps the invariant, part by part.
LEMMA CreateKeeps == ASSUME IInv, NEW t \in Tracers, Create(t) PROVE IInv'
<1> USE LifecycleAssumption DEF IInv, Create, Idle, Least, flags, hookVars
<1>1. CtlTypeOK'
  BY Types DEF CtlTypeOK, Ops, Calls, Trying
<1>2. TracerTypeOK'
  BY Types DEF TracerTypeOK, Calls, Trying, Closing
<1>3. FlagTypeOK'
  BY Types, Zenon DEF FlagTypeOK
<1>4. HookTypeOK'
  BY Types DEF HookTypeOK, CtlTypeOK, Calls, Trying, Closing
<1>5. Calls'
  BY Types DEF Calls, Trying, Closing, CtlTypeOK, TracerTypeOK
<1>6. Hooks'
  BY Types DEF Hooks, Calls, Trying, Closing, HookTypeOK
<1>7. Loads'
  BY Types DEF Loads, Calls, Hooks, Trying, Closing, TracerTypeOK, FlagTypeOK
<1>8. Holds'
  BY Types DEF Holds, Hooks, Loads, HookTypeOK, TracerTypeOK
<1>9. Firsts'
  BY Types DEF Firsts, Loads, Hooks, Calls, Trying, Closing, CtlTypeOK, TracerTypeOK, FlagTypeOK
<1>10. TypeOK'
  BY <1>1, <1>2, <1>3, <1>4, Zenon DEF TypeOK, CtlTypeOK, TracerTypeOK, FlagTypeOK, HookTypeOK
<1> QED BY <1>5, <1>6, <1>7, <1>8, <1>9, <1>10

\* AddFilter keeps the invariant, part by part.
LEMMA AddFilterKeeps == ASSUME IInv, NEW t \in Tracers, AddFilter(t) PROVE IInv'
<1> USE LifecycleAssumption DEF IInv, AddFilter, Idle, flags, hookVars
<1>1. CtlTypeOK'
  BY Types DEF CtlTypeOK, Ops, Calls, Trying
<1>2. TracerTypeOK'
  BY Types DEF TracerTypeOK, Calls, Trying, Closing
<1>3. FlagTypeOK'
  BY Types, Zenon DEF FlagTypeOK
<1>4. HookTypeOK'
  BY Types DEF HookTypeOK, CtlTypeOK, Calls, Trying, Closing
<1>5. Calls'
  BY Types DEF Calls, Trying, Closing, CtlTypeOK, TracerTypeOK
<1>6. Hooks'
  BY Types DEF Hooks, Calls, Trying, Closing, HookTypeOK
<1>7. Loads'
  BY Types DEF Loads, Calls, Hooks, Trying, Closing, TracerTypeOK, FlagTypeOK
<1>8. Holds'
  BY Types DEF Holds, Hooks, Loads, HookTypeOK, TracerTypeOK
<1>9. Firsts'
  BY Types DEF Firsts, Loads, Hooks, Calls, Trying, Closing, CtlTypeOK, TracerTypeOK, FlagTypeOK
<1>10. TypeOK'
  BY <1>1, <1>2, <1>3, <1>4, Zenon DEF TypeOK, CtlTypeOK, TracerTypeOK, FlagTypeOK, HookTypeOK
<1> QED BY <1>5, <1>6, <1>7, <1>8, <1>9, <1>10

\* Start keeps the invariant, part by part.
LEMMA StartKeeps == ASSUME IInv, NEW t \in Tracers, Start(t) PROVE IInv'
<1> USE LifecycleAssumption DEF IInv, Start, Idle, flags, hookVars
<1>1. CtlTypeOK'
  BY Types DEF CtlTypeOK, Ops, Calls, Trying
<1>2. TracerTypeOK'
  BY Types DEF TracerTypeOK, Calls, Trying, Closing
<1>3. FlagTypeOK'
  BY Types, Zenon DEF FlagTypeOK
<1>4. HookTypeOK'
  BY Types DEF HookTypeOK, CtlTypeOK, Calls, Trying, Closing
<1>5. Calls'
  BY Types DEF Calls, Trying, Closing, CtlTypeOK, TracerTypeOK
<1>6. Hooks'
  BY Types DEF Hooks, Calls, Trying, Closing, HookTypeOK
<1>7. Loads'
  BY Types DEF Loads, Calls, Hooks, Trying, Closing, TracerTypeOK, FlagTypeOK
<1>8. Holds'
  BY Types DEF Holds, Hooks, Loads, HookTypeOK, TracerTypeOK
<1>9. Firsts'
  BY Types DEF Firsts, Loads, Hooks, Calls, Trying, Closing, CtlTypeOK, TracerTypeOK, FlagTypeOK
<1>10. TypeOK'
  BY <1>1, <1>2, <1>3, <1>4, Zenon DEF TypeOK, CtlTypeOK, TracerTypeOK, FlagTypeOK, HookTypeOK
<1> QED BY <1>5, <1>6, <1>7, <1>8, <1>9, <1>10

\* Stop keeps the invariant, part by part.
LEMMA StopKeeps == ASSUME IInv, NEW t \in Tracers, Stop(t) PROVE IInv'
<1> USE LifecycleAssumption DEF IInv, Stop, Idle, flags, hookVars
<1>1. CtlTypeOK'
  BY Types DEF CtlTypeOK, Ops, Calls, Trying
<1>2. TracerTypeOK'
  BY Types DEF TracerTypeOK, Calls, Trying, Closing
<1>3. FlagTypeOK'
  BY Types, Zenon DEF FlagTypeOK
<1>4. HookTypeOK'
  BY Types DEF HookTypeOK, CtlTypeOK, Calls, Trying, Closing
<1>5. Calls'
  BY Types DEF Calls, Trying, Closing, CtlTypeOK, TracerTypeOK
<1>6. Hooks'
  BY Types DEF Hooks, Calls, Trying, Closing, HookTypeOK
<1>7. Loads'
  BY Types DEF Loads, Calls, Hooks, Trying, Closing, TracerTypeOK, FlagTypeOK
<1>8. Holds'
  BY Types DEF Holds, Hooks, Loads, HookTypeOK, TracerTypeOK
<1>9. Firsts'
  BY Types DEF Firsts, Loads, Hooks, Calls, Trying, Closing, CtlTypeOK, TracerTypeOK, FlagTypeOK
<1>10. TypeOK'
  BY <1>1, <1>2, <1>3, <1>4, Zenon DEF TypeOK, CtlTypeOK, TracerTypeOK, FlagTypeOK, HookTypeOK
<1> QED BY <1>5, <1>6, <1>7, <1>8, <1>9, <1>10

\* Cleanup keeps the invariant, part by part.
LEMMA CleanupKeeps == ASSUME IInv, NEW t \in Tracers, Cleanup(t) PROVE IInv'
<1> USE LifecycleAssumption DEF IInv, Cleanup, Idle, flags, hookVars
<1>1. CtlTypeOK'
  BY Types DEF CtlTypeOK, Ops, Calls, Trying
<1>2. TracerTypeOK'
  BY Types DEF TracerTypeOK, Calls, Trying, Closing
<1>3. FlagTypeOK'
  BY Types, Zenon DEF FlagTypeOK
<1>4. HookTypeOK'
  BY Types DEF HookTypeOK, CtlTypeOK, Calls, Trying, Closing
<1>5. Calls'
  BY Types DEF Calls, Trying, Closing, CtlTypeOK, TracerTypeOK
<1>6. Hooks'
  BY Types DEF Hooks, Calls, Trying, Closing, HookTypeOK
<1>7. Loads'
  BY Types DEF Loads, Calls, Hooks, Trying, Closing, TracerTypeOK, FlagTypeOK
<1>8. Holds'
  BY Types DEF Holds, Hooks, Loads, HookTypeOK, TracerTypeOK
<1>9. Firsts'
  BY Types DEF Firsts, Loads, Hooks, Calls, Trying, Closing, CtlTypeOK, TracerTypeOK, FlagTypeOK
<1>10. TypeOK'
  BY <1>1, <1>2, <1>3, <1>4, Zenon DEF TypeOK, CtlTypeOK, TracerTypeOK, FlagTypeOK, HookTypeOK
<1> QED BY <1>5, <1>6, <1>7, <1>8, <1>9, <1>10

\* ContextFails keeps the invariant, part by part.
LEMMA ContextFailsKeeps == ASSUME IInv, ContextFails PROVE IInv'
<1>0. CtlTypeOK /\ ctl.tries < Attempts /\ Fail /\ driver' = driver
  BY Types DEF IInv, Calls, Trying, Starting, ContextFails
<1>1. CtlTypeOK'
  BY <1>0, FailCounts DEF CtlTypeOK
<1> USE LifecycleAssumption DEF IInv, ContextFails, Starting, Idle, Fail, Initialize, Intercepting, flags, hookVars
<1>2. TracerTypeOK'
  BY Types DEF TracerTypeOK, Calls, Trying, Closing
<1>3. FlagTypeOK'
  BY Types, Zenon DEF FlagTypeOK
<1>4. HookTypeOK'
  BY Types DEF HookTypeOK, CtlTypeOK, Calls, Trying, Closing
<1>5. Calls'
  BY Types DEF Calls, Trying, Closing, CtlTypeOK, TracerTypeOK
<1>6. Hooks'
  BY Types DEF Hooks, Calls, Trying, Closing, HookTypeOK
<1>7. Loads'
  BY Types DEF Loads, Calls, Hooks, Trying, Closing, TracerTypeOK, FlagTypeOK
<1>8. Holds'
  BY Types DEF Holds, Hooks, Loads, HookTypeOK, TracerTypeOK
<1>9. Firsts'
  BY Types DEF Firsts, Loads, Hooks, Calls, Trying, Closing, CtlTypeOK, TracerTypeOK, FlagTypeOK
<1>10. TypeOK'
  BY <1>1, <1>2, <1>3, <1>4, Zenon DEF TypeOK, CtlTypeOK, TracerTypeOK, FlagTypeOK, HookTypeOK
<1> QED BY <1>5, <1>6, <1>7, <1>8, <1>9, <1>10

\* PoolFails keeps the invariant, part by part.
LEMMA PoolFailsKeeps == ASSUME IInv, PoolFails PROVE IInv'
<1>0. CtlTypeOK /\ ctl.tries < Attempts /\ Fail /\ driver' = driver
  BY Types DEF IInv, Calls, Trying, Starting, PoolFails
<1>1. CtlTypeOK'
  BY <1>0, FailCounts DEF CtlTypeOK
<1> USE LifecycleAssumption DEF IInv, PoolFails, Starting, Idle, Fail, Initialize, Intercepting, flags, hookVars
<1>2. TracerTypeOK'
  BY Types DEF TracerTypeOK, Calls, Trying, Closing
<1>3. FlagTypeOK'
  BY Types, Zenon DEF FlagTypeOK
<1>4. HookTypeOK'
  BY Types DEF HookTypeOK, CtlTypeOK, Calls, Trying, Closing
<1>5. Calls'
  BY Types DEF Calls, Trying, Closing, CtlTypeOK, TracerTypeOK
<1>6. Hooks'
  BY Types DEF Hooks, Calls, Trying, Closing, HookTypeOK
<1>7. Loads'
  BY Types DEF Loads, Calls, Hooks, Trying, Closing, TracerTypeOK, FlagTypeOK
<1>8. Holds'
  BY Types DEF Holds, Hooks, Loads, HookTypeOK, TracerTypeOK
<1>9. Firsts'
  BY Types DEF Firsts, Loads, Hooks, Calls, Trying, Closing, CtlTypeOK, TracerTypeOK, FlagTypeOK
<1>10. TypeOK'
  BY <1>1, <1>2, <1>3, <1>4, Zenon DEF TypeOK, CtlTypeOK, TracerTypeOK, FlagTypeOK, HookTypeOK
<1> QED BY <1>5, <1>6, <1>7, <1>8, <1>9, <1>10

\* TransportFails keeps the invariant, part by part.
LEMMA TransportFailsKeeps == ASSUME IInv, TransportFails PROVE IInv'
<1>0. CtlTypeOK /\ ctl.tries < Attempts /\ Fail /\ driver' = driver
  BY Types DEF IInv, Calls, Trying, Starting, TransportFails
<1>1. CtlTypeOK'
  BY <1>0, FailCounts DEF CtlTypeOK
<1> USE LifecycleAssumption DEF IInv, TransportFails, Starting, Idle, Fail, Initialize, Intercepting, flags, hookVars
<1>2. TracerTypeOK'
  BY Types DEF TracerTypeOK, Calls, Trying, Closing
<1>3. FlagTypeOK'
  BY Types, Zenon DEF FlagTypeOK
<1>4. HookTypeOK'
  BY Types DEF HookTypeOK, CtlTypeOK, Calls, Trying, Closing
<1>5. Calls'
  BY Types DEF Calls, Trying, Closing, CtlTypeOK, TracerTypeOK
<1>6. Hooks'
  BY Types DEF Hooks, Calls, Trying, Closing, HookTypeOK
<1>7. Loads'
  BY Types DEF Loads, Calls, Hooks, Trying, Closing, TracerTypeOK, FlagTypeOK
<1>8. Holds'
  BY Types DEF Holds, Hooks, Loads, HookTypeOK, TracerTypeOK
<1>9. Firsts'
  BY Types DEF Firsts, Loads, Hooks, Calls, Trying, Closing, CtlTypeOK, TracerTypeOK, FlagTypeOK
<1>10. TypeOK'
  BY <1>1, <1>2, <1>3, <1>4, Zenon DEF TypeOK, CtlTypeOK, TracerTypeOK, FlagTypeOK, HookTypeOK
<1> QED BY <1>5, <1>6, <1>7, <1>8, <1>9, <1>10

\* InitSucceeds keeps the invariant, part by part.
LEMMA InitSucceedsKeeps == ASSUME IInv, InitSucceeds PROVE IInv'
<1> USE LifecycleAssumption DEF IInv, InitSucceeds, Starting, Idle, Fail, Initialize, Intercepting, flags, hookVars
<1>1. CtlTypeOK'
  BY Types DEF CtlTypeOK, Ops, Calls, Trying
<1>2. TracerTypeOK'
  BY Types DEF TracerTypeOK, Calls, Trying, Closing
<1>3. FlagTypeOK'
  BY Types, Zenon DEF FlagTypeOK
<1>4. HookTypeOK'
  BY Types DEF HookTypeOK, CtlTypeOK, Calls, Trying, Closing
<1>5. Calls'
  BY Types DEF Calls, Trying, Closing, CtlTypeOK, TracerTypeOK
<1>6. Hooks'
  BY Types DEF Hooks, Calls, Trying, Closing, HookTypeOK
<1>7. Loads'
  BY Types DEF Loads, Calls, Hooks, Trying, Closing, TracerTypeOK, FlagTypeOK
<1>8. Holds'
  BY Types DEF Holds, Hooks, Loads, HookTypeOK, TracerTypeOK
<1>9. Firsts'
  BY Types DEF Firsts, Loads, Hooks, Calls, Trying, Closing, CtlTypeOK, TracerTypeOK, FlagTypeOK
<1>10. TypeOK'
  BY <1>1, <1>2, <1>3, <1>4, Zenon DEF TypeOK, CtlTypeOK, TracerTypeOK, FlagTypeOK, HookTypeOK
<1> QED BY <1>5, <1>6, <1>7, <1>8, <1>9, <1>10

\* InitSkipped keeps the invariant, part by part.
LEMMA InitSkippedKeeps == ASSUME IInv, InitSkipped PROVE IInv'
<1> USE LifecycleAssumption DEF IInv, InitSkipped, Starting, Idle, Fail, Initialize, Intercepting, flags, hookVars
<1>1. CtlTypeOK'
  BY Types DEF CtlTypeOK, Ops, Calls, Trying
<1>2. TracerTypeOK'
  BY Types DEF TracerTypeOK, Calls, Trying, Closing
<1>3. FlagTypeOK'
  BY Types, Zenon DEF FlagTypeOK
<1>4. HookTypeOK'
  BY Types DEF HookTypeOK, CtlTypeOK, Calls, Trying, Closing
<1>5. Calls'
  BY Types DEF Calls, Trying, Closing, CtlTypeOK, TracerTypeOK
<1>6. Hooks'
  BY Types DEF Hooks, Calls, Trying, Closing, HookTypeOK
<1>7. Loads'
  BY Types DEF Loads, Calls, Hooks, Trying, Closing, TracerTypeOK, FlagTypeOK
<1>8. Holds'
  BY Types DEF Holds, Hooks, Loads, HookTypeOK, TracerTypeOK
<1>9. Firsts'
  BY Types DEF Firsts, Loads, Hooks, Calls, Trying, Closing, CtlTypeOK, TracerTypeOK, FlagTypeOK
<1>10. TypeOK'
  BY <1>1, <1>2, <1>3, <1>4, Zenon DEF TypeOK, CtlTypeOK, TracerTypeOK, FlagTypeOK, HookTypeOK
<1> QED BY <1>5, <1>6, <1>7, <1>8, <1>9, <1>10

\* AlreadyServed keeps the invariant, part by part.
LEMMA AlreadyServedKeeps == ASSUME IInv, AlreadyServed PROVE IInv'
<1> USE LifecycleAssumption DEF IInv, AlreadyServed, Starting, Idle, Fail, Initialize, Intercepting, flags, hookVars
<1>1. CtlTypeOK'
  BY Types DEF CtlTypeOK, Ops, Calls, Trying
<1>2. TracerTypeOK'
  BY Types DEF TracerTypeOK, Calls, Trying, Closing
<1>3. FlagTypeOK'
  BY Types, Zenon DEF FlagTypeOK
<1>4. HookTypeOK'
  BY Types DEF HookTypeOK, CtlTypeOK, Calls, Trying, Closing
<1>5. Calls'
  BY Types DEF Calls, Trying, Closing, CtlTypeOK, TracerTypeOK
<1>6. Hooks'
  BY Types DEF Hooks, Calls, Trying, Closing, HookTypeOK
<1>7. Loads'
  BY Types DEF Loads, Calls, Hooks, Trying, Closing, TracerTypeOK, FlagTypeOK
<1>8. Holds'
  BY Types DEF Holds, Hooks, Loads, HookTypeOK, TracerTypeOK
<1>9. Firsts'
  BY Types DEF Firsts, Loads, Hooks, Calls, Trying, Closing, CtlTypeOK, TracerTypeOK, FlagTypeOK
<1>10. TypeOK'
  BY <1>1, <1>2, <1>3, <1>4, Zenon DEF TypeOK, CtlTypeOK, TracerTypeOK, FlagTypeOK, HookTypeOK
<1> QED BY <1>5, <1>6, <1>7, <1>8, <1>9, <1>10

\* HookFails keeps the invariant, part by part.
LEMMA HookFailsKeeps == ASSUME IInv, HookFails PROVE IInv'
<1>0. CtlTypeOK /\ ctl.tries < Attempts /\ Fail /\ driver' = driver
  BY Types DEF IInv, Calls, Trying, Starting, HookFails
<1>1. CtlTypeOK'
  BY <1>0, FailCounts DEF CtlTypeOK
<1> USE LifecycleAssumption DEF IInv, HookFails, Starting, Idle, Fail, Initialize, Intercepting, flags, hookVars
<1>2. TracerTypeOK'
  BY Types DEF TracerTypeOK, Calls, Trying, Closing
<1>3. FlagTypeOK'
  BY Types, Zenon DEF FlagTypeOK
<1>4. HookTypeOK'
  BY Types DEF HookTypeOK, CtlTypeOK, Calls, Trying, Closing
<1>5. Calls'
  BY Types DEF Calls, Trying, Closing, CtlTypeOK, TracerTypeOK
<1>6. Hooks'
  BY Types DEF Hooks, Calls, Trying, Closing, HookTypeOK
<1>7. Loads'
  BY Types DEF Loads, Calls, Hooks, Trying, Closing, TracerTypeOK, FlagTypeOK
<1>8. Holds'
  BY Types DEF Holds, Hooks, Loads, HookTypeOK, TracerTypeOK
<1>9. Firsts'
  BY Types DEF Firsts, Loads, Hooks, Calls, Trying, Closing, CtlTypeOK, TracerTypeOK, FlagTypeOK
<1>10. TypeOK'
  BY <1>1, <1>2, <1>3, <1>4, Zenon DEF TypeOK, CtlTypeOK, TracerTypeOK, FlagTypeOK, HookTypeOK
<1> QED BY <1>5, <1>6, <1>7, <1>8, <1>9, <1>10

\* HookSucceeds keeps the invariant, part by part.
LEMMA HookSucceedsKeeps == ASSUME IInv, HookSucceeds PROVE IInv'
<1> USE LifecycleAssumption DEF IInv, HookSucceeds, Starting, Idle, Fail, Initialize, Intercepting, flags, hookVars
<1>1. CtlTypeOK'
  BY Types DEF CtlTypeOK, Ops, Calls, Trying
<1>2. TracerTypeOK'
  BY Types DEF TracerTypeOK, Calls, Trying, Closing
<1>3. FlagTypeOK'
  BY Types, Zenon DEF FlagTypeOK
<1>4. HookTypeOK'
  BY Types DEF HookTypeOK, CtlTypeOK, Calls, Trying, Closing
<1>5. Calls'
  BY Types DEF Calls, Trying, Closing, CtlTypeOK, TracerTypeOK
<1>6. Hooks'
  BY Types DEF Hooks, Calls, Trying, Closing, HookTypeOK
<1>7. Loads'
  BY Types DEF Loads, Calls, Hooks, Trying, Closing, TracerTypeOK, FlagTypeOK
<1>8. Holds'
  BY Types DEF Holds, Hooks, Loads, HookTypeOK, TracerTypeOK
<1>9. Firsts'
  BY Types DEF Firsts, Loads, Hooks, Calls, Trying, Closing, CtlTypeOK, TracerTypeOK, FlagTypeOK
<1>10. TypeOK'
  BY <1>1, <1>2, <1>3, <1>4, Zenon DEF TypeOK, CtlTypeOK, TracerTypeOK, FlagTypeOK, HookTypeOK
<1> QED BY <1>5, <1>6, <1>7, <1>8, <1>9, <1>10

\* Started keeps the invariant, part by part.
LEMMA StartedKeeps == ASSUME IInv, Started PROVE IInv'
<1> USE LifecycleAssumption DEF IInv, Started, Starting, Idle, Fail, Initialize, Intercepting, flags, hookVars
<1>1. CtlTypeOK'
  BY Types DEF CtlTypeOK, Ops, Calls, Trying
<1>2. TracerTypeOK'
  BY Types DEF TracerTypeOK, Calls, Trying, Closing
<1>3. FlagTypeOK'
  BY Types, Zenon DEF FlagTypeOK
<1>4. HookTypeOK'
  BY Types DEF HookTypeOK, CtlTypeOK, Calls, Trying, Closing
<1>5. Calls'
  BY Types DEF Calls, Trying, Closing, CtlTypeOK, TracerTypeOK
<1>6. Hooks'
  BY Types DEF Hooks, Calls, Trying, Closing, HookTypeOK
<1>7. Loads'
  BY Types DEF Loads, Calls, Hooks, Trying, Closing, TracerTypeOK, FlagTypeOK
<1>8. Holds'
  BY Types DEF Holds, Hooks, Loads, HookTypeOK, TracerTypeOK
<1>9. Firsts'
  BY Types DEF Firsts, Loads, Hooks, Calls, Trying, Closing, CtlTypeOK, TracerTypeOK, FlagTypeOK
<1>10. TypeOK'
  BY <1>1, <1>2, <1>3, <1>4, Zenon DEF TypeOK, CtlTypeOK, TracerTypeOK, FlagTypeOK, HookTypeOK
<1> QED BY <1>5, <1>6, <1>7, <1>8, <1>9, <1>10

\* CloseTransport keeps the invariant, part by part.
LEMMA CloseTransportKeeps == ASSUME IInv, CloseTransport PROVE IInv'
<1> USE LifecycleAssumption DEF IInv, CloseTransport, Starting, Idle, Fail, Initialize, Intercepting, flags, hookVars
<1>1. CtlTypeOK'
  BY Types DEF CtlTypeOK, Ops, Calls, Trying
<1>2. TracerTypeOK'
  BY Types DEF TracerTypeOK, Calls, Trying, Closing
<1>3. FlagTypeOK'
  BY Types, Zenon DEF FlagTypeOK
<1>4. HookTypeOK'
  BY Types DEF HookTypeOK, CtlTypeOK, Calls, Trying, Closing
<1>5. Calls'
  BY Types DEF Calls, Trying, Closing, CtlTypeOK, TracerTypeOK
<1>6. Hooks'
  BY Types DEF Hooks, Calls, Trying, Closing, HookTypeOK
<1>7. Loads'
  BY Types DEF Loads, Calls, Hooks, Trying, Closing, TracerTypeOK, FlagTypeOK
<1>8. Holds'
  BY Types DEF Holds, Hooks, Loads, HookTypeOK, TracerTypeOK
<1>9. Firsts'
  BY Types DEF Firsts, Loads, Hooks, Calls, Trying, Closing, CtlTypeOK, TracerTypeOK, FlagTypeOK
<1>10. TypeOK'
  BY <1>1, <1>2, <1>3, <1>4, Zenon DEF TypeOK, CtlTypeOK, TracerTypeOK, FlagTypeOK, HookTypeOK
<1> QED BY <1>5, <1>6, <1>7, <1>8, <1>9, <1>10

\* DropPool keeps the invariant, part by part.
LEMMA DropPoolKeeps == ASSUME IInv, DropPool PROVE IInv'
<1> USE LifecycleAssumption DEF IInv, DropPool, Starting, Idle, Fail, Initialize, Intercepting, flags, hookVars
<1>1. CtlTypeOK'
  BY Types DEF CtlTypeOK, Ops, Calls, Trying
<1>2. TracerTypeOK'
  BY Types DEF TracerTypeOK, Calls, Trying, Closing
<1>3. FlagTypeOK'
  BY Types, Zenon DEF FlagTypeOK
<1>4. HookTypeOK'
  BY Types DEF HookTypeOK, CtlTypeOK, Calls, Trying, Closing
<1>5. Calls'
  BY Types DEF Calls, Trying, Closing, CtlTypeOK, TracerTypeOK
<1>6. Hooks'
  BY Types DEF Hooks, Calls, Trying, Closing, HookTypeOK
<1>7. Loads'
  BY Types DEF Loads, Calls, Hooks, Trying, Closing, TracerTypeOK, FlagTypeOK
<1>8. Holds'
  BY Types DEF Holds, Hooks, Loads, HookTypeOK, TracerTypeOK
<1>9. Firsts'
  BY Types DEF Firsts, Loads, Hooks, Calls, Trying, Closing, CtlTypeOK, TracerTypeOK, FlagTypeOK
<1>10. TypeOK'
  BY <1>1, <1>2, <1>3, <1>4, Zenon DEF TypeOK, CtlTypeOK, TracerTypeOK, FlagTypeOK, HookTypeOK
<1> QED BY <1>5, <1>6, <1>7, <1>8, <1>9, <1>10

\* FreeTracer keeps the invariant, part by part.
LEMMA FreeTracerKeeps == ASSUME IInv, FreeTracer PROVE IInv'
<1> USE LifecycleAssumption DEF IInv, FreeTracer, Starting, Idle, Fail, Initialize, Intercepting, flags, hookVars
<1>1. CtlTypeOK'
  BY Types DEF CtlTypeOK, Ops, Calls, Trying
<1>2. TracerTypeOK'
  BY Types DEF TracerTypeOK, Calls, Trying, Closing
<1>3. FlagTypeOK'
  BY Types, Zenon DEF FlagTypeOK
<1>4. HookTypeOK'
  BY Types DEF HookTypeOK, CtlTypeOK, Calls, Trying, Closing
<1>5. Calls'
  BY Types DEF Calls, Trying, Closing, CtlTypeOK, TracerTypeOK
<1>6. Hooks'
  BY Types DEF Hooks, Calls, Trying, Closing, HookTypeOK
<1>7. Loads'
  BY Types DEF Loads, Calls, Hooks, Trying, Closing, TracerTypeOK, FlagTypeOK
<1>8. Holds'
  BY Types DEF Holds, Hooks, Loads, HookTypeOK, TracerTypeOK
<1>9. Firsts'
  BY Types DEF Firsts, Loads, Hooks, Calls, Trying, Closing, CtlTypeOK, TracerTypeOK, FlagTypeOK
<1>10. TypeOK'
  BY <1>1, <1>2, <1>3, <1>4, Zenon DEF TypeOK, CtlTypeOK, TracerTypeOK, FlagTypeOK, HookTypeOK
<1> QED BY <1>5, <1>6, <1>7, <1>8, <1>9, <1>10

\* Enter keeps the invariant, part by part.
LEMMA EnterKeeps == ASSUME IInv, NEW w \in Workers, Enter(w) PROVE IInv'
<1> USE LifecycleAssumption DEF IInv, Enter, WorkerGoto, flags, hookVars
<1>1. CtlTypeOK' /\ TracerTypeOK'
  BY Types DEF CtlTypeOK, TracerTypeOK
<1>2. FlagTypeOK'
  BY Types, Zenon DEF FlagTypeOK
<1>3. HookTypeOK'
  BY Types DEF HookTypeOK, Places
<1>4. hooked /\ hooked' = hooked
  BY Types DEF Hooks, HookTypeOK
<1>5. Calls' /\ Hooks' /\ Loads'
  BY <1>4 DEF Calls, Hooks, Loads
<1>6. Holds'
  BY Types, <1>4 DEF Holds, HookTypeOK
<1>7. Firsts'
  BY DEF Firsts
<1>8. TypeOK'
  BY <1>1, <1>2, <1>3, Zenon DEF TypeOK, CtlTypeOK, TracerTypeOK, FlagTypeOK, HookTypeOK
<1> QED BY <1>5, <1>6, <1>7, <1>8

\* NoOutput keeps the invariant, part by part.
LEMMA NoOutputKeeps == ASSUME IInv, NEW w \in Workers, NoOutput(w) PROVE IInv'
<1> USE LifecycleAssumption DEF IInv, NoOutput, WorkerGoto, flags, hookVars
<1>1. CtlTypeOK' /\ TracerTypeOK'
  BY Types DEF CtlTypeOK, TracerTypeOK
<1>2. FlagTypeOK'
  BY Types, Zenon DEF FlagTypeOK
<1>3. HookTypeOK'
  BY Types DEF HookTypeOK, Places
<1>4. hooked /\ hooked' = hooked
  BY Types DEF Hooks, HookTypeOK
<1>5. Calls' /\ Hooks' /\ Loads'
  BY <1>4 DEF Calls, Hooks, Loads
<1>6. Holds'
  BY Types, <1>4 DEF Holds, HookTypeOK
<1>7. Firsts'
  BY DEF Firsts
<1>8. TypeOK'
  BY <1>1, <1>2, <1>3, Zenon DEF TypeOK, CtlTypeOK, TracerTypeOK, FlagTypeOK, HookTypeOK
<1> QED BY <1>5, <1>6, <1>7, <1>8

\* FindsNoPool keeps the invariant, part by part.
LEMMA FindsNoPoolKeeps == ASSUME IInv, NEW w \in Workers, FindsNoPool(w) PROVE IInv'
<1> USE LifecycleAssumption DEF IInv, FindsNoPool, WorkerGoto, flags, hookVars
<1>1. CtlTypeOK' /\ TracerTypeOK'
  BY Types DEF CtlTypeOK, TracerTypeOK
<1>2. FlagTypeOK'
  BY Types, Zenon DEF FlagTypeOK
<1>3. HookTypeOK'
  BY Types DEF HookTypeOK, Places
<1>4. hooked /\ hooked' = hooked
  BY Types DEF Hooks, HookTypeOK
<1>5. Calls' /\ Hooks' /\ Loads'
  BY <1>4 DEF Calls, Hooks, Loads
<1>6. Holds'
  BY Types, <1>4 DEF Holds, HookTypeOK
<1>7. Firsts'
  <2>1. driver = "loader" /\ ctl.tries = 0 => pool = "ready"
    BY <1>4 DEF Firsts, Loads
  <2>2. QED
    BY <2>1 DEF Firsts
<1>8. TypeOK'
  BY <1>1, <1>2, <1>3, Zenon DEF TypeOK, CtlTypeOK, TracerTypeOK, FlagTypeOK, HookTypeOK
<1> QED BY <1>5, <1>6, <1>7, <1>8

\* PublishPool keeps the invariant, part by part.
LEMMA PublishPoolKeeps == ASSUME IInv, NEW w \in Workers, PublishPool(w) PROVE IInv'
<1> USE LifecycleAssumption DEF IInv, PublishPool, WorkerGoto, flags, hookVars
<1>1. CtlTypeOK' /\ TracerTypeOK'
  BY Types DEF CtlTypeOK, TracerTypeOK
<1>2. FlagTypeOK'
  BY Types, Zenon DEF FlagTypeOK
<1>3. HookTypeOK'
  BY Types DEF HookTypeOK, Places
<1>4. hooked /\ hooked' = hooked
  BY Types DEF Hooks, HookTypeOK
<1>5. Calls' /\ Hooks' /\ Loads'
  BY <1>4 DEF Calls, Hooks, Loads
<1>6. Holds'
  BY Types, <1>4 DEF Holds, HookTypeOK
<1>7. Firsts'
  BY DEF Firsts
<1>8. TypeOK'
  BY <1>1, <1>2, <1>3, Zenon DEF TypeOK, CtlTypeOK, TracerTypeOK, FlagTypeOK, HookTypeOK
<1> QED BY <1>5, <1>6, <1>7, <1>8

\* PoolMade keeps the invariant, part by part.
LEMMA PoolMadeKeeps == ASSUME IInv, NEW w \in Workers, PoolMade(w) PROVE IInv'
<1> USE LifecycleAssumption DEF IInv, PoolMade, WorkerGoto, flags, hookVars
<1>1. CtlTypeOK' /\ TracerTypeOK'
  BY Types DEF CtlTypeOK, TracerTypeOK
<1>2. FlagTypeOK'
  BY Types, Zenon DEF FlagTypeOK
<1>3. HookTypeOK'
  BY Types DEF HookTypeOK, Places
<1>4. hooked /\ hooked' = hooked
  BY Types DEF Hooks, HookTypeOK
<1>5. Calls' /\ Hooks' /\ Loads'
  BY <1>4 DEF Calls, Hooks, Loads
<1>6. Holds'
  BY Types, <1>4 DEF Holds, HookTypeOK
<1>7. Firsts'
  BY DEF Firsts
<1>8. TypeOK'
  BY <1>1, <1>2, <1>3, Zenon DEF TypeOK, CtlTypeOK, TracerTypeOK, FlagTypeOK, HookTypeOK
<1> QED BY <1>5, <1>6, <1>7, <1>8

\* PoolNotReady keeps the invariant, part by part.
LEMMA PoolNotReadyKeeps == ASSUME IInv, NEW w \in Workers, PoolNotReady(w) PROVE IInv'
<1> USE LifecycleAssumption DEF IInv, PoolNotReady, WorkerGoto, flags, hookVars
<1>1. CtlTypeOK' /\ TracerTypeOK'
  BY Types DEF CtlTypeOK, TracerTypeOK
<1>2. FlagTypeOK'
  BY Types, Zenon DEF FlagTypeOK
<1>3. HookTypeOK'
  BY Types DEF HookTypeOK, Places
<1>4. hooked /\ hooked' = hooked
  BY Types DEF Hooks, HookTypeOK
<1>5. Calls' /\ Hooks' /\ Loads'
  BY <1>4 DEF Calls, Hooks, Loads
<1>6. Holds'
  BY Types, <1>4 DEF Holds, HookTypeOK
<1>7. Firsts'
  <2>1. driver = "loader" /\ ctl.tries = 0 => pool = "ready"
    BY <1>4 DEF Firsts, Loads
  <2>2. QED
    BY <2>1 DEF Firsts
<1>8. TypeOK'
  BY <1>1, <1>2, <1>3, Zenon DEF TypeOK, CtlTypeOK, TracerTypeOK, FlagTypeOK, HookTypeOK
<1> QED BY <1>5, <1>6, <1>7, <1>8

\* GetBuffer keeps the invariant, part by part.
LEMMA GetBufferKeeps == ASSUME IInv, NEW w \in Workers, GetBuffer(w) PROVE IInv'
<1> USE LifecycleAssumption DEF IInv, GetBuffer, WorkerGoto, flags, hookVars
<1>1. CtlTypeOK' /\ TracerTypeOK'
  BY Types DEF CtlTypeOK, TracerTypeOK
<1>2. FlagTypeOK'
  BY Types, Zenon DEF FlagTypeOK
<1>3. HookTypeOK'
  BY Types DEF HookTypeOK, Places
<1>4. hooked /\ hooked' = hooked
  BY Types DEF Hooks, HookTypeOK
<1>5. Calls' /\ Hooks' /\ Loads'
  BY <1>4 DEF Calls, Hooks, Loads
<1>6. Holds'
  BY Types, <1>4 DEF Holds, HookTypeOK
<1>7. Firsts'
  BY DEF Firsts
<1>8. TypeOK'
  BY <1>1, <1>2, <1>3, Zenon DEF TypeOK, CtlTypeOK, TracerTypeOK, FlagTypeOK, HookTypeOK
<1> QED BY <1>5, <1>6, <1>7, <1>8

\* NoTransport keeps the invariant, part by part.
LEMMA NoTransportKeeps == ASSUME IInv, NEW w \in Workers, NoTransport(w) PROVE IInv'
<1> USE LifecycleAssumption DEF IInv, NoTransport, WorkerGoto, flags, hookVars
<1>1. CtlTypeOK' /\ TracerTypeOK'
  BY Types DEF CtlTypeOK, TracerTypeOK
<1>2. FlagTypeOK'
  BY Types, Zenon DEF FlagTypeOK
<1>3. HookTypeOK'
  BY Types DEF HookTypeOK, Places
<1>4. hooked /\ hooked' = hooked
  BY Types DEF Hooks, HookTypeOK
<1>5. Calls' /\ Hooks' /\ Loads'
  BY <1>4 DEF Calls, Hooks, Loads
<1>6. Holds'
  BY Types, <1>4 DEF Holds, HookTypeOK
<1>7. Firsts'
  BY DEF Firsts
<1>8. TypeOK'
  BY <1>1, <1>2, <1>3, Zenon DEF TypeOK, CtlTypeOK, TracerTypeOK, FlagTypeOK, HookTypeOK
<1> QED BY <1>5, <1>6, <1>7, <1>8

\* UseTransport keeps the invariant, part by part.
LEMMA UseTransportKeeps == ASSUME IInv, NEW w \in Workers, UseTransport(w) PROVE IInv'
<1> USE LifecycleAssumption DEF IInv, UseTransport, WorkerGoto, flags, hookVars
<1>1. CtlTypeOK' /\ TracerTypeOK'
  BY Types DEF CtlTypeOK, TracerTypeOK
<1>2. FlagTypeOK'
  BY Types, Zenon DEF FlagTypeOK
<1>3. HookTypeOK'
  BY Types DEF HookTypeOK, Places
<1>4. hooked /\ hooked' = hooked
  BY Types DEF Hooks, HookTypeOK
<1>5. Calls' /\ Hooks' /\ Loads'
  BY <1>4 DEF Calls, Hooks, Loads
<1>6. Holds'
  BY Types, <1>4 DEF Holds, HookTypeOK
<1>7. Firsts'
  BY DEF Firsts
<1>8. TypeOK'
  BY <1>1, <1>2, <1>3, Zenon DEF TypeOK, CtlTypeOK, TracerTypeOK, FlagTypeOK, HookTypeOK
<1> QED BY <1>5, <1>6, <1>7, <1>8

\* Sent keeps the invariant, part by part.
LEMMA SentKeeps == ASSUME IInv, NEW w \in Workers, Sent(w) PROVE IInv'
<1> USE LifecycleAssumption DEF IInv, Sent, WorkerGoto, flags, hookVars
<1>1. CtlTypeOK' /\ TracerTypeOK'
  BY Types DEF CtlTypeOK, TracerTypeOK
<1>2. FlagTypeOK'
  BY Types, Zenon DEF FlagTypeOK
<1>3. HookTypeOK'
  BY Types DEF HookTypeOK, Places
<1>4. hooked /\ hooked' = hooked
  BY Types DEF Hooks, HookTypeOK
<1>5. Calls' /\ Hooks' /\ Loads'
  BY <1>4 DEF Calls, Hooks, Loads
<1>6. Holds'
  BY Types, <1>4 DEF Holds, HookTypeOK
<1>7. Firsts'
  BY DEF Firsts
<1>8. TypeOK'
  BY <1>1, <1>2, <1>3, Zenon DEF TypeOK, CtlTypeOK, TracerTypeOK, FlagTypeOK, HookTypeOK
<1> QED BY <1>5, <1>6, <1>7, <1>8

\* ReturnBuffer keeps the invariant, part by part.
LEMMA ReturnBufferKeeps == ASSUME IInv, NEW w \in Workers, ReturnBuffer(w) PROVE IInv'
<1> USE LifecycleAssumption DEF IInv, ReturnBuffer, WorkerGoto, flags, hookVars
<1>1. CtlTypeOK' /\ TracerTypeOK'
  BY Types DEF CtlTypeOK, TracerTypeOK
<1>2. FlagTypeOK'
  BY Types, Zenon DEF FlagTypeOK
<1>3. HookTypeOK'
  BY Types DEF HookTypeOK, Places
<1>4. hooked /\ hooked' = hooked
  BY Types DEF Hooks, HookTypeOK
<1>5. Calls' /\ Hooks' /\ Loads'
  BY <1>4 DEF Calls, Hooks, Loads
<1>6. Holds'
  BY Types, <1>4 DEF Holds, HookTypeOK
<1>7. Firsts'
  BY DEF Firsts
<1>8. TypeOK'
  BY <1>1, <1>2, <1>3, Zenon DEF TypeOK, CtlTypeOK, TracerTypeOK, FlagTypeOK, HookTypeOK
<1> QED BY <1>5, <1>6, <1>7, <1>8

\* A step that changes nothing keeps the invariant.
LEMMA IdleKeeps == ASSUME IInv, UNCHANGED vars PROVE IInv'
<1> USE DEF IInv, vars, flags, hookVars
<1>1. TypeOK'
  BY Zenon DEF TypeOK
<1>2. Calls' /\ Hooks'
  BY DEF Calls, Hooks
<1>3. Loads' /\ Holds' /\ Firsts'
  BY DEF Loads, Holds, Firsts
<1> QED BY <1>1, <1>2, <1>3

\* The inductive invariant: it holds initially and every step keeps it.
THEOREM LifecycleInvariance == Spec => []IInv
<1>1. IInv /\ [Next]_vars => IInv'
  <2> SUFFICES ASSUME IInv, [Next]_vars PROVE IInv'
    OBVIOUS
  <2>1. CASE DriverStep
    <3>1. CASE \E t \in Tracers : Create(t) \/ AddFilter(t) \/ Start(t) \/ Stop(t) \/ Cleanup(t)
      BY <3>1, CreateKeeps, AddFilterKeeps, StartKeeps, StopKeeps, CleanupKeeps
    <3>2. CASE ContextFails \/ PoolFails \/ TransportFails \/ InitSucceeds \/ InitSkipped
      BY <3>2, ContextFailsKeeps, PoolFailsKeeps, TransportFailsKeeps, InitSucceedsKeeps, InitSkippedKeeps
    <3>3. CASE AlreadyServed \/ HookFails \/ HookSucceeds \/ Started
      BY <3>3, AlreadyServedKeeps, HookFailsKeeps, HookSucceedsKeeps, StartedKeeps
    <3>4. CASE CloseTransport \/ DropPool \/ FreeTracer
      BY <3>4, CloseTransportKeeps, DropPoolKeeps, FreeTracerKeeps
    <3> QED BY <2>1, <3>1, <3>2, <3>3, <3>4 DEF DriverStep
  <2>2. CASE \E w \in Workers : WorkerStep(w)
    <3>1. PICK w \in Workers : WorkerStep(w)
      BY <2>2
    <3> QED BY <3>1, EnterKeeps, NoOutputKeeps, FindsNoPoolKeeps, PublishPoolKeeps, PoolMadeKeeps,
               PoolNotReadyKeeps, GetBufferKeeps, NoTransportKeeps, UseTransportKeeps, SentKeeps,
               ReturnBufferKeeps DEF WorkerStep
  <2>3. CASE UNCHANGED vars
    BY <2>3, IdleKeeps
  <2> QED BY <2>1, <2>2, <2>3 DEF Next
<1> QED BY InitIInv, <1>1, PTL DEF Spec

\* Every variable keeps its type; no tracer ever has more filters than its array
\* has slots.
THEOREM LifecycleTypeCorrect == Spec => []TypeOK
BY LifecycleInvariance, PTL DEF IInv

\* Whatever fails, the loader frees nothing that a thread in the hook uses.
THEOREM LoaderSafe == Spec => []LoaderKeepsTheHookFed
<1>1. IInv => LoaderKeepsTheHookFed
  BY DEF IInv, Hooks, Loads, Holds, LoaderKeepsTheHookFed
<1> QED BY <1>1, LifecycleInvariance, PTL

\* A first attempt of the loader that succeeds has installed the hook for its
\* tracer, with a transport.
THEOREM FirstAttempt == Spec => []FirstAttemptDelivers
<1>1. IInv => FirstAttemptDelivers
  BY DEF IInv, Firsts, FirstAttemptDelivers, Crashed
<1> QED BY <1>1, LifecycleInvariance, PTL

\* The served tracer is chosen once, and the hook stays in.
THEOREM ServedOnce == Spec => FirstComeServed
<1>1. ASSUME [Next]_vars
      PROVE  [(served # None => served' = served) /\ (hooked => hooked')]_vars
  <2> USE DEF flags, hookVars, vars
  <2>1. CASE \E t \in Tracers : Create(t) \/ AddFilter(t) \/ Start(t) \/ Stop(t) \/ Cleanup(t)
    BY <2>1 DEF Create, AddFilter, Start, Stop, Cleanup
  <2>2. CASE ContextFails \/ PoolFails \/ TransportFails \/ InitSucceeds \/ InitSkipped
    BY <2>2 DEF ContextFails, PoolFails, TransportFails, InitSucceeds, InitSkipped
  <2>3. CASE AlreadyServed \/ HookFails \/ HookSucceeds \/ Started
    BY <2>3 DEF AlreadyServed, HookFails, HookSucceeds, Started
  <2>4. CASE CloseTransport \/ DropPool \/ FreeTracer
    BY <2>4 DEF CloseTransport, DropPool, FreeTracer
  <2>5. CASE \E w \in Workers : WorkerStep(w)
    <3>1. served' = served /\ hooked' = hooked
      BY <2>5 DEF WorkerStep, WorkerGoto, Enter, NoOutput, FindsNoPool, PublishPool, PoolMade,
                  PoolNotReady, GetBuffer, NoTransport, UseTransport, Sent, ReturnBuffer
    <3> QED BY <3>1
  <2>6. CASE UNCHANGED vars
    BY <2>6
  <2> QED BY <1>1, <2>1, <2>2, <2>3, <2>4, <2>5, <2>6 DEF Next, DriverStep
<1> QED BY <1>1, PTL DEF Spec, FirstComeServed

-----------------------------------------------------------------------------
(* How the loader ends, which LoaderEnds leaves to fairness. *)

\* A loader that ends with its tracer running has kept it, and one that gives up leaves
\* nothing behind in memory: no hook, no tracer, no transport, no pool, and no thread of
\* the program in the hook.  The one thing that can be left is the detached thread of the
\* transport, and only when the last attempt failed to rebind objc_msgSend.
EndsWhole ==
  driver = "loader" /\ ctl.op = "done" =>
    IF running[ctl.t] THEN mem[ctl.t] = "live"
    ELSE /\ mem[ctl.t] = "freed" /\ ~ hooked /\ transport = {} /\ pool = "none"
         /\ \A w \in Workers : at[w] = "out"
         /\ threads \subseteq {ctl.t} /\ (threads # {} => served = ctl.t)

\* On its way it has one tracer, which runs only in the end, and of which the cleanup
\* takes away one thing after the other.
Way == driver = "loader" =>
  /\ ctl.op = "idle" => transport = {}
  /\ transport \subseteq {ctl.t}
  /\ ctl.op # "done" => \A t \in Tracers : ~ running[t]
  /\ ctl.op \in {"drop", "free"} => transport = {}
  /\ ctl.op = "free" => pool = "none"
  /\ ctl.op = "idle" => threads = {}
  /\ threads \subseteq {ctl.t}
  /\ ctl.op # "idle" /\ ~ initialized[ctl.t] => threads = {}
  /\ ctl.op \in {"close", "drop", "free"} /\ threads # {} => served = ctl.t

\* The places of the loader, in order.
Stage(op) ==
  CASE op = "idle" -> 0 [] op = "start" -> 1 [] op = "intercept" -> 2 [] op = "started" -> 3
    [] op = "close" -> 4 [] op = "drop" -> 5 [] op = "free" -> 6 [] OTHER -> 7

\* Each step of the loader is one place on, or one attempt more.
LoaderAdvances ==
  driver = "loader" /\ ctl' # ctl =>
    \/ ctl'.tries > ctl.tries /\ ctl'.tries <= Attempts
    \/ ctl'.tries = ctl.tries /\ Stage(ctl'.op) > Stage(ctl.op)

\* Steps of threads: nothing of the loader, and the pool only once they are in the hook.
LEMMA WorkersApart ==
  ASSUME NEW w \in Workers, WorkerStep(w)
  PROVE  /\ UNCHANGED <<driver, ctl, mem, running, transport, hooked, threads, served, initialized>>
         /\ at[w] # "out" \/ hooked
BY Zenon DEF WorkerStep, Enter, NoOutput, FindsNoPool, PublishPool, PoolMade, PoolNotReady, GetBuffer,
       NoTransport, UseTransport, Sent, ReturnBuffer, WorkerGoto, flags, hookVars

LEMMA WayKeeps == IInv /\ Way /\ EndsWhole /\ [Next]_vars => Way' /\ EndsWhole'
<1> SUFFICES ASSUME IInv, Way, EndsWhole, [Next]_vars PROVE Way' /\ EndsWhole'
  OBVIOUS
<1>1. /\ ctl.op # "idle" => ctl.t \in Tracers
      /\ ctl.op \in {"start", "intercept", "started", "close", "drop", "free"} => mem[ctl.t] = "live"
      /\ ~ hooked => \A w \in Workers : at[w] = "out"
      /\ mem \in [Tracers -> {"none", "live", "freed"}]
      /\ running \in [Tracers -> BOOLEAN] /\ initialized \in [Tracers -> BOOLEAN]
      /\ DOMAIN at = Workers
      /\ driver \in {"loader", "program"}
      /\ ctl \in [op : Ops, t : Tracers \cup {None}, tries : 0..Attempts]
  BY DEF IInv, TypeOK, Calls, Trying, Closing, Hooks
<1>2. driver = "loader" /\ hooked => ctl.op \in {"started", "done"} /\ mem[ctl.t] = "live"
  BY DEF IInv, Loads
<1>3. ASSUME driver # "loader", driver' = driver
      PROVE  Way' /\ EndsWhole'
  BY <1>3 DEF Way, EndsWhole
<1>4. ASSUME driver = "loader", DriverStep
      PROVE  Way' /\ EndsWhole'
  <2>1. /\ ctl.op = "idle" => transport = {}
        /\ transport \subseteq {ctl.t}
        /\ ctl.op # "done" => \A t \in Tracers : ~ running[t]
        /\ ctl.op \in {"drop", "free"} => transport = {}
        /\ ctl.op = "free" => pool = "none"
        /\ ctl.op = "idle" => threads = {}
        /\ threads \subseteq {ctl.t}
        /\ ctl.op # "idle" /\ ~ initialized[ctl.t] => threads = {}
        /\ ctl.op \in {"close", "drop", "free"} /\ threads # {} => served = ctl.t
    BY <1>4 DEF Way
  <2>2. CASE \E t \in Tracers : Create(t)
    <3>1. PICK t \in Tracers : Create(t)
      BY <2>2
    <3>2. /\ ctl.op = "idle" /\ ctl' = [op |-> "start", t |-> t, tries |-> 0]
          /\ UNCHANGED <<running, transport, threads>>
      BY <1>4, <3>1 DEF Create, Idle
    <3>3. transport' = {} /\ threads' = {}
      BY <2>1, <3>2
    <3>4. ctl'.op = "start"
      BY <3>2
    <3>5. QED
      BY <2>1, <3>2, <3>3, <3>4 DEF Way, EndsWhole
  <2>3. ASSUME Fail PROVE ctl'.t = ctl.t /\ ctl'.op \in {"start", "close"}
    BY <1>1, <1>4, <2>3 DEF Fail
  <2>4. CASE ContextFails \/ PoolFails \/ TransportFails \/ HookFails
    <3>1. Fail /\ ctl.op \in {"start", "intercept"} /\ UNCHANGED <<running, transport, threads>>
      BY <2>4 DEF ContextFails, PoolFails, TransportFails, HookFails, Starting, flags
    <3>2. initialized'[ctl.t] = initialized[ctl.t] \/ initialized'[ctl.t]
      BY <1>1, <2>4, <3>1 DEF ContextFails, PoolFails, TransportFails, HookFails, Initialize, flags
    <3>3. threads = {} \/ served' = ctl.t
      BY <2>1, <2>4, <3>1 DEF ContextFails, PoolFails, TransportFails, HookFails
    <3>4. QED
      BY <2>1, <2>3, <3>1, <3>2, <3>3 DEF Way, EndsWhole
  <2>5. CASE InitSucceeds \/ InitSkipped
    <3>1. /\ ctl.op = "start" /\ ctl' = [ctl EXCEPT !.op = "intercept"] /\ UNCHANGED running
          /\ transport' = transport \cup {ctl.t} \/ transport' = transport
          /\ threads' = threads \cup {ctl.t} \/ threads' = threads
      BY <2>5 DEF InitSucceeds, InitSkipped, Starting, Intercepting
    <3>2. ctl'.op = "intercept" /\ ctl'.t = ctl.t
      BY <1>1, <3>1
    <3>3. initialized'[ctl.t]
      BY <1>1, <2>5, <3>1 DEF InitSucceeds, InitSkipped, Initialize
    <3>4. QED
      BY <2>1, <3>1, <3>2, <3>3 DEF Way, EndsWhole
  <2>6. CASE AlreadyServed \/ HookSucceeds
    <3>1. /\ ctl.op = "intercept" /\ ctl' = [ctl EXCEPT !.op = "started"]
          /\ UNCHANGED <<running, transport, threads, initialized>>
      BY <2>6 DEF AlreadyServed, HookSucceeds, Starting, flags
    <3>2. ctl'.op = "started" /\ ctl'.t = ctl.t
      BY <1>1, <3>1
    <3>3. QED
      BY <2>1, <3>1, <3>2 DEF Way, EndsWhole
  <2>7. CASE Started
    <3>1. /\ ctl.op = "started" /\ ctl' = [ctl EXCEPT !.op = "done"]
          /\ running' = [running EXCEPT ![ctl.t] = TRUE] 
          /\ UNCHANGED <<transport, mem, threads, initialized>>
      BY <1>4, <2>7 DEF Started, Starting
    <3>2. ctl'.op = "done" /\ ctl'.t = ctl.t
      BY <1>1, <3>1
    <3>3. running'[ctl'.t] /\ mem'[ctl'.t] = "live"
      BY <1>1, <3>1, <3>2
    <3>4. QED
      BY <2>1, <3>1, <3>2, <3>3 DEF Way, EndsWhole
  <2>8. CASE CloseTransport
    <3>1. /\ ctl.op = "close" /\ ctl' = [ctl EXCEPT !.op = "drop"] /\ UNCHANGED <<running, threads>>
          /\ transport' = transport \ {ctl.t} /\ UNCHANGED <<served, initialized>>
      BY <2>8 DEF CloseTransport, Starting, flags, hookVars
    <3>2. ctl'.op = "drop" /\ ctl'.t = ctl.t
      BY <1>1, <3>1
    <3>3. transport' = {}
      BY <2>1, <3>1
    <3>4. QED
      BY <2>1, <3>1, <3>2, <3>3 DEF Way, EndsWhole
  <2>9. CASE DropPool
    <3>1. /\ ctl.op = "drop" /\ ctl' = [ctl EXCEPT !.op = "free"] /\ UNCHANGED <<running, transport>>
          /\ pool' = "none" /\ UNCHANGED <<threads, served, initialized>>
      BY <2>9 DEF DropPool, Starting, flags, hookVars
    <3>2. ctl'.op = "free" /\ ctl'.t = ctl.t
      BY <1>1, <3>1
    <3>3. QED
      BY <2>1, <3>1, <3>2 DEF Way, EndsWhole
  <2>10. CASE FreeTracer
    <3>1. /\ ctl.op = "free" /\ ctl' = [ctl EXCEPT !.op = "done"]
          /\ mem' = [mem EXCEPT ![ctl.t] = "freed"]
          /\ UNCHANGED <<running, transport, pool, hooked, at, threads, served, initialized>>
      BY <1>4, <2>10 DEF FreeTracer, flags, hookVars
    <3>2. ctl'.op = "done" /\ ctl'.t = ctl.t
      BY <1>1, <3>1
    <3>3. ~ running'[ctl'.t] /\ mem'[ctl'.t] = "freed"
      BY <1>1, <2>1, <3>1, <3>2
    <3>4. ~ hooked' /\ transport' = {} /\ pool' = "none" /\ \A w \in Workers : at'[w] = "out"
      BY <1>1, <1>2, <1>4, <2>1, <3>1
    <3>5. QED
      BY <2>1, <3>1, <3>2, <3>3, <3>4 DEF Way, EndsWhole
  <2>11. ~ \E t \in Tracers : AddFilter(t) \/ Start(t) \/ Stop(t) \/ Cleanup(t)
    BY <1>4 DEF AddFilter, Start, Stop, Cleanup
  <2>12. QED
    BY <1>4, <2>2, <2>4, <2>5, <2>6, <2>7, <2>8, <2>9, <2>10, <2>11 DEF DriverStep
<1>5. ASSUME driver = "loader", NEW w \in Workers, WorkerStep(w)
      PROVE  Way' /\ EndsWhole'
  <2>1. /\ UNCHANGED <<driver, ctl, mem, running, transport, hooked, threads, served, initialized>>
        /\ at[w] # "out" \/ hooked
    BY <1>5, WorkersApart
  <2>2. hooked
    BY <1>1, <2>1
  <2>3. ctl.op \in {"started", "done"} /\ mem[ctl.t] = "live"
    BY <1>2, <1>5, <2>2
  <2>4. QED
    BY <1>5, <2>1, <2>2, <2>3 DEF Way, EndsWhole
<1>6. CASE UNCHANGED vars
  BY <1>6 DEF vars, flags, hookVars, Way, EndsWhole
<1>7. DriverStep => driver' = driver
  BY Zenon DEF DriverStep, Create, AddFilter, Start, Stop, Cleanup, ContextFails, PoolFails, TransportFails,
         InitSucceeds, InitSkipped, AlreadyServed, HookFails, HookSucceeds, Started,
         CloseTransport, DropPool, FreeTracer, Starting
<1>8. \A w \in Workers : WorkerStep(w) => driver' = driver
  BY WorkersApart
<1>9. QED
  BY <1>1, <1>3, <1>4, <1>5, <1>6, <1>7, <1>8 DEF Next

\* The loader (loader.m) leaves behind either a tracer that runs or nothing, however many
\* of its attempts fail and wherever.
THEOREM LoaderEndsWhole == Spec => []EndsWhole
<1>1. Init => Way /\ EndsWhole
  BY DEF Init, Idle, Way, EndsWhole
<1>2. IInv /\ (Way /\ EndsWhole) /\ [Next]_vars => (Way /\ EndsWhole)'
  BY WayKeeps
<1>3. QED
  BY <1>1, <1>2, LifecycleInvariance, PTL DEF Spec

\* The loader ends, if it goes on: each step of it leads one place further in an attempt
\* or in the cleanup, or to another attempt, of which it has Attempts.
THEOREM LoaderGetsOn == Spec => [][LoaderAdvances]_vars
<1>1. ASSUME IInv, Next, driver = "loader", ctl' # ctl
      PROVE  \/ ctl'.tries > ctl.tries /\ ctl'.tries <= Attempts
             \/ ctl'.tries = ctl.tries /\ Stage(ctl'.op) > Stage(ctl.op)
  <2>1. /\ ctl \in [op : Ops, t : Tracers \cup {None}, tries : 0..Attempts]
        /\ ctl.op \in {"start", "intercept", "started"} => ctl.tries < Attempts
        /\ ctl.tries \in Nat
    BY <1>1, LifecycleAssumption DEF IInv, TypeOK, Calls, Trying
  <2>2. DriverStep
    BY <1>1, WorkersApart DEF Next
  <2>3. CASE \E t \in Tracers : Create(t)
    <3>1. PICK t \in Tracers : Create(t)
      BY <2>3
    <3>2. ctl = [op |-> "idle", t |-> None, tries |-> 0] /\ ctl' = [op |-> "start", t |-> t, tries |-> 0]
      BY <1>1, <3>1 DEF Create, Idle
    <3>3. ctl.op = "idle" /\ ctl'.op = "start" /\ ctl.tries = 0 /\ ctl'.tries = 0
      BY <3>2
    <3>4. QED
      BY <3>3 DEF Stage
  <2>4. CASE ContextFails \/ PoolFails \/ TransportFails \/ HookFails
    <3>1. Fail /\ ctl.op \in {"start", "intercept"}
      BY <2>4 DEF ContextFails, PoolFails, TransportFails, HookFails, Starting
    <3>2. ctl'.tries = ctl.tries + 1
      BY <1>1, <2>1, <3>1 DEF Fail
    <3>3. QED
      BY <2>1, <3>1, <3>2, LifecycleAssumption
  <2>5. CASE InitSucceeds \/ InitSkipped
    <3>1. ctl.op = "start" /\ ctl' = [ctl EXCEPT !.op = "intercept"]
      BY <2>5 DEF InitSucceeds, InitSkipped, Starting, Intercepting
    <3>2. QED
      BY <2>1, <3>1 DEF Stage
  <2>6. CASE AlreadyServed \/ HookSucceeds
    <3>1. ctl.op = "intercept" /\ ctl' = [ctl EXCEPT !.op = "started"]
      BY <2>6 DEF AlreadyServed, HookSucceeds, Starting
    <3>2. QED
      BY <2>1, <3>1 DEF Stage
  <2>7. CASE Started
    <3>1. ctl.op = "started" /\ ctl' = [ctl EXCEPT !.op = "done"]
      BY <1>1, <2>7 DEF Started, Starting
    <3>2. QED
      BY <2>1, <3>1 DEF Stage
  <2>8. CASE CloseTransport
    <3>1. ctl.op = "close" /\ ctl' = [ctl EXCEPT !.op = "drop"]
      BY <2>8 DEF CloseTransport, Starting
    <3>2. QED
      BY <2>1, <3>1 DEF Stage
  <2>9. CASE DropPool
    <3>1. ctl.op = "drop" /\ ctl' = [ctl EXCEPT !.op = "free"]
      BY <2>9 DEF DropPool, Starting
    <3>2. QED
      BY <2>1, <3>1 DEF Stage
  <2>10. CASE FreeTracer
    <3>1. ctl.op = "free" /\ ctl' = [ctl EXCEPT !.op = "done"]
      BY <1>1, <2>10 DEF FreeTracer
    <3>2. QED
      BY <2>1, <3>1 DEF Stage
  <2>11. ~ \E t \in Tracers : AddFilter(t) \/ Start(t) \/ Stop(t) \/ Cleanup(t)
    BY <1>1 DEF AddFilter, Start, Stop, Cleanup
  <2>12. QED
    BY <2>2, <2>3, <2>4, <2>5, <2>6, <2>7, <2>8, <2>9, <2>10, <2>11 DEF DriverStep
<1>2. IInv /\ [Next]_vars => [LoaderAdvances]_vars
  BY <1>1 DEF LoaderAdvances
<1>3. QED
  BY <1>2, LifecycleInvariance, PTL DEF Spec
=============================================================================
