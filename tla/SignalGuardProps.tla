--------------------------- MODULE SignalGuardProps ---------------------------
(* What WHILE_IGNORING_SIGNALS promises, and when it keeps the promise.    *)
EXTENDS SignalGuard

Ops == {"out", "install", "body", "restore", "leave"}

\* The signals that are really installed: those before the refused one.
Before == {n \in DOMAIN Signals : \A j \in 1..n : Signals[j] \notin Uncatchable}
Installed == {Signals[i] : i \in Before}

\* Every variable has its type; guards do not nest, although the macro allows
\* for a depth of two.
TypeOK ==
  /\ handler \in [SignalSet -> {App, Guard, Junk}]
  /\ at \in [Threads -> [op : Ops, i : DOMAIN Signals]]
  /\ ignoring \in [Threads -> BOOLEAN]
  /\ depth \in [Threads -> 0..1]
  /\ saved \in [Threads -> [SignalSet -> {App, Guard, Junk}]]
  /\ fault \in [op : {"out", "body"}, sig : SignalSet \cup {Junk},
                by : {"none", "app", "jump", "guard"}]
  /\ spoilt \in BOOLEAN

\* A guard that no other thread's guard ever overlapped keeps the faults of its
\* code from the program's handler, for the signals installed before the refusal.
LoneGuardCatches ==
  ~ spoilt /\ fault.op = "body" /\ fault.sig \in Installed => fault.by = "jump"

\* ... and once it is left, by the end of its code or by the jump, the program
\* has its dispositions back and no fault of its own jumps into a frame
\* that is gone.
DispositionsComeBack ==
  ~ spoilt =>
    /\ (\A t \in Threads : at[t].op = "out") => \A s \in Installed : handler[s] = App
    /\ fault.op = "out" => fault.by # "jump"

\* However guards overlap and whichever way they are left, the disposition of an
\* installed signal is one that somebody set, never the uninitialised memory
\* that restore_signal_handlers writes for the signals behind the refused one.
NeverStackMemory == \A s \in Installed : handler[s] # Junk
=============================================================================
