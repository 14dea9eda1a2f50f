----------------------------- MODULE SignalGuard -----------------------------
(***************************************************************************)
(* src/src/libobjsee/tracing/signal_guard.h: WHILE_IGNORING_SIGNALS, the   *)
(* guard around what the hook reads of foreign objects.  Its flags are     *)
(* thread-local, the handlers it installs are the process's.  A guard met  *)
(* while the thread is ignoring signals skips its code and has no state.   *)
(***************************************************************************)
EXTENDS Naturals, Sequences

CONSTANTS
  Threads,
  Signals,      \* those the guard installs, in its order
  Uncatchable,  \* those sigaction refuses: SIGKILL
  App, Guard, Junk  \* dispositions: the program's, the guard's, stack memory

SignalSet == {Signals[i] : i \in DOMAIN Signals}

ASSUME GuardAssumption ==
  /\ Signals \in Seq(SignalSet)
  /\ \A i, j \in DOMAIN Signals : Signals[i] = Signals[j] => i = j
  /\ \E i \in DOMAIN Signals : Signals[i] \in Uncatchable
  /\ App # Guard /\ App # Junk /\ Guard # Junk

VARIABLES
  handler,   \* the process's disposition of each signal
  at,        \* each thread: where in the macro, and at which signal
  ignoring,  \* g_sig_ignoring
  depth,     \* g_sig_ignore_depth
  saved,     \* __old_handlers
  fault,     \* the last fault: its thread, its signal, and what took it
  spoilt     \* history: two guards overlapped, or a guarded return was taken

vars == <<handler, at, ignoring, depth, saved, fault, spoilt>>

Out == [op |-> "out", i |-> 1]
NoFault == [op |-> "out", sig |-> Junk, by |-> "none"]

Init ==
  /\ handler = [s \in SignalSet |-> App]
  /\ at = [t \in Threads |-> Out]
  /\ ignoring = [t \in Threads |-> FALSE]
  /\ depth = [t \in Threads |-> 0]
  /\ saved = [t \in Threads |-> [s \in SignalSet |-> Junk]]
  /\ fault = NoFault
  /\ spoilt = FALSE

Goto(t, op, i) == at' = [at EXCEPT ![t] = [op |-> op, i |-> i]]

\* Mutant: the flag is not looked at, so guards nest.
Enter_Nested(t) ==
  /\ at[t].op \in {"out", "body"} /\ depth[t] < 2
  /\ depth' = [depth EXCEPT ![t] = @ + 1]
  /\ ignoring' = [ignoring EXCEPT ![t] = TRUE]
  /\ saved' = [saved EXCEPT ![t] = [s \in SignalSet |-> Junk]]
  /\ spoilt' = (spoilt \/ \E u \in Threads \ {t} : at[u].op # "out")
  /\ Goto(t, "install", 1)
  /\ UNCHANGED <<handler, fault>>

Enter(t) ==
  /\ at[t] = Out /\ ~ ignoring[t] /\ depth[t] < 2
  /\ depth' = [depth EXCEPT ![t] = @ + 1]
  /\ ignoring' = [ignoring EXCEPT ![t] = TRUE]
  /\ saved' = [saved EXCEPT ![t] = [s \in SignalSet |-> Junk]]
  /\ spoilt' = (spoilt \/ \E u \in Threads \ {t} : at[u].op # "out")
  /\ Goto(t, "install", 1)
  /\ UNCHANGED <<handler, fault>>

\* install_signal_handlers.  A refused sigaction ends the chain with false,
\* which the macro takes for success; had all gone well it would leave at once.
Install(t) ==
  LET i == at[t].i  s == Signals[i] IN
  /\ at[t].op = "install" /\ s \notin Uncatchable
  /\ saved' = [saved EXCEPT ![t][s] = handler[s]]
  /\ handler' = [handler EXCEPT ![s] = Guard]
  /\ IF i < Len(Signals) THEN Goto(t, "install", i + 1) ELSE Goto(t, "leave", 1)
  /\ UNCHANGED <<ignoring, depth, fault, spoilt>>

\* Mutant: a refusal takes back what was installed.
InstallRefused_TakenBack(t) ==
  /\ at[t].op = "install" /\ Signals[at[t].i] \in Uncatchable
  /\ handler' = [s \in SignalSet |->
                   IF \E i \in 1..(at[t].i - 1) : Signals[i] = s THEN saved[t][s] ELSE handler[s]]
  /\ Goto(t, "body", 1)
  /\ UNCHANGED <<ignoring, depth, saved, fault, spoilt>>

InstallRefused(t) ==
  /\ at[t].op = "install" /\ Signals[at[t].i] \in Uncatchable
  /\ Goto(t, "body", 1)
  /\ UNCHANGED <<handler, ignoring, depth, saved, fault, spoilt>>

BodyEnds(t) ==
  /\ at[t].op = "body"
  /\ Goto(t, "restore", 1)
  /\ UNCHANGED <<handler, ignoring, depth, saved, fault, spoilt>>

\* arg_capture.c:138-140 returns out of the guarded code.
BodyReturns(t) ==
  /\ at[t].op = "body"
  /\ spoilt' = TRUE
  /\ Goto(t, "out", 1)
  /\ UNCHANGED <<handler, ignoring, depth, saved, fault>>

\* Mutant: the jump lands behind restore_signal_handlers.
BodyFaults_NoRestore(t) ==
  /\ at[t].op = "body"
  /\ \E s \in SignalSet \ Uncatchable :
       /\ handler[s] # Junk
       /\ fault' = [op |-> "body", sig |-> s,
                    by |-> IF handler[s] = App THEN "app" ELSE "jump"]
       /\ Goto(t, IF handler[s] = App THEN "body" ELSE "leave", 1)
  /\ UNCHANGED <<handler, ignoring, depth, saved, spoilt>>

\* The code faults: the guard's handler jumps back to the macro; the program's
\* own handler sees a fault it knows nothing of.  What follows a signal whose
\* disposition is stack memory is not modelled.
BodyFaults(t) ==
  /\ at[t].op = "body"
  /\ \E s \in SignalSet \ Uncatchable :
       /\ handler[s] # Junk
       /\ fault' = [op |-> "body", sig |-> s,
                    by |-> IF handler[s] = App THEN "app" ELSE "jump"]
       /\ Goto(t, IF handler[s] = App THEN "body" ELSE "restore", 1)
  /\ UNCHANGED <<handler, ignoring, depth, saved, spoilt>>

\* A fault of the program, outside of the guard: taken by the program's handler,
\* or by the guard's, which jumps into a frame that is gone if the flag was left
\* set and otherwise returns, to the same fault.
AppFaults(t) ==
  /\ at[t].op = "out"
  /\ \E s \in SignalSet \ Uncatchable :
       /\ handler[s] # Junk
       /\ fault' = [op |-> "out", sig |-> s,
                    by |-> IF handler[s] = App THEN "app"
                           ELSE IF ignoring[t] THEN "jump" ELSE "guard"]
  /\ UNCHANGED <<handler, at, ignoring, depth, saved, spoilt>>

\* restore_signal_handlers: those behind the refused one were never saved.
Restore(t) ==
  LET i == at[t].i  s == Signals[i] IN
  /\ at[t].op = "restore"
  /\ handler' = IF s \in Uncatchable THEN handler ELSE [handler EXCEPT ![s] = saved[t][s]]
  /\ IF i < Len(Signals) THEN Goto(t, "restore", i + 1) ELSE Goto(t, "leave", 1)
  /\ UNCHANGED <<ignoring, depth, saved, fault, spoilt>>

Leave(t) ==
  /\ at[t].op = "leave"
  /\ ignoring' = [ignoring EXCEPT ![t] = FALSE]
  /\ depth' = [depth EXCEPT ![t] = @ - 1]
  /\ Goto(t, "out", 1)
  /\ UNCHANGED <<handler, saved, fault, spoilt>>

Next ==
  \E t \in Threads :
    \/ Enter(t) \/ Install(t) \/ InstallRefused(t)
    \/ BodyEnds(t) \/ BodyReturns(t) \/ BodyFaults(t) \/ AppFaults(t)
    \/ Restore(t) \/ Leave(t)

Spec == Init /\ [][Next]_vars
=============================================================================
