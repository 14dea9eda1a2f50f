--------------------------- MODULE TracerLifecycle ---------------------------
(***************************************************************************)
(* src/src/libobjsee/tracing/tracer.c with init_message_interception       *)
(* (msgSend_hook.c), the buffer pool (event_handler.c) and the injected    *)
(* loader (loader.m): creating, starting, stopping and cleaning up tracers *)
(* while the threads of the program go through the hook.                   *)
(*                                                                         *)
(* One thread drives the tracers: the loader, which starts one tracer with *)
(* three attempts and cleans it up if all fail, or a program using the     *)
(* library.  Only the first tracer to reach init_message_interception is   *)
(* ever served by the hook (g_tracer_ctx); nothing uninstalls the hook.    *)
(***************************************************************************)
EXTENDS Naturals, FiniteSets

CONSTANTS
  Tracers,     \* bound: tracers created
  Workers,     \* threads of the traced program
  MaxFilters,  \* TRACER_MAX_FILTERS, 32 in the code
  Attempts,    \* attempts of the loader, 3 in the code
  None         \* no tracer

ASSUME LifecycleAssumption ==
  /\ None \notin Tracers
  /\ MaxFilters \in Nat \ {0} /\ Attempts \in Nat \ {0}

VARIABLES
  driver,       \* who calls the library
  ctl,          \* what the driver is doing: the call, its tracer, attempts made
  mem,          \* each tracer's memory
  initialized, running,  \* flags of each tracer
  transport,    \* tracers with a transport_context
  threads,      \* tracers whose detached transport thread runs, for ever
  filters,      \* filter_count of each tracer
  served,       \* g_tracer_ctx
  hooked,       \* objc_msgSend is rebound
  pool,         \* buffer_pool: NULL, allocated, or ready
  at            \* where each worker is in the hook

flags == <<initialized, running, filters>>
hookVars == <<served, hooked>>
vars == <<driver, ctl, mem, flags, transport, threads, hookVars, pool, at>>

Idle == [op |-> "idle", t |-> None, tries |-> 0]

Init ==
  /\ driver \in {"loader", "program"}
  /\ ctl = Idle
  /\ mem = [t \in Tracers |-> "none"]
  /\ initialized = [t \in Tracers |-> FALSE]
  /\ running = [t \in Tracers |-> FALSE]
  /\ filters = [t \in Tracers |-> 0]
  /\ transport = {} /\ threads = {}
  /\ served = None /\ hooked = FALSE
  /\ pool = "none"
  /\ at = [w \in Workers |-> "out"]

Least(m, n) == IF m <= n THEN m ELSE n
-----------------------------------------------------------------------------
(* The driver. *)

\* tracer_create_with_config.  The loader adds the filters of its configuration
\* to the copy of that configuration, and calls tracer_start.  A configuration has at
\* most MaxFilters filters because the command line takes no more (cli_args.m:90); its
\* decoder in the loader does not count them.
Create(t) ==
  /\ ctl = Idle /\ mem[t] = "none"
  /\ mem' = [mem EXCEPT ![t] = "live"]
  /\ \/ /\ driver = "program"
        /\ UNCHANGED <<ctl, filters>>
     \/ /\ driver = "loader"
        /\ ctl' = [op |-> "start", t |-> t, tries |-> 0]
        /\ \E n \in 0..MaxFilters :
             filters' = [filters EXCEPT ![t] = Least(2 * n, MaxFilters)]
  /\ UNCHANGED <<driver, initialized, running, transport, threads, hookVars, pool, at>>

\* Mutant: the limit is not looked at.
AddFilter_Unlimited(t) ==
  /\ driver = "program" /\ ctl = Idle /\ mem[t] = "live"
  /\ filters' = [filters EXCEPT ![t] = @ + 1]
  /\ UNCHANGED <<driver, ctl, mem, initialized, running, transport, threads, hookVars, pool, at>>

AddFilter(t) ==
  /\ driver = "program" /\ ctl = Idle /\ mem[t] = "live"
  /\ filters[t] < MaxFilters
  /\ filters' = [filters EXCEPT ![t] = @ + 1]
  /\ UNCHANGED <<driver, ctl, mem, initialized, running, transport, threads, hookVars, pool, at>>

\* A program calls tracer_start; a running tracer refuses without any effect.
Start(t) ==
  /\ driver = "program" /\ ctl = Idle /\ mem[t] = "live" /\ ~ running[t]
  /\ ctl' = [op |-> "start", t |-> t, tries |-> 0]
  /\ UNCHANGED <<driver, mem, flags, transport, threads, hookVars, pool, at>>

\* Mutant: the loader does not count its attempts.
Fail_Uncounted ==
  ctl' = IF driver = "program" THEN Idle ELSE [ctl EXCEPT !.op = "start"]

\* Mutant: the loader does not clean up.
Fail_NoCleanup ==
  ctl' = IF driver = "program" THEN Idle
         ELSE [ctl EXCEPT !.op = IF ctl.tries + 1 < Attempts THEN "start" ELSE "done",
                          !.tries = @ + 1]

\* tracer_start fails.  The loader tries again, or cleans up and ends.
Fail ==
  ctl' = IF driver = "program" THEN Idle
         ELSE IF ctl.tries + 1 < Attempts THEN [ctl EXCEPT !.op = "start", !.tries = @ + 1]
         ELSE [ctl EXCEPT !.op = "close", !.tries = @ + 1]

Starting(op) == ctl.op = op /\ UNCHANGED <<driver, mem, at>>

\* tracer_internal_init rejects the configuration, or a lock or a key cannot
\* be created.
ContextFails ==
  /\ Starting("start") /\ ~ initialized[ctl.t]
  /\ Fail
  /\ UNCHANGED <<flags, transport, threads, hookVars, pool>>

\* From here on the tracer counts as initialized.
Initialize(t) == initialized' = [initialized EXCEPT ![t] = TRUE]

PoolFails ==
  /\ Starting("start") /\ ~ initialized[ctl.t] /\ pool = "none"
  /\ Initialize(ctl.t)
  /\ Fail
  /\ UNCHANGED <<running, filters, transport, threads, hookVars, pool>>

\* transport_init has joined its thread and freed its context.
TransportFails ==
  /\ Starting("start") /\ ~ initialized[ctl.t]
  /\ Initialize(ctl.t)
  /\ pool' = "ready"
  /\ Fail
  /\ UNCHANGED <<running, filters, transport, threads, hookVars>>

\* No filter at all means every message.
Intercepting(t) ==
  /\ ctl' = [ctl EXCEPT !.op = "intercept"]
  /\ filters' = [filters EXCEPT ![t] = IF @ = 0 THEN 1 ELSE @]

InitSucceeds ==
  /\ Starting("start") /\ ~ initialized[ctl.t]
  /\ Initialize(ctl.t)
  /\ pool' = "ready"
  /\ transport' = transport \cup {ctl.t}
  /\ threads' = threads \cup {ctl.t}
  /\ Intercepting(ctl.t)
  /\ UNCHANGED <<running, hookVars>>

\* A tracer that was initialized before, whatever came of that.
InitSkipped ==
  /\ Starting("start") /\ initialized[ctl.t]
  /\ Intercepting(ctl.t)
  /\ UNCHANGED <<initialized, running, transport, threads, hookVars, pool>>

\* TRACER_ERROR_ALREADY_INITIALIZED, which tracer_start takes for success.
AlreadyServed ==
  /\ Starting("intercept") /\ served # None
  /\ ctl' = [ctl EXCEPT !.op = "started"]
  /\ UNCHANGED <<flags, transport, threads, hookVars, pool>>

\* Mutant: the failure is noticed after objc_msgSend has been rebound.
HookFails_Late ==
  /\ Starting("intercept") /\ served = None
  /\ served' = ctl.t /\ hooked' = TRUE
  /\ Fail
  /\ UNCHANGED <<flags, transport, threads, pool>>

\* No thread key, no objc_msgSend, or no image to rebind it in: g_tracer_ctx
\* stays set.
HookFails ==
  /\ Starting("intercept") /\ served = None
  /\ served' = ctl.t
  /\ Fail
  /\ UNCHANGED <<flags, transport, threads, hooked, pool>>

HookSucceeds ==
  /\ Starting("intercept") /\ served = None
  /\ served' = ctl.t /\ hooked' = TRUE
  /\ ctl' = [ctl EXCEPT !.op = "started"]
  /\ UNCHANGED <<flags, transport, threads, pool>>

\* tracer_start sets running and succeeds.
Started ==
  /\ Starting("started")
  /\ running' = [running EXCEPT ![ctl.t] = TRUE]
  /\ ctl' = IF driver = "program" THEN Idle ELSE [ctl EXCEPT !.op = "done"]
  /\ UNCHANGED <<initialized, filters, transport, threads, hookVars, pool>>

\* tracer_stop: the hook does not look at running.
Stop(t) ==
  /\ driver = "program" /\ ctl = Idle
  /\ mem[t] = "live" /\ initialized[t] /\ running[t]
  /\ running' = [running EXCEPT ![t] = FALSE]
  /\ UNCHANGED <<driver, ctl, mem, initialized, filters, transport, threads, hookVars, pool, at>>

\* A program calls tracer_cleanup, of any tracer it has.
Cleanup(t) ==
  /\ driver = "program" /\ ctl = Idle /\ mem[t] = "live"
  /\ ctl' = [op |-> "close", t |-> t, tries |-> 0]
  /\ UNCHANGED <<driver, mem, flags, transport, threads, hookVars, pool, at>>

\* tracer_cleanup: the transport context is closed and freed ...
CloseTransport ==
  /\ Starting("close")
  /\ transport' = transport \ {ctl.t}
  /\ ctl' = [ctl EXCEPT !.op = "drop"]
  /\ UNCHANGED <<flags, threads, hookVars, pool>>

\* ... the buffer pool of all tracers is freed ...
DropPool ==
  /\ Starting("drop")
  /\ pool' = "none"
  /\ ctl' = [ctl EXCEPT !.op = "free"]
  /\ UNCHANGED <<flags, transport, threads, hookVars>>

\* ... and the locks and the tracer.
FreeTracer ==
  /\ ctl.op = "free"
  /\ mem' = [mem EXCEPT ![ctl.t] = "freed"]
  /\ ctl' = IF driver = "program" THEN Idle ELSE [ctl EXCEPT !.op = "done"]
  /\ UNCHANGED <<driver, flags, transport, threads, hookVars, pool, at>>

DriverStep ==
  \/ \E t \in Tracers : Create(t) \/ AddFilter(t) \/ Start(t) \/ Stop(t) \/ Cleanup(t)
  \/ ContextFails \/ PoolFails \/ TransportFails \/ InitSucceeds \/ InitSkipped
  \/ AlreadyServed \/ HookFails \/ HookSucceeds \/ Started
  \/ CloseTransport \/ DropPool \/ FreeTracer
-----------------------------------------------------------------------------
(* A worker: a message of the program that the filters let through. *)

WorkerGoto(w, from, to) ==
  /\ at[w] = from
  /\ at' = [at EXCEPT ![w] = to]
  /\ UNCHANGED <<driver, ctl, mem, flags, transport, threads, hookVars>>

\* tracer_should_trace and tracer_handle_event work on g_tracer_ctx.
Enter(w) == hooked /\ WorkerGoto(w, "out", "tracer") /\ UNCHANGED pool

\* A custom handler, a format without output, or a failure to build it.
NoOutput(w) == WorkerGoto(w, "tracer", "out") /\ UNCHANGED pool

\* get_buffer_pool makes the pool without a lock: it finds none, publishes the
\* pointer, and makes the arrays and the lock of the pool last, through a pointer that
\* a cleanup may have reset.
FindsNoPool(w) == pool = "none" /\ WorkerGoto(w, "tracer", "making") /\ UNCHANGED pool
PublishPool(w) == WorkerGoto(w, "making", "filling") /\ pool' = "raw"
PoolMade(w) ==
  /\ WorkerGoto(w, "filling", IF pool = "none" THEN "crashed" ELSE "tracer")
  /\ pool' = IF pool = "raw" THEN "ready" ELSE pool

\* The lock of a pool that is not ready locks nothing.  As long as the pool has no
\* capacity the event is dropped; without the arrays the buffer is stored through NULL;
\* with them it is taken as from any pool.
PoolNotReady(w) ==
  /\ pool = "raw" /\ UNCHANGED pool
  /\ \E to \in {"out", "crashed", "buffer"} : WorkerGoto(w, "tracer", to)

GetBuffer(w) == pool = "ready" /\ WorkerGoto(w, "tracer", "buffer") /\ UNCHANGED pool

\* transport_send returns at once without a transport.
NoTransport(w) ==
  served \notin transport /\ WorkerGoto(w, "buffer", "return") /\ UNCHANGED pool
UseTransport(w) ==
  served \in transport /\ WorkerGoto(w, "buffer", "sending") /\ UNCHANGED pool
Sent(w) == WorkerGoto(w, "sending", "return") /\ UNCHANGED pool

\* The buffer is looked up in the pool there is, an empty one if it was freed.
ReturnBuffer(w) ==
  /\ WorkerGoto(w, "return", "out")
  /\ pool' = IF pool = "none" THEN "ready" ELSE pool

WorkerStep(w) ==
  \/ Enter(w) \/ NoOutput(w) \/ FindsNoPool(w) \/ PublishPool(w) \/ PoolMade(w)
  \/ PoolNotReady(w)
  \/ GetBuffer(w) \/ NoTransport(w) \/ UseTransport(w) \/ Sent(w) \/ ReturnBuffer(w)
-----------------------------------------------------------------------------
\* A thread has written through NULL: the process is gone.
Crashed == \E w \in Workers : at[w] = "crashed"

Next == ~ Crashed /\ (DriverStep \/ \E w \in Workers : WorkerStep(w))

Spec == Init /\ [][Next]_vars

\* The main thread runs the loader to its end, in a process that lives.
FairSpec == Spec /\ WF_vars(driver = "loader" /\ ~ Crashed /\ DriverStep)
=============================================================================
