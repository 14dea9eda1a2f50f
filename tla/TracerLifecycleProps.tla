------------------------ MODULE TracerLifecycleProps ------------------------
(* What creating, starting and cleaning up tracers promises.               *)
EXTENDS TracerLifecycle

Ops == {"idle", "start", "intercept", "started", "close", "drop", "free", "done"}
Places == {"out", "tracer", "making", "filling", "buffer", "sending", "return", "crashed"}

\* Every variable has its type; in particular no tracer has more filters than
\* the array holds, whichever of the three paths adds them (tracer_add_filter,
\* the default filter of tracer_start, the loader's own copy of at most MaxFilters).
TypeOK ==
  /\ driver \in {"loader", "program"}
  /\ ctl \in [op : Ops, t : Tracers \cup {None}, tries : 0..Attempts]
  /\ mem \in [Tracers -> {"none", "live", "freed"}]
  /\ initialized \in [Tracers -> BOOLEAN] /\ running \in [Tracers -> BOOLEAN]
  /\ transport \subseteq Tracers /\ threads \subseteq Tracers
  /\ filters \in [Tracers -> 0..MaxFilters]
  /\ served \in Tracers \cup {None} /\ hooked \in BOOLEAN
  /\ pool \in {"none", "raw", "ready"}
  /\ at \in [Workers -> Places]

\* Whatever fails and however often the loader retries, in an injected process
\* the hook only ever works on a tracer that is allocated, with a buffer whose
\* pool was not freed and a transport that is still there: tracer_cleanup
\* (loader.m:131-133) is reached only while objc_msgSend is not rebound, and a
\* thread of the program inside the hook never meets it.  The transport's own
\* detached thread may, after a hook that failed in the last attempt.
LoaderKeepsTheHookFed ==
  driver = "loader" /\ (hooked \/ \E w \in Workers : at[w] # "out") =>
    /\ served # None /\ mem[served] = "live"
    /\ \A w \in Workers :
         /\ at[w] \in {"buffer", "sending", "return"} => pool # "none"
         /\ at[w] = "sending" => served \in transport

\* When the loader's first tracer_start succeeds, the hook is installed and
\* serves that tracer, whose transport is up and has its thread, and whatever
\* threads then meet in the hook the buffer pool is there for them: none makes
\* a pool and none writes through one that is half made.  It is only the later
\* attempts whose success says nothing.
FirstAttemptDelivers ==
  driver = "loader" /\ ctl.op = "done" /\ ctl.tries = 0 =>
    /\ hooked /\ served = ctl.t /\ running[ctl.t]
    /\ ctl.t \in transport /\ ctl.t \in threads
    /\ pool = "ready" /\ ~ Crashed

\* The tracer that the hook serves is chosen once: no later start, stop or
\* cleanup of any tracer changes g_tracer_ctx or takes the hook out.
FirstComeServed ==
  [][/\ served # None => served' = served
     /\ hooked => hooked']_vars

\* The loader gives up after its attempts: once it has created the tracer it
\* either has it running or has freed it, unless a thread ended the process.
LoaderEnds ==
  driver = "loader" ~>
    \/ Crashed
    \/ ctl.op = "done" /\ (running[ctl.t] <=> mem[ctl.t] = "live")

\* src/README.md:136, of a program whose tracer_start succeeded: "On success,
\* you'll see trace events appear in your handler or stdout."  The code: a start
\* also counts as a success when g_tracer_ctx was set before (tracer.c:291-292),
\* by an attempt that then failed to hook or by another tracer.
StartedMeansServed ==
  \A t \in Tracers :
    driver = "program" /\ running[t] /\ mem[t] = "live" => hooked /\ served = t
=============================================================================
