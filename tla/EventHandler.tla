---------------------------- MODULE EventHandler ----------------------------
(***************************************************************************)
(* tracer_handle_event of event_handler.c, with its pool of buffers, after *)
(* the arguments have been captured and until the event is freed.          *)
(***************************************************************************)
EXTENDS Arguments

CONSTANTS
  PoolSize,  \* capacity of the pool, 2048 in the code
  Nobody     \* no buffer; no event in a buffer

ASSUME EventHandlerAssumption == PoolSize \in Nat /\ Nobody \notin Nat \cup Threads

VARIABLES
  custom,   \* the events go to a handler of the program
  size,     \* buffers that were allocated
  in_use,   \* of 1..PoolSize
  holds,    \* thread: its buffer
  written,  \* buffer: the thread whose event it holds
  lost      \* history: an event left memory behind

poolVars == <<size, in_use, holds, written>>
eventVars == <<captureVars, custom, poolVars, lost>>

EventInit ==
  /\ CaptureInit /\ custom \in BOOLEAN /\ size = 0 /\ lost = FALSE
  /\ in_use = [b \in 1..PoolSize |-> FALSE]
  /\ holds = [t \in Threads |-> Nobody] /\ written = [b \in 1..PoolSize |-> Nobody]

Go(t, here, there) ==
  At(t, here, there) /\ UNCHANGED <<heapVars, sharedVars, events, asked, blockVars, i, text, custom, lost>>

HandOver(t) == custom /\ Go(t, "handle", "free") /\ UNCHANGED poolVars

\* The text or the JSON of the event is made, or cannot be.
Format(t) == ~ custom /\ Go(t, "handle", "get") /\ UNCHANGED poolVars
FormatFails(t) == ~ custom /\ Go(t, "handle", "free") /\ UNCHANGED poolVars

\* get_buffer_from_pool, under the lock of the pool.
Free == {b \in 1..size : ~ in_use[b]}

Take(t, b) ==
  /\ Go(t, "get", "fill") /\ holds' = [holds EXCEPT ![t] = b] /\ UNCHANGED written

\* Mutant: the buffer is not marked.
Reuse_Unmarked(t) ==
  \E b \in Free : (\A c \in Free : b <= c) /\ Take(t, b) /\ UNCHANGED <<size, in_use>>

Reuse(t) ==
  \E b \in Free :
    /\ \A c \in Free : b <= c
    /\ Take(t, b) /\ in_use' = [in_use EXCEPT ![b] = TRUE] /\ UNCHANGED size

\* Mutant: one more than there is room for.
Grow_OneMore(t) ==
  /\ Free = {} /\ size <= PoolSize
  /\ size' = size + 1 /\ Take(t, size + 1) /\ in_use' = [in_use EXCEPT ![size + 1] = TRUE]

Grow(t) ==
  /\ Free = {} /\ size < PoolSize
  /\ size' = size + 1 /\ Take(t, size + 1) /\ in_use' = [in_use EXCEPT ![size + 1] = TRUE]

\* All are in use, or there is no memory: the event is dropped.
Exhausted(t) == Free = {} /\ Go(t, "get", "free") /\ UNCHANGED poolVars

Fill(t) ==
  /\ Go(t, "fill", "send") /\ written' = [written EXCEPT ![holds[t]] = t]
  /\ UNCHANGED <<size, in_use, holds>>

\* transport_send, which copies the buffer before it returns.
Send(t) == Go(t, "send", "return") /\ UNCHANGED poolVars

Return(t) ==
  /\ Go(t, "return", "free") /\ holds' = [holds EXCEPT ![t] = Nobody]
  /\ in_use' = [in_use EXCEPT ![holds[t]] = FALSE] /\ UNCHANGED <<size, written>>

\* free_event_arguments, which is called for an event with a list of arguments;
\* then the event goes out of scope.
Drop(p) == IF p = "live" THEN "freed" ELSE p

\* Mutant: the names of the classes are forgotten.
Dropped_ButNames(part) == [part EXCEPT !.type = Drop(@), !.text = Drop(@)]

Dropped(part) == [part EXCEPT !.type = Drop(@), !.class = Drop(@), !.text = Drop(@)]

Left(t) ==
  IF list[t] = "none" THEN {signature[t]}
  ELSE {Drop(signature[t])} \cup
         UNION {LET p == IF k <= count[t] THEN Dropped(parts[t][k]) ELSE parts[t][k]
                IN  {p.type, p.class, p.text} : k \in 1..MaxArgs}

FreeEvent(t) ==
  /\ At(t, "free", "out") /\ lost' = (lost \/ "live" \in Left(t))
  /\ asked' = [asked EXCEPT ![t] = <<>>] /\ signature' = [signature EXCEPT ![t] = "none"]
  /\ count' = [count EXCEPT ![t] = 0] /\ list' = [list EXCEPT ![t] = "none"]
  /\ parts' = [parts EXCEPT ![t] = Unused]
  /\ i' = [i EXCEPT ![t] = 1] /\ text' = [text EXCEPT ![t] = NoText]
  /\ UNCHANGED <<heapVars, sharedVars, events, custom, poolVars>>

Handle(t) ==
  \/ HandOver(t) \/ Format(t) \/ FormatFails(t) \/ Reuse(t) \/ Grow(t) \/ Exhausted(t)
  \/ Fill(t) \/ Send(t) \/ Return(t) \/ FreeEvent(t)

EventNext ==
  \/ \E a \in Addresses : Become(a) /\ UNCHANGED <<custom, poolVars, lost>>
  \/ \E t \in Threads : Capture(t) /\ UNCHANGED <<custom, poolVars, lost>>
  \/ \E t \in Threads : Handle(t)

EventSpec == EventInit /\ [][EventNext]_eventVars
=============================================================================
