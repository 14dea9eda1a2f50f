----------------------------- MODULE MsgSendHook -----------------------------
(***************************************************************************)
(* src/src/libobjsee/interception/msgSend_hook.c on one thread: the shadow *)
(* stack that new_objc_msgSend keeps in the thread's tracer context.       *)
(*                                                                         *)
(* A message goes through pre_objc_msgSend_callback, the method, and       *)
(* post_objc_msgSend_callback, which supplies the address to return to.    *)
(* Capturing the arguments of a traced message runs -description methods   *)
(* of the program, whose own messages go through the hook again before the *)
(* event of the outer message is handled.  Threads share no hook state, so *)
(* one thread is all there is to see.                                      *)
(*                                                                         *)
(* Past the limit frames are still written, and read, behind the end of    *)
(* the context: memory of the heap that belongs to somebody else.          *)
(***************************************************************************)
EXTENDS Naturals, Sequences, FiniteSets

CONSTANTS
  Selectors,     \* the messages sent
  Denied,        \* selector_is_denylisted
  Wanted,        \* tracer_should_trace, given the right selector name
  Describable,   \* selectors with arguments to capture
  Callers,       \* return addresses
  Limit,         \* INITIAL_STACK_FRAMES, 256 in the code
  CaptureDepth,  \* deepest frame whose arguments are captured, 32 in the code
  Width,         \* stack_depth is an unsigned integer modulo Width, 2^32 in the code
  MaxCalls,      \* bound: nested messages
  None,          \* no selector, no event, no caller's address
  Wild           \* a name that is not the one of the selector it is cached for

\* The part of tracer_event_t that the shadow stack decides.
Event == [method_name: Selectors \cup {Wild}, trace_depth: 0..MaxCalls, real_depth: 0..(Width - 1)]

ASSUME SelectorsAssumption ==
  /\ Denied \subseteq Selectors /\ Wanted \subseteq Selectors /\ Describable \subseteq Selectors
  /\ None \notin Selectors /\ Wild \notin Selectors /\ None # Wild
ASSUME EventAssumption == None \notin Event
ASSUME WidthAssumption == /\ MaxCalls \in Nat /\ Width \in Nat /\ Limit \in Nat /\ CaptureDepth \in Nat
                          /\ MaxCalls < Width /\ Limit < Width /\ 0 < Limit

VARIABLES
  calls,              \* the machine's stack: messages entered and not returned from
  stack_depth, trace_depth, frames, sel_cache, capture_arguments,  \* *ctx
  event,              \* the event the last step handed to tracer_handle_event
  drifted,            \* history: an untraced return has lowered trace_depth
  astray              \* a return went to an address that is not its caller's

vars == <<calls, stack_depth, trace_depth, frames, sel_cache, capture_arguments, event, drifted, astray>>

\* get_thread_context: malloc leaves the caches as it found the memory.
Init ==
  /\ calls = <<>>
  /\ stack_depth = Width - 1
  /\ trace_depth = 0
  /\ frames = [d \in 0..(MaxCalls - 1) |-> [lr |-> None, traced |-> FALSE]]
  /\ sel_cache \in [sel: Selectors, name: {Wild}] \cup {[sel |-> None, name |-> None]}
  /\ capture_arguments \in BOOLEAN
  /\ event = None
  /\ drifted = FALSE /\ astray = FALSE

Top == calls[Len(calls)]
-----------------------------------------------------------------------------
(* pre_objc_msgSend_callback *)

\* Unsigned: the depth of an empty stack, -1, is the greatest.
Deeper == IF stack_depth = Width - 1 THEN 0 ELSE stack_depth + 1
TooDeep == Deeper >= Limit

\* The frame after the last one lies over the name in the selector cache and
\* the capture flag; the frames after that one lie behind the context.
Overwrites == Deeper = Limit
AfterArray ==
  IF Overwrites
  THEN sel_cache' = [sel_cache EXCEPT !.name = Wild] /\ capture_arguments' \in BOOLEAN
  ELSE UNCHANGED <<sel_cache, capture_arguments>>

\* Mutant: the return address is stored for traced messages only.
Push_TracedOnly(lr, traced, pending) ==
  /\ ~ astray /\ Len(calls) < MaxCalls
  /\ stack_depth' = Deeper
  /\ frames' = IF traced THEN [frames EXCEPT ![Deeper] = [lr |-> lr, traced |-> traced]] ELSE frames
  /\ calls' = Append(calls, [lr |-> lr, traced |-> traced, pending |-> pending])
  /\ UNCHANGED <<drifted, astray>>

Push(lr, traced, pending) ==
  /\ ~ astray /\ Len(calls) < MaxCalls
  /\ stack_depth' = Deeper
  /\ frames' = [frames EXCEPT ![Deeper] = [lr |-> lr, traced |-> traced]]
  /\ calls' = Append(calls, [lr |-> lr, traced |-> traced, pending |-> pending])
  /\ UNCHANGED <<drifted, astray>>

\* The stack limit, a receiver that is nil or no object, or the deny list.
Untraced(lr, sel, valid) ==
  /\ TooDeep \/ ~ valid \/ sel \in Denied
  /\ Push(lr, FALSE, None)
  /\ AfterArray
  /\ event' = None
  /\ UNCHANGED trace_depth

\* Mutant: a cached selector is taken for the one that was sent.
Name_AnyHit(sel) == IF sel_cache.sel # None THEN sel_cache.name ELSE sel

Name(sel) == IF sel_cache.sel = sel THEN sel_cache.name ELSE sel
Cached(sel) == [sel |-> sel, name |-> Name(sel)]

\* What tracer_should_trace may answer, and whether arguments are captured: a
\* wild name may read as anything.
Verdicts(name) == IF name = Wild THEN BOOLEAN ELSE {name \in Wanted}
Captures(name) ==
  IF ~ capture_arguments \/ Deeper > CaptureDepth THEN {FALSE}
  ELSE IF name = Wild THEN BOOLEAN ELSE {name \in Describable}

FilteredOut(lr, sel) ==
  /\ ~ TooDeep /\ sel \notin Denied
  /\ FALSE \in Verdicts(Name(sel))
  /\ Push(lr, FALSE, None)
  /\ sel_cache' = Cached(sel)
  /\ event' = None
  /\ UNCHANGED <<trace_depth, capture_arguments>>

NewEvent(sel) ==
  [method_name |-> Name(sel), trace_depth |-> trace_depth, real_depth |-> Deeper]

Accepted(lr, sel, pending) ==
  /\ ~ TooDeep /\ sel \notin Denied
  /\ TRUE \in Verdicts(Name(sel))
  /\ Push(lr, TRUE, pending)
  /\ sel_cache' = Cached(sel)
  /\ UNCHANGED capture_arguments

\* Nothing to capture: the event is handled at once.
Traced(lr, sel) ==
  /\ FALSE \in Captures(Name(sel))
  /\ Accepted(lr, sel, None)
  /\ event' = NewEvent(sel)
  /\ trace_depth' = trace_depth + 1

\* capture_arguments begins; the event was built before it.
Capture(lr, sel) ==
  /\ TRUE \in Captures(Name(sel))
  /\ Accepted(lr, sel, NewEvent(sel))
  /\ event' = None
  /\ UNCHANGED trace_depth

\* Mutant: a message whose arguments were captured is not counted.
Captured_Uncounted ==
  /\ ~ astray /\ calls # <<>> /\ Top.pending # None
  /\ event' = Top.pending
  /\ calls' = [calls EXCEPT ![Len(calls)].pending = None]
  /\ UNCHANGED <<trace_depth, stack_depth, frames, sel_cache, capture_arguments, drifted, astray>>

\* capture_arguments is done, with the messages it sent returned.
Captured ==
  /\ ~ astray /\ calls # <<>> /\ Top.pending # None
  /\ event' = Top.pending
  /\ trace_depth' = trace_depth + 1
  /\ calls' = [calls EXCEPT ![Len(calls)].pending = None]
  /\ UNCHANGED <<stack_depth, frames, sel_cache, capture_arguments, drifted, astray>>

Send(lr, sel) == \/ \E valid \in BOOLEAN : Untraced(lr, sel, valid)
                 \/ FilteredOut(lr, sel)
                 \/ Traced(lr, sel)
                 \/ Capture(lr, sel)
-----------------------------------------------------------------------------
(* post_objc_msgSend_callback: no look at whether the frame was traced. *)

\* Mutant: no guard against going below zero.
Lower_Wraps == IF trace_depth = 0 THEN Width - 1 ELSE trace_depth - 1

Lower == IF trace_depth > 0 THEN trace_depth - 1 ELSE trace_depth

ReturnAddress == frames[stack_depth].lr

Return ==
  /\ ~ astray /\ calls # <<>> /\ Top.pending = None
  /\ calls' = SubSeq(calls, 1, Len(calls) - 1)
  /\ stack_depth' = IF stack_depth = 0 THEN Width - 1 ELSE stack_depth - 1
  /\ trace_depth' = Lower
  /\ astray' = (ReturnAddress # Top.lr)
  /\ drifted' = (Len(calls) > 1 /\ (drifted \/ (~ Top.traced /\ trace_depth > 0)))
  /\ event' = None
  /\ UNCHANGED <<frames, sel_cache, capture_arguments>>
-----------------------------------------------------------------------------
(* The owner of the memory behind the context writes to it.                *)

Foreign ==
  /\ ~ astray
  /\ \E d \in (Limit + 1)..(MaxCalls - 1) :
       frames' = [frames EXCEPT ![d] = [lr |-> None, traced |-> FALSE]]
  /\ event' = None
  /\ UNCHANGED <<calls, stack_depth, trace_depth, sel_cache, capture_arguments, drifted, astray>>
-----------------------------------------------------------------------------
\* What a thread does that returned to a foreign address cannot be told.
Next == \/ \E lr \in Callers, sel \in Selectors : Send(lr, sel)
        \/ Captured
        \/ Return
        \/ Foreign

Spec == Init /\ [][Next]_vars
=============================================================================
