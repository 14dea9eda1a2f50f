--------------------------- MODULE MsgSendHookProps ---------------------------
(* What the hook's shadow stack guarantees.                                *)
EXTENDS MsgSendHook

Call == [lr: Callers, traced: BOOLEAN, pending: Event \cup {None}]
Frame == [lr: Callers \cup {None}, traced: BOOLEAN]

(* Every variable keeps to its type.                                       *)
TypeOK ==
  /\ calls \in Seq(Call) /\ Len(calls) <= MaxCalls
  /\ stack_depth \in 0..(Width - 1)
  /\ trace_depth \in 0..MaxCalls
  /\ frames \in [0..(MaxCalls - 1) -> Frame]
  /\ sel_cache \in [sel: Selectors \cup {None}, name: Selectors \cup {None, Wild}]
  /\ capture_arguments \in BOOLEAN
  /\ event \in Event \cup {None}
  /\ drifted \in BOOLEAN /\ astray \in BOOLEAN

(* As long as its frame lies in the context, a message returns to its own  *)
(* caller, whatever was denied, filtered or sent from inside               *)
(* pre_objc_msgSend: that is so for Limit + 1 messages, one more than      *)
(* there are frames.  The depth that wraps below zero is the depth of the  *)
(* machine's stack, and a message that goes astray was sent deeper still.  *)
ReturnsHome ==
  /\ \A i \in 1..Len(calls) : i <= Limit + 1 => frames[i - 1].lr = calls[i].lr
  /\ stack_depth = IF calls = <<>> THEN Width - 1 ELSE Len(calls) - 1
  /\ astray => Len(calls) > Limit

\* The messages on the stack whose events have been handled.
Reported == {i \in 1..Len(calls) : calls[i].traced /\ calls[i].pending = None}

(* trace_depth never exceeds the reported messages on the stack, although  *)
(* returns of unreported messages lower it too; it is zero on an empty     *)
(* stack, so an error in the indentation heals.                            *)
TraceDepthBounded == trace_depth <= Cardinality(Reported)

(* Nothing but the return of an untraced message below a traced one makes  *)
(* trace_depth differ from the number of reported messages on the stack.   *)
DriftExplained == ~ drifted => trace_depth = Cardinality(Reported)

CacheTrue == sel_cache.sel \in Selectors => sel_cache.name = sel_cache.sel

(* A selector cache that names its selector goes on doing so, unless a     *)
(* message was sent with all the frames in use.                            *)
CacheSpoiltOnlyPastLimit == [][CacheTrue => CacheTrue' \/ Len(calls') > Limit]_vars
=============================================================================
