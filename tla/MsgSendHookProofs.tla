-------------------------- MODULE MsgSendHookProofs --------------------------
(***************************************************************************)
(* Proofs about MsgSendHook, for any frame limit, nesting, return          *)
(* addresses and filters: a message whose frame lies in the context        *)
(* returns to its caller whatever is written behind the context, and       *)
(* trace_depth is bounded by, and without drift equal to, the number of    *)
(* reported messages on the stack.  The three facts and the types are      *)
(* inductive together.                                                     *)
(***************************************************************************)
EXTENDS MsgSendHookProps, FiniteSetTheorems, TLAPS

\* A cache that answers for a selector has a name for it, right or wrong.
CacheNamed == sel_cache.sel \in Selectors => sel_cache.name # None

\* A message waits for its arguments only if it is traced.
PendingTraced == \A i \in 1..Len(calls) : calls[i].pending # None => calls[i].traced

IInv == /\ TypeOK /\ CacheNamed /\ PendingTraced
        /\ ReturnsHome /\ TraceDepthBounded /\ DriftExplained

\* Reported as a function of a stack.
ReportedOf(q) == {i \in 1..Len(q) : q[i].traced /\ q[i].pending = None}

\* The size of 1..n.
LEMMA IntervalSize ==
  ASSUME NEW n \in Nat
  PROVE  IsFiniteSet(1..n) /\ Cardinality(1..n) = n
<1>1. IsFiniteSet(1..n) /\ Cardinality(1..n) = IF 1 > n THEN 0 ELSE n - 1 + 1
  BY FS_Interval
<1>2. QED
  BY <1>1

\* The reported messages of a stack are no more than the stack is deep.
LEMMA ReportedFinite ==
  ASSUME NEW q, Len(q) \in Nat
  PROVE  IsFiniteSet(ReportedOf(q)) /\ Cardinality(ReportedOf(q)) \in 0..Len(q)
<1>1. IsFiniteSet(1..Len(q)) /\ Cardinality(1..Len(q)) = Len(q)
  BY IntervalSize
<1>2. ReportedOf(q) \subseteq 1..Len(q)
  BY DEF ReportedOf
<1>3. QED
  BY <1>1, <1>2, FS_Subset, FS_CardinalityType

\* A message pushed counts if it is traced and its event is not pending.
LEMMA ReportedPush ==
  ASSUME NEW q \in Seq(Call), NEW c \in Call
  PROVE  Cardinality(ReportedOf(Append(q, c)))
           = Cardinality(ReportedOf(q)) + (IF c.traced /\ c.pending = None THEN 1 ELSE 0)
<1> DEFINE n == Len(q) + 1
<1>1. Len(Append(q, c)) = n /\ n \in Nat /\ Append(q, c)[n] = c
  OBVIOUS
<1>2. \A i \in 1..Len(q) : Append(q, c)[i] = q[i]
  OBVIOUS
<1>3. IsFiniteSet(ReportedOf(q)) /\ n \notin ReportedOf(q)
  <2>1. IsFiniteSet(ReportedOf(q))
    BY ReportedFinite
  <2>2. n \notin ReportedOf(q)
    BY DEF ReportedOf
  <2>3. QED
    BY <2>1, <2>2
<1>4. CASE c.traced /\ c.pending = None
  <2>1. ReportedOf(Append(q, c)) = ReportedOf(q) \cup {n}
    BY <1>1, <1>2, <1>4 DEF ReportedOf
  <2>2. QED
    BY <1>3, <1>4, <2>1, FS_AddElement
<1>5. CASE ~ (c.traced /\ c.pending = None)
  <2>1. ReportedOf(Append(q, c)) = ReportedOf(q)
    BY <1>1, <1>2, <1>5 DEF ReportedOf
  <2>2. Cardinality(ReportedOf(q)) \in Nat
    BY ReportedFinite
  <2>3. QED
    BY <1>5, <2>1, <2>2
<1>6. QED
  BY <1>4, <1>5

\* A pop takes at most the message popped from the reported ones.
LEMMA ReportedPop ==
  ASSUME NEW q \in Seq(Call), q # <<>>, q[Len(q)].pending = None
  PROVE  Cardinality(ReportedOf(SubSeq(q, 1, Len(q) - 1)))
           = Cardinality(ReportedOf(q)) - (IF q[Len(q)].traced THEN 1 ELSE 0)
<1> DEFINE r == SubSeq(q, 1, Len(q) - 1)
<1>1. r \in Seq(Call) /\ q[Len(q)] \in Call
  OBVIOUS
<1>2. q = Append(r, q[Len(q)])
  OBVIOUS
<1>3. Cardinality(ReportedOf(r)) \in Nat
  BY <1>1, ReportedFinite
<1>4. Cardinality(ReportedOf(q))
        = Cardinality(ReportedOf(r)) + (IF q[Len(q)].traced /\ q[Len(q)].pending = None THEN 1 ELSE 0)
  BY <1>1, <1>2, ReportedPush
<1>5. QED
  BY <1>3, <1>4

\* What a message pushed on the stack leaves to prove.
LEMMA PushPreserves ==
  ASSUME TypeOK, ReturnsHome, NEW lr \in Callers, NEW t \in BOOLEAN,
         NEW p \in Event \cup {None}, Push(lr, t, p)
  PROVE  /\ ReturnsHome'
         /\ PendingTraced /\ (p # None => t) => PendingTraced'
         /\ calls' \in Seq(Call) /\ Len(calls') <= MaxCalls
         /\ stack_depth' \in 0..(Width - 1)
         /\ frames' \in [0..(MaxCalls - 1) -> Frame]
         /\ Deeper \in 0..(Width - 1)
         /\ astray' \in BOOLEAN
<1> DEFINE c == [lr |-> lr, traced |-> t, pending |-> p]
<1> USE WidthAssumption
<1>1. c \in Call /\ calls' = Append(calls, c)
  BY DEF Push, Call
<1>2. calls \in Seq(Call) /\ Len(calls) \in Nat /\ Len(calls) < MaxCalls
  BY DEF TypeOK, Push
<1>3. Deeper = Len(calls)
  <2>1. CASE calls = <<>>
    BY <2>1, <1>2 DEF ReturnsHome, Deeper
  <2>2. CASE calls # <<>>
    BY <2>2, <1>2 DEF ReturnsHome, Deeper
  <2>3. QED
    BY <2>1, <2>2
<1>4. /\ calls' \in Seq(Call) /\ Len(calls') = Len(calls) + 1 /\ calls' # <<>>
      /\ calls'[Len(calls) + 1] = c
      /\ \A i \in 1..Len(calls) : calls'[i] = calls[i]
  BY <1>1, <1>2
<1>5. frames' = [frames EXCEPT ![Len(calls)] = [lr |-> lr, traced |-> t]] /\ stack_depth' = Len(calls)
  BY <1>3 DEF Push
<1>6. Len(calls) \in 0..(MaxCalls - 1) /\ frames \in [0..(MaxCalls - 1) -> Frame]
  BY <1>2 DEF TypeOK
<1>7. \A i \in 1..Len(calls') : i <= Limit + 1 => frames'[i - 1].lr = calls'[i].lr
  <2> SUFFICES ASSUME NEW i \in 1..Len(calls'), i <= Limit + 1 PROVE frames'[i - 1].lr = calls'[i].lr
    OBVIOUS
  <2>1. CASE i = Len(calls) + 1
    BY <2>1, <1>2, <1>4, <1>5, <1>6
  <2>2. CASE i \in 1..Len(calls)
    BY <2>2, <1>2, <1>4, <1>5, <1>6 DEF ReturnsHome
  <2>3. QED
    BY <2>1, <2>2, <1>2, <1>4
<1>8. [lr |-> lr, traced |-> t] \in Frame
  BY DEF Frame
<1>9. frames' \in [0..(MaxCalls - 1) -> Frame]
  BY <1>5, <1>6, <1>8
<1>10. PendingTraced /\ (p # None => t) => PendingTraced'
  BY <1>2, <1>4 DEF PendingTraced
<1>11. ~ astray' /\ astray' \in BOOLEAN
  BY Zenon DEF Push, TypeOK
<1>12. ReturnsHome'
  BY <1>2, <1>4, <1>5, <1>7, <1>11 DEF ReturnsHome
<1>13. astray' \in BOOLEAN
  BY <1>11
<1>14. stack_depth' \in 0..(Width - 1) /\ Deeper \in 0..(Width - 1) /\ Len(calls') <= MaxCalls
  BY <1>2, <1>3, <1>4, <1>5
<1>15. QED
  BY <1>4, <1>9, <1>10, <1>12, <1>13, <1>14

\* Reported, of the state and of the next, is ReportedOf of the stack.
LEMMA ReportedIs == Reported = ReportedOf(calls) /\ Reported' = ReportedOf(calls')
BY DEF Reported, ReportedOf

\* What is built from a selector and the cache has its type.
LEMMA NameTypes ==
  ASSUME TypeOK, CacheNamed, NEW sel \in Selectors, Deeper \in 0..(Width - 1)
  PROVE  /\ Name(sel) \in Selectors \cup {Wild}
         /\ Cached(sel) \in [sel: Selectors \cup {None}, name: Selectors \cup {None, Wild}]
         /\ NewEvent(sel) \in Event
<1>1. Name(sel) \in Selectors \cup {Wild}
  BY DEF TypeOK, CacheNamed, Name
<1>2. QED
  BY <1>1 DEF Cached, NewEvent, Event, TypeOK

\* What a push does to the shadow stack and to the count of reported messages.
LEMMA PushCounts ==
  ASSUME TypeOK, NEW lr \in Callers, NEW t \in BOOLEAN,
         NEW p \in Event \cup {None}, Push(lr, t, p)
  PROVE  /\ Cardinality(Reported) \in 0..Len(calls)
         /\ Cardinality(Reported') = Cardinality(Reported) + (IF t /\ p = None THEN 1 ELSE 0)
         /\ Len(calls') = Len(calls) + 1
<1> DEFINE c == [lr |-> lr, traced |-> t, pending |-> p]
<1>1. c \in Call /\ calls' = Append(calls, c) /\ calls \in Seq(Call)
  BY DEF Push, Call, TypeOK
<1>2. Cardinality(ReportedOf(calls'))
        = Cardinality(ReportedOf(calls)) + (IF c.traced /\ c.pending = None THEN 1 ELSE 0)
  BY <1>1, ReportedPush
<1>3. Cardinality(ReportedOf(calls)) \in 0..Len(calls)
  BY <1>1, ReportedFinite
<1>4. QED
  BY <1>1, <1>2, <1>3, ReportedIs

\* trace_depth against the number of reported messages, after a push.
LEMMA PushDepth ==
  ASSUME IInv, NEW lr \in Callers, NEW t \in BOOLEAN, NEW p \in Event \cup {None},
         Push(lr, t, p),
         trace_depth' = trace_depth + (IF t /\ p = None THEN 1 ELSE 0)
  PROVE  /\ TraceDepthBounded' /\ DriftExplained' /\ ReturnsHome'
         /\ trace_depth' \in 0..MaxCalls
         /\ drifted' \in BOOLEAN /\ astray' \in BOOLEAN
<1> DEFINE k == IF t /\ p = None THEN 1 ELSE 0
<1>1. /\ Cardinality(Reported) \in 0..Len(calls)
      /\ Cardinality(Reported') = Cardinality(Reported) + k
  BY PushCounts DEF IInv
<1>2. trace_depth \in Nat /\ Len(calls) \in Nat /\ Len(calls) < MaxCalls /\ MaxCalls \in Nat
  BY WidthAssumption DEF IInv, TypeOK, Push
<1>3. k \in 0..1 /\ trace_depth' = trace_depth + k /\ drifted' = drifted
  BY DEF Push
<1>4. TraceDepthBounded' /\ trace_depth' \in 0..MaxCalls
  BY <1>1, <1>2, <1>3 DEF IInv, TraceDepthBounded
<1>5. DriftExplained'
  BY <1>1, <1>2, <1>3 DEF IInv, DriftExplained
<1>6. ReturnsHome'
  BY PushPreserves DEF IInv
<1>7. astray' \in BOOLEAN
  BY PushPreserves DEF IInv
<1>8. QED
  BY <1>3, <1>4, <1>5, <1>6, <1>7 DEF IInv, TypeOK

\* A message that is filtered out keeps the invariant.
LEMMA UntracedPreserves ==
  ASSUME IInv, NEW lr \in Callers, NEW sel \in Selectors, NEW valid \in BOOLEAN,
         Untraced(lr, sel, valid)
  PROVE  IInv'
<1>1. Push(lr, FALSE, None) /\ None \in Event \cup {None}
  BY DEF Untraced
<1>2. /\ TraceDepthBounded' /\ DriftExplained' /\ ReturnsHome'
      /\ trace_depth' \in 0..MaxCalls /\ drifted' \in BOOLEAN /\ astray' \in BOOLEAN
  <2>1. trace_depth' = trace_depth + 0
    BY DEF Untraced, IInv, TypeOK
  <2>2. QED
    BY <1>1, <2>1, PushDepth
<1>3. /\ calls' \in Seq(Call) /\ Len(calls') <= MaxCalls
      /\ stack_depth' \in 0..(Width - 1)
      /\ frames' \in [0..(MaxCalls - 1) -> Frame]
  BY <1>1, PushPreserves DEF IInv
<1>4. /\ sel_cache' \in [sel: Selectors \cup {None}, name: Selectors \cup {None, Wild}]
      /\ CacheNamed' /\ capture_arguments' \in BOOLEAN
  <2>1. CASE Overwrites
    BY <2>1, SelectorsAssumption DEF Untraced, AfterArray, IInv, TypeOK, CacheNamed
  <2>2. CASE ~ Overwrites
    BY <2>2 DEF Untraced, AfterArray, IInv, TypeOK, CacheNamed
  <2>3. QED
    BY <2>1, <2>2
<1>5. event' \in Event \cup {None}
  BY DEF Untraced
<1>6. PendingTraced'
  BY <1>1, PushPreserves DEF IInv
<1>7. QED
  BY <1>2, <1>3, <1>4, <1>5, <1>6 DEF IInv, TypeOK

\* The three ways a message can go on once its selector has been looked up.
LEMMA LookedUpPreserves ==
  ASSUME IInv, NEW lr \in Callers, NEW sel \in Selectors, NEW t \in BOOLEAN,
         NEW p \in Event \cup {None}, Push(lr, t, p), p # None => t,
         trace_depth' = trace_depth + (IF t /\ p = None THEN 1 ELSE 0),
         sel_cache' = Cached(sel), UNCHANGED capture_arguments,
         event' \in Event \cup {None}
  PROVE  IInv'
<1>1. /\ TraceDepthBounded' /\ DriftExplained' /\ ReturnsHome'
      /\ trace_depth' \in 0..MaxCalls /\ drifted' \in BOOLEAN /\ astray' \in BOOLEAN
  BY PushDepth
<1>2. /\ calls' \in Seq(Call) /\ Len(calls') <= MaxCalls
      /\ stack_depth' \in 0..(Width - 1)
      /\ frames' \in [0..(MaxCalls - 1) -> Frame]
      /\ Deeper \in 0..(Width - 1)
  BY PushPreserves DEF IInv
<1>3. /\ sel_cache' \in [sel: Selectors \cup {None}, name: Selectors \cup {None, Wild}]
      /\ Name(sel) \in Selectors \cup {Wild}
  BY <1>2, NameTypes DEF IInv
<1>4. CacheNamed'
  BY <1>3, SelectorsAssumption DEF CacheNamed, Cached
<1>5. PendingTraced'
  BY PushPreserves DEF IInv
<1>6. QED
  BY <1>1, <1>2, <1>3, <1>4, <1>5 DEF IInv, TypeOK

\* A message, traced or not, keeps the invariant.
LEMMA SendPreserves ==
  ASSUME IInv, NEW lr \in Callers, NEW sel \in Selectors, Send(lr, sel)
  PROVE  IInv'
<1>0. trace_depth \in Nat
  BY DEF IInv, TypeOK
<1>1. CASE \E valid \in BOOLEAN : Untraced(lr, sel, valid)
  BY <1>1, UntracedPreserves
<1>2. CASE FilteredOut(lr, sel)
  <2>1. Push(lr, FALSE, None) /\ event' \in Event \cup {None} /\ None \in Event \cup {None}
    BY <1>2 DEF FilteredOut
  <2>2. trace_depth' = trace_depth + 0 /\ sel_cache' = Cached(sel) /\ UNCHANGED capture_arguments
    BY <1>0, <1>2 DEF FilteredOut
  <2>3. QED
    BY <2>1, <2>2, LookedUpPreserves
<1>3. ASSUME Traced(lr, sel) \/ Capture(lr, sel) PROVE NewEvent(sel) \in Event
  <2>1. ASSUME NEW p, Push(lr, TRUE, p) PROVE Deeper \in 0..(Width - 1)
    BY <2>1, WidthAssumption DEF IInv, TypeOK, Deeper
  <2>2. Deeper \in 0..(Width - 1)
    BY <1>3, <2>1 DEF Traced, Capture, Accepted
  <2>3. QED
    BY <2>2, NameTypes DEF IInv
<1>4. CASE Traced(lr, sel)
  <2>1. event' \in Event \cup {None} /\ Push(lr, TRUE, None) /\ None \in Event \cup {None}
    BY <1>3, <1>4 DEF Traced, Accepted
  <2>2. trace_depth' = trace_depth + 1 /\ sel_cache' = Cached(sel) /\ UNCHANGED capture_arguments
    BY <1>4 DEF Traced, Accepted
  <2>3. QED
    BY <2>1, <2>2, LookedUpPreserves
<1>5. CASE Capture(lr, sel)
  <2>1. NewEvent(sel) \in Event /\ NewEvent(sel) # None
    BY <1>3, <1>5, EventAssumption
  <2>2. Push(lr, TRUE, NewEvent(sel)) /\ event' \in Event \cup {None}
    BY <1>5 DEF Capture, Accepted
  <2>3. trace_depth' = trace_depth + 0 /\ sel_cache' = Cached(sel) /\ UNCHANGED capture_arguments
    BY <1>0, <1>5 DEF Capture, Accepted
  <2>4. QED
    BY <2>1, <2>2, <2>3, LookedUpPreserves
<1>6. QED
  BY <1>1, <1>2, <1>4, <1>5 DEF Send
-----------------------------------------------------------------------------
\* The end of the capture, which counts the message, keeps the invariant.
LEMMA CapturedPreserves == IInv /\ Captured => IInv'
<1> SUFFICES ASSUME IInv, Captured PROVE IInv'
  OBVIOUS
<1> DEFINE n == Len(calls)
<1>1. calls \in Seq(Call) /\ n \in 1..MaxCalls /\ calls[n] \in Call
  BY DEF IInv, TypeOK, Captured
<1>2. calls' = [calls EXCEPT ![n].pending = None] /\ calls[n].pending # None
  BY DEF Captured, Top
<1>3. calls' \in Seq(Call) /\ Len(calls') = n /\ calls' # <<>>
  BY <1>1, <1>2 DEF Call
<1>4. \A i \in 1..n : calls'[i].lr = calls[i].lr /\ calls'[i].traced = calls[i].traced
  BY <1>1, <1>2 DEF Call
<1>5. \A i \in 1..n : i # n => calls'[i] = calls[i]
  BY <1>1, <1>2
<1>6. calls'[n].pending = None
  BY <1>1, <1>2 DEF Call
<1>7. Reported' \subseteq Reported \cup {n} /\ n \notin Reported /\ Reported \subseteq Reported'
  BY <1>2, <1>3, <1>4, <1>5 DEF Reported
<1>8. calls[n].traced
  BY <1>1, <1>2 DEF IInv, PendingTraced
<1>9. Reported' = Reported \cup {n}
  BY <1>1, <1>3, <1>4, <1>6, <1>7, <1>8 DEF Reported
<1>10. Cardinality(Reported') = Cardinality(Reported) + 1 /\ Cardinality(Reported') \in 0..n
  <2>1. IsFiniteSet(Reported) /\ Cardinality(Reported) \in Nat
    BY <1>1, ReportedFinite, ReportedIs
  <2>2. Cardinality(Reported') \in 0..n
    BY <1>1, <1>3, ReportedFinite, ReportedIs
  <2>3. QED
    BY <1>7, <1>9, <2>1, <2>2, FS_AddElement
<1>11. trace_depth \in Nat /\ trace_depth' = trace_depth + 1 /\ drifted' = drifted
  BY DEF Captured, IInv, TypeOK
<1>12. Cardinality(Reported) \in Nat
  BY <1>1, ReportedFinite, ReportedIs
<1>13. TraceDepthBounded' /\ DriftExplained' /\ trace_depth' \in 0..MaxCalls
  BY <1>1, <1>10, <1>11, <1>12, WidthAssumption DEF IInv, TraceDepthBounded, DriftExplained
<1>14. ReturnsHome' /\ astray' \in BOOLEAN
  <2>1. ~ astray' /\ astray' \in BOOLEAN
    BY Zenon DEF Captured, IInv, TypeOK
  <2>2. QED
    BY <1>1, <1>3, <1>4, <2>1 DEF Captured, IInv, ReturnsHome
<1>15. CacheNamed' /\ PendingTraced'
  BY <1>3, <1>4, <1>5, <1>6 DEF Captured, IInv, CacheNamed, PendingTraced
<1>16. event' \in Event \cup {None}
  BY <1>1, <1>2 DEF Captured, Top, Call
<1>17. TypeOK'
  BY <1>1, <1>3, <1>11, <1>13, <1>14, <1>16 DEF Captured, IInv, TypeOK
<1>18. QED
  BY <1>13, <1>14, <1>15, <1>17 DEF IInv

\* What a pop leaves of a sequence.
LEMMA FrontOf ==
  ASSUME NEW q \in Seq(Call), q # <<>>
  PROVE  /\ SubSeq(q, 1, Len(q) - 1) \in Seq(Call)
         /\ Len(SubSeq(q, 1, Len(q) - 1)) = Len(q) - 1
         /\ \A i \in 1..(Len(q) - 1) : SubSeq(q, 1, Len(q) - 1)[i] = q[i]
<1>1. Len(q) - 1 \in Nat
  OBVIOUS
<1>2. Len(SubSeq(q, 1, Len(q) - 1)) = Len(q) - 1
  BY <1>1
<1>3. SubSeq(q, 1, Len(q) - 1) \in Seq(Call)
  OBVIOUS
<1>4. \A i \in 1..(Len(q) - 1) : SubSeq(q, 1, Len(q) - 1)[i] = q[i]
  BY <1>1
<1>5. QED
  BY <1>2, <1>3, <1>4

\* The two cases of a return: the last message or one of several.
LEMMA OneOrMore == \A k \in Nat : k >= 1 => (k = 1) \/ (k > 1)
OBVIOUS

\* A return, of a counted message or not, keeps the invariant.
LEMMA ReturnPreserves == IInv /\ Return => IInv'
<1> SUFFICES ASSUME IInv, Return PROVE IInv'
  OBVIOUS
<1> DEFINE n == Len(calls)
<1>1. calls \in Seq(Call) /\ n \in 1..MaxCalls /\ calls[n] \in Call /\ calls # <<>>
  BY DEF IInv, TypeOK, Return
<1>2. calls' = SubSeq(calls, 1, n - 1) /\ calls[n].pending = None
  BY DEF Return, Top
<1>3. /\ calls' \in Seq(Call) /\ Len(calls') = n - 1 /\ (calls' = <<>> <=> n = 1)
      /\ \A i \in 1..(n - 1) : calls'[i] = calls[i]
  <2>1. calls' \in Seq(Call) /\ Len(calls') = n - 1
    BY <1>1, <1>2, FrontOf
  <2>2. \A i \in 1..(n - 1) : calls'[i] = calls[i]
    BY <1>1, <1>2, FrontOf
  <2>3. calls' = <<>> <=> n = 1
    BY <1>1, <2>1
  <2>4. QED
    BY <2>1, <2>2, <2>3
<1>4. Cardinality(Reported') = Cardinality(Reported) - (IF calls[n].traced THEN 1 ELSE 0)
  <2>1. Cardinality(ReportedOf(SubSeq(calls, 1, Len(calls) - 1)))
          = Cardinality(ReportedOf(calls)) - (IF calls[n].traced THEN 1 ELSE 0)
    BY <1>1, <1>2, ReportedPop
  <2>2. QED
    BY <1>2, <2>1, ReportedIs
<1>5. Cardinality(Reported) \in Nat /\ Cardinality(Reported') \in 0..(n - 1)
  <2>1. Cardinality(ReportedOf(calls)) \in 0..n
    BY <1>1, ReportedFinite
  <2>2. Len(calls') \in Nat
    BY <1>3
  <2>3. Cardinality(ReportedOf(calls')) \in 0..Len(calls')
    BY <2>2, ReportedFinite
  <2>4. QED
    BY <1>1, <1>3, <2>1, <2>3, ReportedIs
<1>6. trace_depth \in Nat /\ trace_depth <= Cardinality(Reported) /\ trace_depth' = Lower
  BY DEF IInv, TypeOK, TraceDepthBounded, Return
<1>7. TraceDepthBounded' /\ trace_depth' \in 0..MaxCalls
  <2>1. calls[n].traced \in BOOLEAN /\ MaxCalls \in Nat
    BY <1>1, WidthAssumption DEF Call
  <2>2. trace_depth' = IF trace_depth > 0 THEN trace_depth - 1 ELSE trace_depth
    BY <1>6 DEF Lower
  <2>3. trace_depth' <= Cardinality(Reported') /\ trace_depth' \in Nat
    <3>1. CASE calls[n].traced
      BY <1>4, <1>5, <1>6, <2>2, <3>1
    <3>2. CASE ~ calls[n].traced
      BY <1>4, <1>5, <1>6, <2>2, <3>2
    <3>3. QED
      BY <3>1, <3>2
  <2>4. QED
    BY <1>1, <1>5, <2>1, <2>3 DEF TraceDepthBounded
<1>8. DriftExplained'
  <2> SUFFICES ASSUME ~ drifted' PROVE trace_depth' = Cardinality(Reported')
    BY DEF DriftExplained
  <2>1. CASE n = 1
    BY <1>5, <1>7, <2>1 DEF TraceDepthBounded
  <2>2. CASE n > 1
    <3>1. ~ drifted /\ (calls[n].traced \/ trace_depth = 0)
      <4>1. Len(calls) > 1
        BY <2>2
      <4>2. ~ (drifted \/ (~ calls[n].traced /\ trace_depth > 0))
        <5>1. drifted' = (n > 1 /\ (drifted \/ (~ calls[n].traced /\ trace_depth > 0)))
          BY Zenon DEF Return, Top
        <5>2. CASE drifted \/ (~ calls[n].traced /\ trace_depth > 0)
          <6>1. drifted' = TRUE
            BY <4>1, <5>1, <5>2
          <6>2. QED
            BY <6>1
        <5>3. QED
          BY <5>2
      <4>3. QED
        BY <1>6, <4>2
    <3>2. trace_depth = Cardinality(Reported)
      BY <3>1 DEF IInv, DriftExplained
    <3>3. CASE calls[n].traced
      BY <1>4, <1>5, <1>6, <3>2, <3>3 DEF Lower
    <3>4. CASE ~ calls[n].traced
      BY <1>4, <1>5, <1>6, <3>1, <3>2, <3>4 DEF Lower
    <3>5. QED
      BY <3>3, <3>4
  <2>3. n = 1 \/ n > 1
    <3>1. n \in Nat /\ n >= 1
      BY <1>1
    <3>2. QED
      BY <3>1, OneOrMore
  <2>4. QED
    BY <2>1, <2>2, <2>3
<1>9. stack_depth = n - 1 /\ stack_depth' = IF n = 1 THEN Width - 1 ELSE n - 2
  BY <1>1 DEF IInv, ReturnsHome, Return
<1>10. stack_depth' \in 0..(Width - 1)
  BY <1>1, <1>9, WidthAssumption
<1>11. ReturnsHome'
  <2>1. \A i \in 1..Len(calls') : i <= Limit + 1 => frames'[i - 1].lr = calls'[i].lr
    BY <1>1, <1>3 DEF IInv, ReturnsHome, Return
  <2>2. stack_depth' = IF calls' = <<>> THEN Width - 1 ELSE Len(calls') - 1
    BY <1>1, <1>3, <1>9
  <2>3. ASSUME astray' PROVE Len(calls') > Limit
    <3>1. frames[n - 1].lr # calls[n].lr
      BY <1>9, <2>3 DEF Return, ReturnAddress, Top
    <3>2. ~ (n <= Limit + 1)
      BY <1>1, <3>1 DEF IInv, ReturnsHome
    <3>3. QED
      BY <1>1, <1>3, <3>2, WidthAssumption
  <2>4. QED
    BY <2>1, <2>2, <2>3 DEF ReturnsHome
<1>12. CacheNamed' /\ PendingTraced'
  BY <1>1, <1>3 DEF Return, IInv, CacheNamed, PendingTraced
<1>13. Len(calls') <= MaxCalls /\ drifted' \in BOOLEAN /\ astray' \in BOOLEAN
  BY <1>1, <1>3, WidthAssumption DEF Return, IInv, TypeOK
<1>14. TypeOK'
  BY <1>3, <1>7, <1>10, <1>13 DEF Return, IInv, TypeOK
<1>15. QED
  BY <1>7, <1>8, <1>11, <1>12, <1>14 DEF IInv

\* What is written behind the context touches no frame inside it.
LEMMA ForeignPreserves == IInv /\ Foreign => IInv'
<1> SUFFICES ASSUME IInv, Foreign PROVE IInv'
  OBVIOUS
<1>1. PICK d \in (Limit + 1)..(MaxCalls - 1) : frames' = [frames EXCEPT ![d] = [lr |-> None, traced |-> FALSE]]
  BY DEF Foreign
<1>2. /\ d \in 0..(MaxCalls - 1) /\ d > Limit /\ [lr |-> None, traced |-> FALSE] \in Frame
      /\ frames \in [0..(MaxCalls - 1) -> Frame] /\ Len(calls) \in Nat /\ Len(calls) <= MaxCalls
  BY WidthAssumption DEF Frame, IInv, TypeOK
<1>3. frames' \in [0..(MaxCalls - 1) -> Frame]
  BY <1>1, <1>2
<1>4. UNCHANGED <<calls, stack_depth, trace_depth, sel_cache, capture_arguments, drifted, astray>> /\ event' = None
  BY DEF Foreign
<1>5. TypeOK'
  BY <1>3, <1>4 DEF IInv, TypeOK
<1>6. ReturnsHome'
  <2>1. ASSUME NEW j \in 1..Len(calls), j <= Limit + 1 PROVE frames'[j - 1].lr = calls[j].lr
    <3>1. frames[j - 1].lr = calls[j].lr
      BY <2>1 DEF IInv, ReturnsHome
    <3>2. j - 1 \in 0..(MaxCalls - 1) /\ j - 1 # d
      BY <1>2, <2>1, WidthAssumption
    <3>3. QED
      BY <1>1, <1>2, <3>1, <3>2
  <2>2. QED
    BY <1>4, <2>1 DEF IInv, ReturnsHome
<1>7. CacheNamed' /\ PendingTraced' /\ TraceDepthBounded' /\ DriftExplained'
  BY <1>4 DEF IInv, CacheNamed, PendingTraced, TraceDepthBounded, DriftExplained, Reported
<1>8. QED
  BY <1>5, <1>6, <1>7 DEF IInv

\* A step that changes nothing keeps the invariant.
LEMMA StutterPreserves == IInv /\ UNCHANGED vars => IInv'
BY DEF IInv, vars, TypeOK, CacheNamed, PendingTraced, ReturnsHome, TraceDepthBounded,
       DriftExplained, Reported

\* The invariant holds in a fresh context, whatever malloc left in it.
LEMMA InitEstablishes == Init => IInv
<1> SUFFICES ASSUME Init PROVE IInv
  OBVIOUS
<1> USE WidthAssumption DEF Init
<1>1. TypeOK
  <2>1. calls \in Seq(Call) /\ Len(calls) = 0
    OBVIOUS
  <2>2. sel_cache \in [sel: Selectors \cup {None}, name: Selectors \cup {None, Wild}]
    OBVIOUS
  <2>3. frames \in [0..(MaxCalls - 1) -> Frame]
    BY DEF Frame
  <2>4. stack_depth \in 0..(Width - 1) /\ trace_depth \in 0..MaxCalls
    OBVIOUS
  <2>5. Len(calls) <= MaxCalls
    BY <2>1
  <2>6. capture_arguments \in BOOLEAN /\ event \in Event \cup {None} /\ drifted \in BOOLEAN /\ astray \in BOOLEAN
    BY Zenon
  <2>7. QED
    BY <2>1, <2>2, <2>3, <2>4, <2>5, <2>6, Zenon DEF TypeOK
<1>2. CacheNamed /\ PendingTraced /\ ReturnsHome
  BY SelectorsAssumption DEF CacheNamed, PendingTraced, ReturnsHome
<1>3. Reported = {} /\ Cardinality({}) = 0
  BY FS_EmptySet DEF Reported
<1>4. QED
  BY <1>1, <1>2, <1>3 DEF IInv, TraceDepthBounded, DriftExplained

(* The invariant every result below rests on.                              *)
THEOREM Invariance == Spec => []IInv
<1>1. IInv /\ [Next]_vars => IInv'
  BY SendPreserves, CapturedPreserves, ReturnPreserves, ForeignPreserves, StutterPreserves DEF Next
<1>2. QED
  BY <1>1, InitEstablishes, PTL DEF Spec

(* Every variable of the hook keeps to its type.                           *)
THEOREM HookTypeCorrect == Spec => []TypeOK
<1>1. IInv => TypeOK
  BY DEF IInv
<1>2. QED
  BY <1>1, Invariance, PTL

(* A message that at most Limit others enclose returns to its own caller,  *)
(* whatever was denied, filtered or sent from inside the hook, and         *)
(* whatever is written behind the context meanwhile.                       *)
THEOREM EveryCallReturns == Spec => []ReturnsHome
<1>1. IInv => ReturnsHome
  BY DEF IInv
<1>2. QED
  BY <1>1, Invariance, PTL

(* trace_depth is at most the number of reported messages on the stack.    *)
THEOREM IndentBounded == Spec => []TraceDepthBounded
<1>1. IInv => TraceDepthBounded
  BY DEF IInv
<1>2. QED
  BY <1>1, Invariance, PTL

(* It differs from that number only after the return of an untraced        *)
(* message below a traced one.                                             *)
THEOREM IndentExact == Spec => []DriftExplained
<1>1. IInv => DriftExplained
  BY DEF IInv
<1>2. QED
  BY <1>1, Invariance, PTL

(* A true selector cache is spoilt only by a message sent with all the     *)
(* frames in use.                                                          *)
THEOREM CacheStaysTrue == Spec => CacheSpoiltOnlyPastLimit
<1>1. IInv /\ [Next]_vars => [CacheTrue => CacheTrue' \/ Len(calls') > Limit]_vars
  <2> SUFFICES ASSUME IInv, CacheTrue, Next PROVE CacheTrue' \/ Len(calls') > Limit
    OBVIOUS
  <2>1. ASSUME NEW lr \in Callers, NEW sel \in Selectors, NEW valid \in BOOLEAN,
               Untraced(lr, sel, valid)
        PROVE  CacheTrue' \/ Len(calls') > Limit
    <3>1. Push(lr, FALSE, None)
      BY <2>1 DEF Untraced
    <3>2. CASE Overwrites
      <4>1. Len(calls') = Len(calls) + 1 /\ Len(calls) \in Nat
        <5>1. calls' = Append(calls, [lr |-> lr, traced |-> FALSE, pending |-> None])
          BY <3>1 DEF Push
        <5>2. calls \in Seq(Call)
          BY DEF IInv, TypeOK
        <5>3. [lr |-> lr, traced |-> FALSE, pending |-> None] \in Call
          BY DEF Call
        <5>4. QED
          BY <5>1, <5>2, <5>3
      <4>2. Deeper = Len(calls)
        BY <3>1, <4>1, WidthAssumption DEF IInv, ReturnsHome, TypeOK, Deeper, Push
      <4>3. Len(calls) = Limit
        BY <3>2, <4>2 DEF Overwrites
      <4>4. QED
        BY <4>1, <4>3
    <3>3. CASE ~ Overwrites
      BY <2>1, <3>3 DEF Untraced, AfterArray, CacheTrue
    <3>4. QED
      BY <3>2, <3>3
  <2>2. ASSUME NEW sel \in Selectors, sel_cache' = Cached(sel) PROVE CacheTrue'
    BY <2>2 DEF CacheTrue, Cached, Name
  <2>3. CASE \E lr \in Callers, sel \in Selectors : Send(lr, sel)
    BY <2>1, <2>2, <2>3 DEF Send, FilteredOut, Traced, Capture, Accepted
  <2>4. CASE Captured \/ Return \/ Foreign
    BY <2>4 DEF Captured, Return, Foreign, CacheTrue
  <2>5. QED
    BY <2>3, <2>4 DEF Next
<1>2. QED
  BY <1>1, Invariance, PTL DEF Spec, CacheSpoiltOnlyPastLimit
=============================================================================
