------------------------------- MODULE Filters -------------------------------
(***************************************************************************)
(* Which messages are traced: tracer_should_trace of tracer_core.c, and    *)
(* the functions of tracer.c that add filters.  A scan holds filter_lock   *)
(* for reading; tracer_add_filter takes it for writing, the others add     *)
(* their filter without it, one store at a time.                           *)
(***************************************************************************)
EXTENDS Naturals

CONSTANTS
  Threads,         \* the program's threads, inside the hook
  MaxFilters,      \* TRACER_MAX_FILTERS, 32 in the code
  Classes, Methods, Images,
  ClassPatterns, MethodPatterns, ImagePatterns,  \* a pattern: the names it matches
  Structs,         \* the filters a program hands to tracer_add_filter
  Null             \* NULL: no pattern, or a class that is in no image

Message == [class : Classes, method : Methods, image : Images \cup {Null}]

\* tracer_filter_t; a custom filter is the set of the messages it accepts.
Filter == [class : {Null} \cup SUBSET Classes, method : {Null} \cup SUBSET Methods,
           image : {Null} \cup SUBSET Images, custom : {Null} \cup SUBSET Message,
           exclude : BOOLEAN]

ASSUME FiltersAssumption ==
  /\ MaxFilters \in Nat \ {0}
  /\ ClassPatterns \subseteq SUBSET Classes /\ MethodPatterns \subseteq SUBSET Methods
  /\ ImagePatterns \subseteq SUBSET Images
  /\ Structs \subseteq Filter
  /\ Null \notin Classes \cup Methods \cup Images
  /\ \A S \in {Classes, Methods, Images} : \A p \in SUBSET S : p # Null

Slots == 1..MaxFilters
Patterns == {"class", "method", "image"}
Fields == Patterns \cup {"custom", "exclude"}

\* A slot as calloc leaves it.
Blank == [class |-> Null, method |-> Null, image |-> Null, custom |-> Null, exclude |-> FALSE]

VARIABLES
  started,  \* tracer_start has installed the hook
  added,    \* filter_count as the adding thread sees it
  asked,    \* the filters it has added
  count,    \* filter_count as the scanning threads see it
  slots,    \* config.filters as they see it
  pending,  \* stores of the adding thread that they do not see yet
  at,       \* each thread: its pass, the index, the message, should_trace
  verdict,  \* each thread: its last message, whether traced, and the filter that refused it
  seen,     \* history: what the list said of the message at the moments of the scan
  during,   \* history: the filters that were being added during the scan
  firm      \* history: the filters that were in place when the scan began

progVars == <<started, added, asked>>
memVars == <<count, slots, pending>>
scanVars == <<at, verdict, seen, during, firm>>
vars == <<progVars, memVars, scanVars>>

\* The first pass: any pattern of an excluding filter that matches excludes.
Excludes(f, m) == \E p \in Patterns : f[p] # Null /\ m[p] \in f[p]

\* The second pass: all patterns of an including filter must match, unless it
\* is a custom one.
Accepts(f, m) ==
  IF f.custom # Null THEN m \in f.custom
  ELSE \A p \in Patterns : f[p] # Null => m[p] \in f[p]

\* What the list of the first n filters in s says of a message.
Traced(m, n, s) ==
  /\ \A i \in 1..n : s[i].exclude => ~ Excludes(s[i], m)
  /\ \E i \in 1..n : ~ s[i].exclude /\ Accepts(s[i], m)

Init ==
  /\ started = FALSE /\ added = 0 /\ count = 0 /\ pending = {}
  /\ asked = [i \in Slots |-> Blank] /\ slots = [i \in Slots |-> Blank]
  /\ at = [t \in Threads |-> [pass |-> "out"]]
  /\ verdict = [t \in Threads |-> [pass |-> "none"]]
  /\ seen = [t \in Threads |-> {}]
  /\ during = [t \in Threads |-> {}] /\ firm = [t \in Threads |-> {}]

Scanning == {t \in Threads : at[t].pass # "out"}
BeingAdded == {w.slot : w \in pending}

\* What scans remember of a step that changes what they read.
Remember ==
  /\ seen' = [t \in Threads |-> IF t \in Scanning
                                THEN seen[t] \cup {Traced(at[t].msg, count', slots')}
                                ELSE seen[t]]
  /\ during' = [t \in Threads |-> IF t \in Scanning
                                  THEN during[t] \cup BeingAdded'
                                  ELSE during[t]]
  /\ UNCHANGED <<at, verdict, firm>>

-----------------------------------------------------------------------------
(* The adding thread *)

\* Mutant: one more filter than there is room for.
Unlocked_OneMore(f) ==
  /\ added <= MaxFilters
  /\ added' = added + 1
  /\ asked' = [asked EXCEPT ![added + 1] = f]
  /\ pending' = pending \cup
       {[slot |-> added + 1, field |-> d] :
          d \in {"count"} \cup {p \in Fields : f[p] # Blank[p]}}
  /\ UNCHANGED <<started, count, slots>>
  /\ Remember

\* A filter is counted, then filled, without the lock: the stores go out, and
\* become visible in any order.
Unlocked(f) ==
  /\ added < MaxFilters
  /\ added' = added + 1
  /\ asked' = [asked EXCEPT ![added + 1] = f]
  /\ pending' = pending \cup
       {[slot |-> added + 1, field |-> d] :
          d \in {"count"} \cup {p \in Fields : f[p] # Blank[p]}}
  /\ UNCHANGED <<started, count, slots>>
  /\ Remember

\* add_filter_pattern, for tracer_include_pattern and its seven companions; those
\* of classes pass "*", that is all methods, for the other pattern.
AddPattern(c, m, x) ==
  Unlocked([Blank EXCEPT !.class = c, !.method = m, !.exclude = x])

\* tracer_include_image
IncludeImage(p) == Unlocked([Blank EXCEPT !.image = p])

\* One of the stores becomes visible; those to filter_count do so in order.
\* Before the start there is nobody to see them.
Appears(w) ==
  /\ started /\ w \in pending
  /\ pending' = pending \ {w}
  /\ \/ /\ w.field = "count"
        /\ \A v \in pending : v.field = "count" => v.slot >= w.slot
        /\ count' = w.slot /\ UNCHANGED slots
     \/ /\ w.field # "count"
        /\ slots' = [slots EXCEPT ![w.slot][w.field] = asked[w.slot][w.field]]
        /\ UNCHANGED count
  /\ UNCHANGED progVars
  /\ Remember

\* Mutant: the lock is taken for reading, so scans go on meanwhile.
AddFilter_ReadLock(f) ==
  /\ added < MaxFilters
  /\ added' = added + 1
  /\ asked' = [asked EXCEPT ![added + 1] = f]
  /\ slots' = asked' /\ count' = added' /\ pending' = {}
  /\ UNCHANGED started
  /\ Remember

\* tracer_add_filter: no scan is under way, and what was stored before the
\* unlock is visible to whoever locks after it.
AddFilter(f) ==
  /\ added < MaxFilters /\ Scanning = {}
  /\ added' = added + 1
  /\ asked' = [asked EXCEPT ![added + 1] = f]
  /\ slots' = asked' /\ count' = added' /\ pending' = {}
  /\ UNCHANGED started
  /\ Remember

All == [Blank EXCEPT !.class = Classes, !.method = Methods]

\* tracer_start: a tracer without a filter traces everything.
Start ==
  /\ ~ started /\ started' = TRUE
  /\ IF added = 0
     THEN added' = 1 /\ asked' = [asked EXCEPT ![1] = All]
     ELSE UNCHANGED <<added, asked>>
  /\ slots' = asked' /\ count' = added' /\ pending' = {}
  /\ Remember

-----------------------------------------------------------------------------
(* tracer_should_trace on thread t.  An iteration reads its filter in one
   step: whichever order the fields are read in while they appear, what it
   does is what it would do at one of those moments (see the README). *)

Goto(t, pass, i, trace) ==
  /\ at' = [at EXCEPT ![t] = [pass |-> pass, i |-> i, msg |-> @.msg, trace |-> trace]]
  /\ UNCHANGED <<progVars, memVars, verdict, seen, during, firm>>

Answer(t, trace, by) ==
  /\ at' = [at EXCEPT ![t] = [pass |-> "out"]]
  /\ verdict' = [verdict EXCEPT ![t] =
                   [pass |-> at[t].pass, msg |-> at[t].msg, trace |-> trace, by |-> by]]
  /\ UNCHANGED <<progVars, memVars, seen, during, firm>>

Ask(t, m) ==
  /\ started /\ at[t].pass = "out"
  /\ at' = [at EXCEPT ![t] = [pass |-> "exclude", i |-> 1, msg |-> m, trace |-> FALSE]]
  /\ seen' = [seen EXCEPT ![t] = {Traced(m, count, slots)}]
  /\ during' = [during EXCEPT ![t] = BeingAdded]
  /\ firm' = [firm EXCEPT ![t] = (1..count) \ BeingAdded]
  /\ verdict' = [verdict EXCEPT ![t] = [pass |-> "none"]]
  /\ UNCHANGED <<progVars, memVars>>

Current(t) == slots[at[t].i]

\* The first pass considers the excluding filters only.
PassOver(t) ==
  /\ at[t].pass = "exclude" /\ at[t].i <= count
  /\ Current(t).exclude => ~ Excludes(Current(t), at[t].msg)
  /\ Goto(t, "exclude", at[t].i + 1, FALSE)

Refuse(t) ==
  /\ at[t].pass = "exclude" /\ at[t].i <= count
  /\ Current(t).exclude /\ Excludes(Current(t), at[t].msg)
  /\ Answer(t, FALSE, at[t].i)

\* Mutant: the second pass begins where the first one ended.
Turn_NoReset(t) ==
  /\ at[t].pass = "exclude" /\ at[t].i > count
  /\ Goto(t, "include", at[t].i, FALSE)

Turn(t) ==
  /\ at[t].pass = "exclude" /\ at[t].i > count
  /\ Goto(t, "include", 1, FALSE)

\* The second pass skips them; the verdict of an including filter is kept.
Skip(t) ==
  /\ at[t].pass = "include" /\ at[t].i <= count /\ Current(t).exclude
  /\ Goto(t, "include", at[t].i + 1, at[t].trace)

Consider(t) ==
  /\ at[t].pass = "include" /\ at[t].i <= count /\ ~ Current(t).exclude /\ ~ at[t].trace
  /\ Goto(t, "include", at[t].i + 1, Accepts(Current(t), at[t].msg))

\* The second pass ends with the list, or at the next including filter once
\* one has accepted.
Finish(t) ==
  /\ at[t].pass = "include"
  /\ at[t].i <= count => ~ Current(t).exclude /\ at[t].trace
  /\ Answer(t, at[t].trace, 0)

-----------------------------------------------------------------------------
Program ==
  \/ \E c \in ClassPatterns, m \in MethodPatterns, x \in BOOLEAN : AddPattern(c, m, x)
  \/ \E p \in ImagePatterns : IncludeImage(p)
  \/ \E f \in Structs : AddFilter(f)
  \/ \E w \in pending : Appears(w)
  \/ Start

Scan(t) ==
  \/ \E m \in Message : Ask(t, m)
  \/ PassOver(t) \/ Refuse(t) \/ Turn(t) \/ Skip(t) \/ Consider(t) \/ Finish(t)

Next == Program \/ \E t \in Threads : Scan(t)

Spec == Init /\ [][Next]_vars
=============================================================================
