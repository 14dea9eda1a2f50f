---------------------------- MODULE FiltersProofs ----------------------------
(***************************************************************************)
(* Theorems about Filters, for any threads, names, patterns and number of  *)
(* filters.                                                                *)
(***************************************************************************)
EXTENDS FiltersProps, TLAPS

MemTypeOK ==
  /\ started \in BOOLEAN
  /\ added \in 0..MaxFilters /\ count \in 0..added
  /\ asked \in [Slots -> Filter] /\ slots \in [Slots -> Filter]
  /\ pending \subseteq [slot : 1..added, field : {"count"} \cup Fields]

Ended == [pass : {"exclude", "include"}, msg : Message, trace : BOOLEAN, by : 0..MaxFilters]

ScanTypeOK ==
  /\ at \in [Threads -> [pass : {"out"}] \cup ScanState]
  /\ verdict \in [Threads -> [pass : {"none"}] \cup Ended]
  /\ seen \in [Threads -> SUBSET BOOLEAN]
  /\ during \in [Threads -> SUBSET Slots] /\ firm \in [Threads -> SUBSET Slots]

\* What the scanning threads do not see yet is on its way.
Mem ==
  /\ \A i \in Slots, d \in Fields :
       \/ slots[i][d] = asked[i][d]
       \/ [slot |-> i, field |-> d] \in pending /\ slots[i][d] = Blank[d]
  /\ \A i \in 1..added : i > count => [slot |-> i, field |-> "count"] \in pending
  /\ \A w \in pending : w.field = "count" => w.slot > count
  /\ \A i \in Slots : i > added => asked[i] = Blank

Refuses(f, m) == f.exclude /\ Excludes(f, m)
Admits(f, m) == ~ f.exclude /\ Accepts(f, m)

Alone(D) == \A j, k \in D : j = k

\* Every filter was in place at the call or is one of those being added since.
Sorted(t) ==
  /\ started
  /\ at[t].i <= count + 1
  /\ BeingAdded \subseteq during[t]
  /\ firm[t] \cap during[t] = {}
  /\ firm[t] \subseteq 1..count
  /\ 1..added \subseteq firm[t] \cup during[t]

\* What the passes have found among the filters in place.
Found(t) ==
  /\ \A j \in firm[t] : j < at[t].i \/ at[t].pass = "include" => ~ Refuses(asked[j], at[t].msg)
  /\ at[t].pass = "include" /\ ~ at[t].trace =>
       \A j \in firm[t] : j < at[t].i => ~ Admits(asked[j], at[t].msg)

Passed(t) == \E k \in during[t] : k < at[t].i
Yes(t) == /\ \A j \in firm[t] : ~ Refuses(asked[j], at[t].msg)
          /\ \E j \in firm[t] : Admits(asked[j], at[t].msg)
No(t) == \A j \in firm[t] : ~ Admits(asked[j], at[t].msg)

\* What the list has said since the call.  If one filter alone was being added,
\* the moment at which a pass went by it, or came to its end without meeting it,
\* is the moment the verdict may be of.
Moments(t) ==
  /\ Traced(at[t].msg, count, slots) \in seen[t]
  /\ Alone(during[t]) =>
       /\ Yes(t) /\ (at[t].pass = "include" \/ Passed(t)) => TRUE \in seen[t]
       /\ at[t].pass = "include" /\ at[t].trace => TRUE \in seen[t]
       /\ at[t].pass = "include" /\ ~ at[t].trace /\ No(t) /\ Passed(t) => FALSE \in seen[t]

ScanInv(t) == at[t].pass # "out" => Sorted(t) /\ Found(t) /\ Moments(t)

Decided(t) ==
  IF verdict[t].trace
  THEN \A i \in firm[t] : ~ Refuses(asked[i], verdict[t].msg)
  ELSE \/ \A i \in firm[t] : ~ Admits(asked[i], verdict[t].msg)
       \/ \E i \in 1..added : Refuses(asked[i], verdict[t].msg)

AnswerInv(t) == Answered(t) =>
  /\ firm[t] \subseteq 1..added
  /\ Alone(during[t]) => verdict[t].trace \in seen[t]
  /\ Decided(t)

IInv == MemTypeOK /\ ScanTypeOK /\ Mem /\ \A t \in Threads : ScanInv(t) /\ AnswerInv(t)

-----------------------------------------------------------------------------
(* Memory *)

\* TypeOK in two parts: the memory and the scans.
LEMMA Types == TypeOK <=> MemTypeOK /\ ScanTypeOK
BY DEF TypeOK, MemTypeOK, ScanTypeOK, Ended

\* A slot with nothing on its way is counted, and is what was asked for.
LEMMA InPlace ==
  ASSUME MemTypeOK, Mem, NEW i \in 1..added, i \notin BeingAdded
  PROVE  i \in 1..count /\ slots[i] = asked[i]
<1>1. i \in Slots /\ slots[i] \in Filter /\ asked[i] \in Filter
  BY FiltersAssumption DEF MemTypeOK, Slots
<1>2. \A d \in Fields \cup {"count"} : [slot |-> i, field |-> d] \notin pending
  <2>1. SUFFICES ASSUME NEW d, [slot |-> i, field |-> d] \in pending PROVE FALSE
    OBVIOUS
  <2> DEFINE w == [slot |-> i, field |-> d]
  <2>2. w.slot = i /\ w \in pending
    BY <2>1
  <2> QED BY <2>2 DEF BeingAdded
<1>3. i \in 1..count
  <2>1. [slot |-> i, field |-> "count"] \notin pending
    BY <1>2
  <2>2. ~ (i > count)
    BY <2>1 DEF Mem
  <2> QED BY <2>2, FiltersAssumption DEF MemTypeOK
<1>4. \A d \in Fields : slots[i][d] = asked[i][d]
  BY <1>1, <1>2 DEF Mem
<1>5. /\ slots[i].class = asked[i].class /\ slots[i].method = asked[i].method
      /\ slots[i].image = asked[i].image /\ slots[i].custom = asked[i].custom
      /\ slots[i].exclude = asked[i].exclude
  BY <1>4 DEF Fields, Patterns
<1>6. slots[i] = asked[i]
  BY <1>1, <1>5 DEF Filter
<1> QED BY <1>3, <1>6

\* A filter that is seen to refuse was asked to: what is missing of it is not
\* what refuses.
LEMMA SeenRefuses ==
  ASSUME MemTypeOK, Mem, NEW i \in 1..count, NEW m, Refuses(slots[i], m)
  PROVE  i \in 1..added /\ Refuses(asked[i], m)
<1>1. i \in 1..added /\ i \in Slots
  BY FiltersAssumption DEF MemTypeOK, Slots
<1>2. slots[i].exclude = asked[i].exclude
  <2>1. "exclude" \in Fields /\ Blank["exclude"] = FALSE
    BY DEF Fields, Blank
  <2>2. slots[i]["exclude"] = asked[i]["exclude"] \/ slots[i]["exclude"] = FALSE
    BY <1>1, <2>1 DEF Mem
  <2>3. slots[i]["exclude"]
    BY DEF Refuses
  <2> QED BY <2>2, <2>3
<1>3. \A p \in Patterns : slots[i][p] = asked[i][p] \/ slots[i][p] = Null
  <2>1. \A p \in Patterns : p \in Fields /\ Blank[p] = Null
    BY DEF Fields, Patterns, Blank
  <2> QED BY <1>1, <2>1 DEF Mem
<1>4. Excludes(asked[i], m)
  BY <1>3 DEF Refuses, Excludes
<1> QED BY <1>1, <1>2, <1>4 DEF Refuses

\* What the steps of the adding thread have in common.
Grows ==
  /\ started => started'
  /\ added <= added' /\ count <= count'
  /\ \A i \in 1..added : asked'[i] = asked[i]
  /\ \A k \in BeingAdded' : k \in BeingAdded \/ k > added
  /\ Scanning # {} => \A k \in 1..added' : k > added => k \in BeingAdded'

\* A filter is added without the lock.
LEMMA UnlockedMem ==
  ASSUME MemTypeOK, Mem, NEW f \in Filter, Unlocked(f)
  PROVE  MemTypeOK' /\ Mem' /\ Grows
<1> USE FiltersAssumption
<1> DEFINE k == added + 1
           out == {[slot |-> k, field |-> d] : d \in {"count"} \cup {p \in Fields : f[p] # Blank[p]}}
<1>1. /\ k \in Slots /\ added' = k /\ k \in Nat /\ added \in Nat
      /\ asked' = [asked EXCEPT ![k] = f]
      /\ pending' = pending \cup out
      /\ UNCHANGED <<started, count, slots>>
  BY DEF Unlocked, MemTypeOK, Slots
<1>2. MemTypeOK'
  <2>1. asked' \in [Slots -> Filter]
    BY <1>1 DEF MemTypeOK
  <2>2. count' \in 0..added' /\ added' \in 0..MaxFilters
    BY <1>1 DEF MemTypeOK, Slots
  <2>3. out \subseteq [slot : 1..added', field : {"count"} \cup Fields]
    BY <1>1
  <2>4. pending \subseteq [slot : 1..added', field : {"count"} \cup Fields]
    BY <1>1 DEF MemTypeOK
  <2> QED BY <1>1, <2>1, <2>2, <2>3, <2>4 DEF MemTypeOK
<1>3. \A i \in Slots : i # k => asked'[i] = asked[i]
  BY <1>1 DEF MemTypeOK
<1>4. asked'[k] = f
  BY <1>1 DEF MemTypeOK
<1>5. Mem'
  <2>1. ASSUME NEW i \in Slots, NEW d \in Fields
        PROVE  \/ slots'[i][d] = asked'[i][d]
               \/ [slot |-> i, field |-> d] \in pending' /\ slots'[i][d] = Blank[d]
    <3>1. CASE i # k
      BY <1>1, <1>3, <3>1 DEF Mem
    <3>2. CASE i = k
      <4>1. asked[k] = Blank
        BY <1>1 DEF Mem
      <4>2. slots[k][d] = Blank[d]
        BY <1>1, <4>1 DEF Mem
      <4>3. f[d] # Blank[d] => [slot |-> k, field |-> d] \in out
        BY DEF Fields, Patterns
      <4> QED BY <1>1, <1>4, <3>2, <4>2, <4>3
    <3> QED BY <3>1, <3>2
  <2>2. \A i \in 1..added' : i > count' => [slot |-> i, field |-> "count"] \in pending'
    <3>1. [slot |-> k, field |-> "count"] \in pending'
      BY <1>1
    <3>2. \A i \in 1..k : i = k \/ i \in 1..added
      BY <1>1
    <3> QED BY <1>1, <3>1, <3>2 DEF Mem
  <2>3. \A w \in pending' : w.field = "count" => w.slot > count'
    BY <1>1 DEF Mem, MemTypeOK
  <2>4. \A i \in Slots : i > added' => asked'[i] = Blank
    BY <1>1, <1>3 DEF Mem, Slots
  <2> QED BY <2>1, <2>2, <2>3, <2>4 DEF Mem
<1>6. Grows
  <2>1. \A j : j \in BeingAdded' <=> j \in BeingAdded \/ j = k
    <3>1. \A w \in out : w.slot = k
      OBVIOUS
    <3>2. [slot |-> k, field |-> "count"] \in out /\ [slot |-> k, field |-> "count"].slot = k
      OBVIOUS
    <3> HIDE DEF out
    <3> QED BY <1>1, <3>1, <3>2 DEF BeingAdded
  <2>2. \A i \in 1..added : i \in Slots /\ i # k
    BY <1>1 DEF Slots
  <2>3. \A i \in 1..added' : i > added => i = k
    BY <1>1
  <2> QED BY <1>1, <1>3, <2>1, <2>2, <2>3 DEF Grows, MemTypeOK
<1> QED BY <1>2, <1>5, <1>6

\* One of its stores becomes visible.
LEMMA AppearsMem ==
  ASSUME MemTypeOK, Mem, NEW w \in pending, Appears(w)
  PROVE  MemTypeOK' /\ Mem' /\ Grows
<1> USE FiltersAssumption
<1>1. /\ pending' = pending \ {w} /\ UNCHANGED <<started, added, asked>>
      /\ w \in [slot : 1..added, field : {"count"} \cup Fields]
  BY DEF Appears, progVars, MemTypeOK
<1>2. w = [slot |-> w.slot, field |-> w.field] /\ w.slot \in 1..added /\ w.slot \in Slots
  BY <1>1 DEF MemTypeOK, Slots
<1>3. BeingAdded' \subseteq BeingAdded
  BY <1>1 DEF BeingAdded
<1>4. CASE w.field = "count" /\ count' = w.slot /\ UNCHANGED slots
           /\ \A v \in pending : v.field = "count" => v.slot >= w.slot
  <2>1. w.slot > count
    BY <1>4 DEF Mem
  <2>2. MemTypeOK'
    BY <1>1, <1>2, <1>4 DEF MemTypeOK
  <2>3. \A i \in Slots, d \in Fields :
          \/ slots'[i][d] = asked'[i][d]
          \/ [slot |-> i, field |-> d] \in pending' /\ slots'[i][d] = Blank[d]
    <3>1. \A i \in Slots, d \in Fields : [slot |-> i, field |-> d] # w
      <4>1. \A d \in Fields : d # "count"
        BY DEF Fields, Patterns
      <4>2. \A i, d : [slot |-> i, field |-> d].field = d
        OBVIOUS
      <4> QED BY <1>4, <4>1, <4>2
    <3> QED BY <1>1, <1>4, <3>1 DEF Mem
  <2>4. \A i \in 1..added' : i > count' => [slot |-> i, field |-> "count"] \in pending'
    <3>1. SUFFICES ASSUME NEW i \in 1..added, i > w.slot
                   PROVE  [slot |-> i, field |-> "count"] \in pending \ {w}
      BY <1>1, <1>4
    <3>2. i > count
      BY <2>1, <1>2, <3>1 DEF MemTypeOK
    <3>3. [slot |-> i, field |-> "count"] \in pending
      BY <3>2 DEF Mem
    <3>4. [slot |-> i, field |-> "count"].slot # w.slot
      BY <1>2, <3>1
    <3> QED BY <3>3, <3>4
  <2>5. \A v \in pending' : v.field = "count" => v.slot > count'
    <3>1. SUFFICES ASSUME NEW v \in pending, v # w, v.field = "count" PROVE v.slot > w.slot
      BY <1>1, <1>4
    <3>2. v = [slot |-> v.slot, field |-> "count"] /\ v.slot \in 1..added
      BY <3>1 DEF MemTypeOK
    <3>3. v.slot # w.slot
      BY <1>2, <1>4, <3>1, <3>2
    <3>4. v.slot >= w.slot
      BY <1>4, <3>1
    <3> QED BY <1>2, <3>2, <3>3, <3>4 DEF MemTypeOK
  <2>6. \A i \in Slots : i > added' => asked'[i] = Blank
    BY <1>1 DEF Mem
  <2>7. Grows
    BY <1>1, <1>2, <1>3, <1>4, <2>1 DEF Grows, MemTypeOK
  <2> QED BY <2>2, <2>3, <2>4, <2>5, <2>6, <2>7 DEF Mem
<1>5. CASE /\ w.field # "count" /\ UNCHANGED count
           /\ slots' = [slots EXCEPT ![w.slot][w.field] = asked[w.slot][w.field]]
  <2>1. w.field \in Fields
    BY <1>1, <1>5
  <2>2. slots' \in [Slots -> Filter]
    <3>1. slots[w.slot] \in Filter /\ asked[w.slot] \in Filter
      BY <1>2 DEF MemTypeOK
    <3>2. [slots[w.slot] EXCEPT ![w.field] = asked[w.slot][w.field]] \in Filter
      <4>1. CASE w.field = "class" BY <3>1, <4>1 DEF Filter
      <4>2. CASE w.field = "method" BY <3>1, <4>2 DEF Filter
      <4>3. CASE w.field = "image" BY <3>1, <4>3 DEF Filter
      <4>4. CASE w.field = "custom" BY <3>1, <4>4 DEF Filter
      <4>5. CASE w.field = "exclude" BY <3>1, <4>5 DEF Filter
      <4> QED BY <2>1, <4>1, <4>2, <4>3, <4>4, <4>5 DEF Fields, Patterns
    <3>3. slots' = [slots EXCEPT ![w.slot] =
                      [slots[w.slot] EXCEPT ![w.field] = asked[w.slot][w.field]]]
      BY <1>5
    <3> QED BY <1>2, <3>2, <3>3 DEF MemTypeOK
  <2>3. MemTypeOK'
    BY <1>1, <1>5, <2>2 DEF MemTypeOK
  <2>4. \A i \in Slots, d \in Fields :
          \/ slots'[i][d] = asked'[i][d]
          \/ [slot |-> i, field |-> d] \in pending' /\ slots'[i][d] = Blank[d]
    <3>1. SUFFICES ASSUME NEW i \in Slots, NEW d \in Fields
                   PROVE  \/ slots'[i][d] = asked[i][d]
                          \/ [slot |-> i, field |-> d] \in pending \ {w} /\ slots'[i][d] = Blank[d]
      BY <1>1
    <3>2. CASE i = w.slot /\ d = w.field
      <4>1. DOMAIN slots[i] = Fields
        BY DEF MemTypeOK, Filter, Fields, Patterns
      <4>2. slots'[i][d] = asked[i][d]
        BY <1>5, <3>2, <4>1 DEF MemTypeOK
      <4> QED BY <4>2
    <3>3. CASE i # w.slot \/ d # w.field
      <4>1. slots'[i][d] = slots[i][d]
        <5>1. DOMAIN slots[i] = Fields
          BY DEF MemTypeOK, Filter, Fields, Patterns
        <5> QED BY <1>5, <3>3, <5>1 DEF MemTypeOK
      <4>2. [slot |-> i, field |-> d] # w
        <5>1. [slot |-> i, field |-> d].slot = i /\ [slot |-> i, field |-> d].field = d
          OBVIOUS
        <5> QED BY <3>3, <5>1
      <4> QED BY <4>1, <4>2 DEF Mem
    <3> QED BY <3>2, <3>3
  <2>5. \A i \in 1..added' : i > count' => [slot |-> i, field |-> "count"] \in pending'
    <3>1. \A i : [slot |-> i, field |-> "count"] # w
      <4>1. \A i : [slot |-> i, field |-> "count"].field = "count"
        OBVIOUS
      <4> QED BY <1>5, <4>1
    <3> QED BY <1>1, <1>5, <3>1 DEF Mem
  <2>6. \A v \in pending' : v.field = "count" => v.slot > count'
    BY <1>1, <1>5 DEF Mem
  <2>7. \A i \in Slots : i > added' => asked'[i] = Blank
    BY <1>1 DEF Mem
  <2>8. Grows
    BY <1>1, <1>3, <1>5 DEF Grows, MemTypeOK
  <2> QED BY <2>3, <2>4, <2>5, <2>6, <2>7, <2>8 DEF Mem
<1> QED BY <1>4, <1>5 DEF Appears

\* With nothing on its way, what was asked for is what is seen.
LEMMA Settled ==
  ASSUME MemTypeOK, Mem, added' \in 0..MaxFilters, asked' \in [Slots -> Filter],
         started' \in BOOLEAN, slots' = asked', count' = added', pending' = {},
         added <= added', \A i \in 1..added : asked'[i] = asked[i],
         \A i \in Slots : i > added' => asked'[i] = Blank,
         started => started', Scanning = {}
  PROVE  MemTypeOK' /\ Mem' /\ Grows
<1> USE FiltersAssumption
<1>1. MemTypeOK'
  BY DEF MemTypeOK
<1>2. Mem'
  BY DEF Mem, MemTypeOK
<1>3. Grows
  BY DEF Grows, MemTypeOK, BeingAdded
<1> QED BY <1>1, <1>2, <1>3

\* A filter is added under the lock.
LEMMA AddFilterMem ==
  ASSUME MemTypeOK, Mem, NEW f \in Filter, AddFilter(f)
  PROVE  MemTypeOK' /\ Mem' /\ Grows
<1> USE FiltersAssumption
<1>1. /\ added \in Nat /\ added' = added + 1 /\ added' \in 0..MaxFilters
      /\ asked' \in [Slots -> Filter]
  BY DEF AddFilter, MemTypeOK, Slots
<1>2. /\ \A i \in 1..added : asked'[i] = asked[i]
      /\ \A i \in Slots : i > added' => asked'[i] = Blank
  BY <1>1 DEF AddFilter, MemTypeOK, Mem, Slots
<1>3. started' \in BOOLEAN /\ (started => started')
  BY Zenon DEF AddFilter, MemTypeOK
<1>4. slots' = asked' /\ count' = added' /\ pending' = {} /\ Scanning = {} /\ added <= added'
  BY <1>1 DEF AddFilter
<1> QED BY <1>1, <1>2, <1>3, <1>4, Settled

\* The start, with a filter for everything if there is none.
LEMMA StartMem ==
  ASSUME MemTypeOK, Mem, Start, Scanning = {}
  PROVE  MemTypeOK' /\ Mem' /\ Grows
<1> USE FiltersAssumption
<1>1. All \in Filter
  BY DEF All, Blank, Filter
<1>2. /\ added' \in 0..MaxFilters /\ asked' \in [Slots -> Filter]
      /\ added <= added' /\ added' \in Nat /\ added \in Nat
  BY <1>1 DEF Start, MemTypeOK, Slots
<1>3. /\ \A i \in 1..added : asked'[i] = asked[i]
      /\ \A i \in Slots : i > added' => asked'[i] = Blank
  BY DEF Start, MemTypeOK, Mem, Slots
<1>4. started' = TRUE /\ slots' = asked' /\ count' = added' /\ pending' = {}
  BY DEF Start
<1> QED BY <1>2, <1>3, <1>4, Settled

-----------------------------------------------------------------------------
(* Scans *)

\* What is said of the memory while thread t scans.
Scan1(t) == /\ MemTypeOK /\ ScanTypeOK /\ Mem /\ t \in Threads
            /\ at[t].pass # "out" /\ Sorted(t)

\* A filter that was in place at the call is still.
LEMMA FirmInPlace ==
  ASSUME NEW t, Scan1(t), NEW j \in firm[t]
  PROVE  j \in 1..count /\ j \in 1..added /\ j \in Slots /\ slots[j] = asked[j]
<1>1. j \in 1..count /\ j \in 1..added /\ j \in Slots /\ j \notin BeingAdded
  BY FiltersAssumption DEF Scan1, Sorted, MemTypeOK, ScanTypeOK, Slots
<1> QED BY <1>1, InPlace DEF Scan1

\* When neither a filter in place nor another one that is counted is seen to
\* refuse, and one is seen to admit, the list says yes.
LEMMA ListSaysYes ==
  ASSUME NEW t, Scan1(t),
         \A j \in firm[t] : ~ Refuses(asked[j], at[t].msg),
         \A k \in during[t] : k \in 1..count => ~ Refuses(slots[k], at[t].msg),
         NEW i \in 1..count, Admits(slots[i], at[t].msg)
  PROVE  Traced(at[t].msg, count, slots) = TRUE
<1>1. \A k \in 1..count : k \in firm[t] \/ k \in during[t]
  BY FiltersAssumption DEF Scan1, Sorted, MemTypeOK
<1>2. \A k \in 1..count : ~ Refuses(slots[k], at[t].msg)
  BY <1>1, FirmInPlace
<1> QED BY <1>2 DEF Traced, Refuses, Admits

\* When none in place admits, nor any other that is counted, it says no.
LEMMA ListSaysNo ==
  ASSUME NEW t, Scan1(t), No(t),
         \A k \in during[t] : k \in 1..count => ~ Admits(slots[k], at[t].msg)
  PROVE  Traced(at[t].msg, count, slots) = FALSE
<1>1. \A i \in 1..count : i \in firm[t] \/ i \in during[t]
  BY FiltersAssumption DEF Scan1, Sorted, MemTypeOK
<1>2. \A i \in 1..count : ~ Admits(slots[i], at[t].msg)
  BY <1>1, FirmInPlace DEF No
<1> QED BY <1>2 DEF Traced, Admits

\* The adding thread's steps keep what is known of the scans.
LEMMA RememberKeeps ==
  ASSUME IInv, MemTypeOK', Mem', Grows, Remember
  PROVE  IInv'
<1> USE FiltersAssumption
<1>1. at' = at /\ verdict' = verdict /\ firm' = firm
  BY DEF Remember
<1>2. \A t \in Threads :
        /\ at[t].pass # "out" =>
             /\ seen'[t] = seen[t] \cup {Traced(at[t].msg, count', slots')}
             /\ during'[t] = during[t] \cup BeingAdded'
        /\ at[t].pass = "out" => seen'[t] = seen[t] /\ during'[t] = during[t]
  BY DEF Remember, Scanning
<1>3. ScanTypeOK'
  <2>2. \A t \in Threads : Traced(at[t].msg, count', slots') \in BOOLEAN
    BY DEF Traced
  <2>3. seen' \in [Threads -> SUBSET BOOLEAN]
    BY <2>2 DEF Remember, IInv, ScanTypeOK
  <2>4. BeingAdded' \subseteq Slots
    BY DEF BeingAdded, MemTypeOK, Slots
  <2>5. during' \in [Threads -> SUBSET Slots]
    BY <2>4 DEF Remember, IInv, ScanTypeOK
  <2> QED BY <1>1, <2>3, <2>5 DEF IInv, ScanTypeOK
<1>4. ASSUME NEW t \in Threads PROVE ScanInv(t)'
  <2>1. SUFFICES ASSUME at[t].pass # "out" PROVE (Sorted(t) /\ Found(t) /\ Moments(t))'
    BY <1>1 DEF ScanInv
  <2>2. Sorted(t) /\ Found(t) /\ Moments(t) /\ Scanning # {}
    BY <2>1 DEF IInv, ScanInv, Scanning
  <2>3. /\ during'[t] = during[t] \cup BeingAdded'
        /\ seen'[t] = seen[t] \cup {Traced(at[t].msg, count', slots')}
    BY <1>2, <2>1
  <2>4. /\ at[t].i \in Nat /\ count \in Nat /\ added \in Nat /\ count <= added
        /\ count' \in Nat /\ added' \in Nat /\ count <= count' /\ added <= added'
        /\ firm[t] \subseteq 1..added /\ during[t] \subseteq Nat
    <3>1. at[t] \in ScanState
      BY <2>1 DEF IInv, ScanTypeOK
    <3> QED BY <2>2, <3>1 DEF IInv, MemTypeOK, ScanTypeOK, ScanState, Slots, Grows, Sorted
  <2>5. \A k \in BeingAdded' : k \in during[t] \/ (k > added /\ k \notin firm[t] /\ ~ (k < at[t].i))
    <3>1. \A k \in BeingAdded' : k \in Nat
      BY DEF BeingAdded, MemTypeOK
    <3> QED BY <2>2, <2>4, <3>1 DEF Grows, Sorted
  <2>6. \A j \in firm[t] : asked'[j] = asked[j]
    BY <2>4 DEF Grows
  <2>7. Sorted(t)'
    <3>1. firm[t] \cap during'[t] = {}
      BY <2>2, <2>3, <2>5 DEF Sorted
    <3>2. firm[t] \subseteq 1..count'
      BY <2>2, <2>4 DEF Sorted
    <3>3. 1..added' \subseteq firm[t] \cup during'[t]
      BY <2>2, <2>3, <2>4 DEF Sorted, Grows
    <3>4. started' /\ at[t].i <= count' + 1
      <4>1. started'
        BY <2>2 DEF Sorted, Grows
      <4> QED BY <2>2, <2>4, <4>1 DEF Sorted
    <3> QED BY <1>1, <2>3, <3>1, <3>2, <3>3, <3>4 DEF Sorted
  <2>8. Found(t)'
    BY <1>1, <2>2, <2>6 DEF Found
  <2>9. Moments(t)'
    <3>1. Alone(during'[t]) => Alone(during[t])
      BY <2>3 DEF Alone
    <3>2. Passed(t)' => Passed(t)
      BY <1>1, <2>3, <2>5 DEF Passed
    <3>3. (Yes(t)' <=> Yes(t)) /\ (No(t)' <=> No(t))
      BY <1>1, <2>6 DEF Yes, No
    <3> HIDE DEF Alone, Passed, Yes, No
    <3> QED BY <1>1, <2>2, <2>3, <3>1, <3>2, <3>3 DEF Moments
  <2> QED BY <2>7, <2>8, <2>9
<1>5. ASSUME NEW t \in Threads PROVE AnswerInv(t)'
  <2>1. SUFFICES ASSUME Answered(t) PROVE
          /\ firm[t] \subseteq 1..added'
          /\ Alone(during[t]) => verdict[t].trace \in seen[t]
          /\ Decided(t)'
    BY <1>1, <1>2 DEF AnswerInv, Answered
  <2>2. firm[t] \subseteq 1..added /\ (Alone(during[t]) => verdict[t].trace \in seen[t]) /\ Decided(t)
    BY <2>1 DEF IInv, AnswerInv
  <2>3. added \in Nat /\ added' \in Nat /\ added <= added'
    BY DEF IInv, MemTypeOK, Grows
  <2>4. firm[t] \subseteq 1..added'
    BY <2>2, <2>3
  <2>5. Decided(t)'
    <3>1. \A i \in 1..added : asked'[i] = asked[i] /\ i \in 1..added'
      BY <2>3 DEF Grows
    <3> QED BY <1>1, <2>2, <3>1 DEF Decided
  <2> QED BY <2>2, <2>4, <2>5
<1> QED BY <1>3, <1>4, <1>5 DEF IInv

\* A step of one scan leaves the memory and the other scans alone.
LEMMA OthersKeep ==
  ASSUME IInv, NEW t \in Threads, UNCHANGED <<progVars, memVars>>, ScanTypeOK',
         \A u \in Threads \ {t} : /\ at'[u] = at[u] /\ verdict'[u] = verdict[u]
                                 /\ seen'[u] = seen[u] /\ during'[u] = during[u]
                                 /\ firm'[u] = firm[u],
         ScanInv(t)', AnswerInv(t)'
  PROVE  IInv'
<1>1. MemTypeOK' /\ Mem' /\ BeingAdded' = BeingAdded
  BY DEF IInv, MemTypeOK, Mem, progVars, memVars, BeingAdded
<1>2. ASSUME NEW u \in Threads, u # t PROVE ScanInv(u)' /\ AnswerInv(u)'
  <2>1. ScanInv(u) /\ AnswerInv(u)
    BY DEF IInv
  <2>2. /\ at'[u] = at[u] /\ verdict'[u] = verdict[u] /\ seen'[u] = seen[u]
        /\ during'[u] = during[u] /\ firm'[u] = firm[u]
    BY <1>2
  <2>3. UNCHANGED <<started, added, asked, count, slots>>
    BY DEF progVars, memVars
  <2>4. Sorted(u) => Sorted(u)'
    BY <1>1, <2>2, <2>3 DEF Sorted
  <2>5. (Found(u) => Found(u)') /\ (Moments(u) => Moments(u)')
    BY <2>2, <2>3 DEF Found, Moments, Passed, Yes, No
  <2>6. ScanInv(u)'
    BY <2>1, <2>2, <2>4, <2>5 DEF ScanInv
  <2>7. AnswerInv(u)'
    BY <2>1, <2>2, <2>3 DEF AnswerInv, Answered, Decided
  <2> QED BY <2>6, <2>7
<1> QED BY <1>1, <1>2 DEF IInv

\* A scan that goes on keeps the invariant if it keeps what it has found.
LEMMA GotoKeeps ==
  ASSUME IInv, NEW t \in Threads, at[t].pass # "out",
         NEW p \in {"exclude", "include"}, NEW i \in 1..(count + 1), NEW b \in BOOLEAN,
         Goto(t, p, i, b), (Found(t) /\ Moments(t))'
  PROVE  IInv'
<1> USE FiltersAssumption
<1>1. at[t] \in ScanState
  BY DEF IInv, ScanTypeOK
<1>2. count \in Nat /\ count <= MaxFilters /\ i \in 1..(MaxFilters + 1)
  BY DEF IInv, MemTypeOK
<1>3. [pass |-> p, i |-> i, msg |-> at[t].msg, trace |-> b] \in ScanState
  BY <1>1, <1>2 DEF ScanState
<1>4. /\ at'[t] = [pass |-> p, i |-> i, msg |-> at[t].msg, trace |-> b]
      /\ \A u \in Threads \ {t} : at'[u] = at[u]
      /\ UNCHANGED <<progVars, memVars, verdict, seen, during, firm>>
  BY DEF Goto, IInv, ScanTypeOK
<1>5. ScanTypeOK'
  BY <1>3, <1>4 DEF Goto, IInv, ScanTypeOK
<1>6. Sorted(t)'
  <2>1. Sorted(t)
    BY DEF IInv, ScanInv
  <2> QED BY <1>2, <1>4, <2>1 DEF Sorted, BeingAdded, progVars, memVars
<1>7. ScanInv(t)'
  BY <1>6 DEF ScanInv
<1>8. AnswerInv(t)'
  BY <1>4 DEF AnswerInv, Answered
<1> QED BY <1>4, <1>5, <1>7, <1>8, OthersKeep

\* A scan that answers keeps it if the answer is right.
LEMMA AnswerKeeps ==
  ASSUME IInv, NEW t \in Threads, at[t].pass # "out",
         NEW b \in BOOLEAN, NEW by \in 0..MaxFilters, Answer(t, b, by),
         Alone(during[t]) => b \in seen[t],
         b => \A i \in firm[t] : ~ Refuses(asked[i], at[t].msg),
         ~ b => \/ \A i \in firm[t] : ~ Admits(asked[i], at[t].msg)
                \/ \E i \in 1..added : Refuses(asked[i], at[t].msg)
  PROVE  IInv'
<1> USE FiltersAssumption
<1>1. at[t] \in ScanState /\ Sorted(t)
  BY DEF IInv, ScanTypeOK, ScanInv
<1>2. [pass |-> at[t].pass, msg |-> at[t].msg, trace |-> b, by |-> by] \in Ended
  BY <1>1 DEF ScanState, Ended
<1>3. /\ at'[t] = [pass |-> "out"]
      /\ verdict'[t] = [pass |-> at[t].pass, msg |-> at[t].msg, trace |-> b, by |-> by]
      /\ \A u \in Threads \ {t} : at'[u] = at[u] /\ verdict'[u] = verdict[u]
      /\ UNCHANGED <<progVars, memVars, seen, during, firm>>
  BY DEF Answer, IInv, ScanTypeOK
<1>4. ScanTypeOK'
  BY <1>2, <1>3 DEF Answer, IInv, ScanTypeOK
<1>5. ScanInv(t)'
  BY <1>3 DEF ScanInv
<1>6. AnswerInv(t)'
  <2>1. UNCHANGED <<added, asked, seen, during, firm>>
    BY <1>3 DEF progVars
  <2>2. firm[t] \subseteq 1..added
    BY <1>1 DEF Sorted, IInv, MemTypeOK
  <2>3. verdict'[t].trace = b /\ verdict'[t].msg = at[t].msg
    BY <1>3
  <2>4. Decided(t)'
    BY <2>1, <2>3 DEF Decided
  <2> QED BY <2>1, <2>2, <2>3, <2>4 DEF AnswerInv
<1> QED BY <1>3, <1>4, <1>5, <1>6, OthersKeep

\* The call: the filters in place and those being added are told apart.
LEMMA AskKeeps == ASSUME IInv, NEW t \in Threads, NEW m \in Message, Ask(t, m) PROVE IInv'
<1> USE FiltersAssumption
<1> DEFINE a == [pass |-> "exclude", i |-> 1, msg |-> m, trace |-> FALSE]
           yes == Traced(m, count, slots)
<1>1. a \in ScanState /\ yes \in BOOLEAN
  BY DEF ScanState, Traced
<1>2. BeingAdded \subseteq 1..added /\ BeingAdded \subseteq Slots /\ 1..count \subseteq Slots
  BY DEF IInv, MemTypeOK, BeingAdded, Slots
<1>3. /\ at'[t] = a /\ seen'[t] = {yes} /\ during'[t] = BeingAdded
      /\ firm'[t] = (1..count) \ BeingAdded
      /\ UNCHANGED <<progVars, memVars>>
      /\ \A u \in Threads \ {t} : /\ at'[u] = at[u] /\ verdict'[u] = verdict[u]
                                 /\ seen'[u] = seen[u] /\ during'[u] = during[u]
                                 /\ firm'[u] = firm[u]
  BY DEF Ask, IInv, ScanTypeOK
<1>4. ScanTypeOK'
  <2>1. at' \in [Threads -> [pass : {"out"}] \cup ScanState]
    BY <1>1 DEF Ask, IInv, ScanTypeOK
  <2>2. verdict' \in [Threads -> [pass : {"none"}] \cup Ended]
    BY DEF Ask, IInv, ScanTypeOK
  <2>3. seen' \in [Threads -> SUBSET BOOLEAN]
    BY <1>1 DEF Ask, IInv, ScanTypeOK
  <2>4. during' \in [Threads -> SUBSET Slots] /\ firm' \in [Threads -> SUBSET Slots]
    BY <1>2 DEF Ask, IInv, ScanTypeOK
  <2> QED BY <2>1, <2>2, <2>3, <2>4 DEF ScanTypeOK
<1>5. Sorted(t)'
  <2>1. started /\ count \in Nat /\ added \in Nat
    BY DEF Ask, IInv, MemTypeOK
  <2>2. \A i \in 1..added : i \in BeingAdded \/ i \in 1..count
    BY InPlace DEF IInv
  <2> QED BY <1>3, <2>1, <2>2 DEF Sorted, BeingAdded, progVars, memVars
<1>6. Found(t)'
  <2>1. \A j \in 1..count : ~ (j < 1)
    BY DEF IInv, MemTypeOK
  <2> QED BY <1>3, <2>1 DEF Found
<1>7. Moments(t)'
  <2>1. \A k \in BeingAdded : ~ (k < 1)
    <3>1. added \in Nat
      BY DEF IInv, MemTypeOK
    <3>2. \A k \in 1..added : ~ (k < 1)
      BY <3>1
    <3> QED BY <1>2, <3>2
  <2>2. ~ Passed(t)'
    BY <1>3, <2>1 DEF Passed
  <2>3. Traced(at'[t].msg, count', slots') \in seen'[t] /\ at'[t].pass # "include"
    BY <1>3 DEF progVars, memVars
  <2> QED BY <2>2, <2>3 DEF Moments
<1>8. ScanInv(t)' /\ AnswerInv(t)'
  BY <1>3, <1>5, <1>6, <1>7 DEF ScanInv, AnswerInv, Answered
<1> QED BY <1>3, <1>4, <1>8, OthersKeep

\* The first pass goes by a filter that does not refuse.
LEMMA PassOverKeeps == ASSUME IInv, NEW t \in Threads, PassOver(t) PROVE IInv'
<1> USE FiltersAssumption
<1> DEFINE i == at[t].i
           m == at[t].msg
<1>1. /\ at[t].pass = "exclude" /\ i <= count /\ ~ Refuses(slots[i], m)
      /\ Goto(t, "exclude", i + 1, FALSE)
  BY DEF PassOver, Current, Refuses
<1>2. at[t] \in ScanState /\ Sorted(t) /\ Found(t) /\ Moments(t) /\ Scan1(t)
  BY <1>1 DEF IInv, ScanTypeOK, ScanInv, Scan1
<1>3. i \in Nat /\ i \in 1..count /\ i + 1 \in 1..(count + 1) /\ during[t] \subseteq Nat
  BY <1>1, <1>2 DEF ScanState, Scan1, MemTypeOK, ScanTypeOK, Slots
<1>4. /\ at'[t].pass = "exclude" /\ at'[t].i = i + 1 /\ at'[t].msg = m
      /\ UNCHANGED <<asked, count, slots, seen, during, firm>>
  BY <1>1 DEF Goto, IInv, ScanTypeOK, progVars, memVars
<1>5. Found(t)'
  <2>1. \A j \in firm[t] : j \in Nat /\ slots[j] = asked[j]
    BY <1>2, FirmInPlace DEF Scan1, MemTypeOK
  <2>2. \A j \in firm[t] : j < i + 1 => ~ Refuses(asked[j], m)
    BY <1>1, <1>2, <1>3, <2>1 DEF Found
  <2> QED BY <1>4, <2>2 DEF Found
<1>6. Moments(t)'
  <2>1. Traced(m, count, slots) \in seen[t]
    BY <1>2 DEF Moments
  <2>2. ASSUME Alone(during[t]), Yes(t), NEW k \in during[t], k < i + 1
        PROVE  TRUE \in seen[t]
    <3>1. CASE k < i
      BY <1>2, <2>2, <3>1 DEF Moments, Passed
    <3>2. CASE k = i
      <4>1. \A j \in during[t] : ~ Refuses(slots[j], m)
        BY <1>1, <2>2, <3>2 DEF Alone
      <4>2. PICK j \in firm[t] : Admits(asked[j], m)
        BY <2>2 DEF Yes
      <4>3. j \in 1..count /\ Admits(slots[j], m)
        BY <1>2, <4>2, FirmInPlace
      <4>4. \A l \in firm[t] : ~ Refuses(asked[l], m)
        BY <2>2 DEF Yes
      <4>5. Traced(m, count, slots) = TRUE
        BY <1>2, <4>1, <4>3, <4>4, ListSaysYes
      <4> QED BY <2>1, <4>5
    <3>3. k < i \/ k = i
      <4>1. k \in Nat /\ i \in Nat /\ k < i + 1
        BY <1>3, <2>2
      <4> HIDE DEF i
      <4> QED BY <4>1
    <3> QED BY <3>1, <3>2, <3>3
  <2>3. Yes(t)' <=> Yes(t)
    BY <1>4 DEF Yes
  <2> QED BY <1>4, <2>1, <2>2, <2>3 DEF Moments, Passed
<1> QED BY <1>1, <1>3, <1>5, <1>6, GotoKeeps

\* A filter of the first pass refuses.
LEMMA RefuseKeeps == ASSUME IInv, NEW t \in Threads, Refuse(t) PROVE IInv'
<1> USE FiltersAssumption
<1> DEFINE i == at[t].i
           m == at[t].msg
<1>1. /\ at[t].pass # "out" /\ i <= count /\ Refuses(slots[i], m)
      /\ Answer(t, FALSE, i)
  BY DEF Refuse, Current, Refuses
<1>2. at[t] \in ScanState /\ Moments(t) /\ MemTypeOK /\ Mem
  BY <1>1 DEF IInv, ScanTypeOK, ScanInv
<1>3. i \in 1..count /\ i \in 0..MaxFilters
  BY <1>1, <1>2 DEF ScanState, MemTypeOK
<1>4. Traced(m, count, slots) = FALSE
  <2>1. slots[i].exclude /\ Excludes(slots[i], m)
    BY <1>1 DEF Refuses
  <2> QED BY <1>3, <2>1 DEF Traced
<1>5. FALSE \in seen[t]
  BY <1>2, <1>4 DEF Moments
<1>6. i \in 1..added /\ Refuses(asked[i], m)
  BY <1>1, <1>2, <1>3, SeenRefuses
<1>7. \E j \in 1..added : Refuses(asked[j], m)
  BY <1>6
<1>8. ASSUME NEW b \in BOOLEAN, ~ b, NEW by \in 0..MaxFilters, Answer(t, b, by) PROVE IInv'
  <2>1. Alone(during[t]) => b \in seen[t]
    BY <1>5, <1>8
  <2>2. b => \A j \in firm[t] : ~ Refuses(asked[j], at[t].msg)
    BY <1>8
  <2>3. ~ b => \/ \A j \in firm[t] : ~ Admits(asked[j], at[t].msg)
               \/ \E j \in 1..added : Refuses(asked[j], at[t].msg)
    BY <1>7
  <2>4. at[t].pass # "out"
    BY <1>1
  <2> QED BY <1>8, <2>1, <2>2, <2>3, <2>4, AnswerKeeps
<1>9. Answer(t, FALSE, i)
  BY <1>1
<1> QED BY <1>3, <1>8, <1>9

\* The first pass ends, and no filter in place has refused.
LEMMA TurnKeeps == ASSUME IInv, NEW t \in Threads, Turn(t) PROVE IInv'
<1> USE FiltersAssumption
<1> DEFINE i == at[t].i
           m == at[t].msg
<1>1. at[t].pass = "exclude" /\ i > count /\ Goto(t, "include", 1, FALSE)
  BY DEF Turn
<1>2. at[t] \in ScanState /\ Sorted(t) /\ Found(t) /\ Moments(t) /\ Scan1(t)
  BY <1>1 DEF IInv, ScanTypeOK, ScanInv, Scan1
<1>3. /\ i \in Nat /\ count \in Nat /\ 1 \in 1..(count + 1) /\ during[t] \subseteq 1..MaxFilters
      /\ firm[t] \subseteq 1..count
  BY <1>2 DEF ScanState, Scan1, MemTypeOK, ScanTypeOK, Slots, Sorted
<1>4. /\ at'[t].pass = "include" /\ at'[t].i = 1 /\ at'[t].msg = m /\ at'[t].trace = FALSE
      /\ UNCHANGED <<asked, count, slots, seen, during, firm>>
  BY <1>1 DEF Goto, IInv, ScanTypeOK, progVars, memVars
<1>5. \A j \in firm[t] : ~ (j < 1) /\ j < i
  BY <1>1, <1>3
<1>6. \A j \in firm[t] : ~ Refuses(asked[j], m)
  BY <1>2, <1>5 DEF Found
<1>7. Found(t)'
  BY <1>4, <1>5, <1>6 DEF Found
<1>8. Moments(t)'
  <2>1. Traced(m, count, slots) \in seen[t]
    BY <1>2 DEF Moments
  <2>2. ASSUME Alone(during[t]), Yes(t) PROVE TRUE \in seen[t]
    <3>1. CASE Passed(t)
      BY <1>2, <2>2, <3>1 DEF Moments
    <3>2. CASE ~ Passed(t)
      <4>1. \A k \in during[t] : k \notin 1..count
        BY <1>1, <1>3, <3>2 DEF Passed
      <4>2. PICK j \in firm[t] : Admits(asked[j], m)
        BY <2>2 DEF Yes
      <4>3. j \in 1..count /\ Admits(slots[j], m)
        BY <1>2, <4>2, FirmInPlace
      <4> QED BY <1>2, <1>6, <2>1, <4>1, <4>3, ListSaysYes
    <3> QED BY <3>1, <3>2
  <2>3. Yes(t)' <=> Yes(t)
    BY <1>4 DEF Yes
  <2>4. ~ Passed(t)'
    <3>1. \A k \in during[t] : ~ (k < 1)
      BY <1>3
    <3> QED BY <1>4, <3>1 DEF Passed
  <2> QED BY <1>4, <2>1, <2>2, <2>3, <2>4 DEF Moments
<1> QED BY <1>1, <1>3, <1>7, <1>8, GotoKeeps

\* The second pass goes by a filter that does not admit.
LEMMA GoingByKeeps ==
  ASSUME IInv, NEW t \in Threads, at[t].pass = "include", at[t].i <= count,
         ~ Admits(slots[at[t].i], at[t].msg), Goto(t, "include", at[t].i + 1, at[t].trace)
  PROVE  IInv'
<1> USE FiltersAssumption
<1> DEFINE i == at[t].i
           m == at[t].msg
<1>1. at[t] \in ScanState /\ Sorted(t) /\ Found(t) /\ Moments(t) /\ Scan1(t)
  BY DEF IInv, ScanTypeOK, ScanInv, Scan1
<1>2. /\ i \in Nat /\ i \in 1..count /\ i + 1 \in 1..(count + 1) /\ during[t] \subseteq Nat
      /\ at[t].trace \in BOOLEAN
  BY <1>1 DEF ScanState, Scan1, MemTypeOK, ScanTypeOK, Slots
<1>3. /\ at'[t].pass = "include" /\ at'[t].i = i + 1 /\ at'[t].msg = m
      /\ at'[t].trace = at[t].trace
      /\ UNCHANGED <<asked, count, slots, seen, during, firm>>
  BY DEF Goto, IInv, ScanTypeOK, progVars, memVars
<1>4. \A k \in Nat : k < i + 1 <=> k < i \/ k = i
  <2> HIDE DEF i
  <2> QED BY <1>2
<1>5. Found(t)'
  <2>1. \A j \in firm[t] : j \in Nat /\ slots[j] = asked[j]
    BY <1>1, FirmInPlace DEF Scan1, MemTypeOK
  <2>2. ~ at[t].trace => \A j \in firm[t] : j < i + 1 => ~ Admits(asked[j], m)
    BY <1>1, <1>4, <2>1 DEF Found
  <2> QED BY <1>1, <1>3, <2>2 DEF Found
<1>6. Moments(t)'
  <2>1. Traced(m, count, slots) \in seen[t]
    BY <1>1 DEF Moments
  <2>2. ASSUME Alone(during[t]), No(t), ~ at[t].trace, NEW k \in during[t], k < i + 1
        PROVE  FALSE \in seen[t]
    <3>1. CASE k < i
      BY <1>1, <2>2, <3>1 DEF Moments, Passed
    <3>2. CASE k = i
      <4>1. \A j \in during[t] : ~ Admits(slots[j], m)
        BY <2>2, <3>2 DEF Alone
      <4>2. Traced(m, count, slots) = FALSE
        BY <1>1, <2>2, <4>1, ListSaysNo
      <4> QED BY <2>1, <4>2
    <3>3. k < i \/ k = i
      BY <1>2, <1>4, <2>2
    <3> QED BY <3>1, <3>2, <3>3
  <2>3. (Yes(t)' <=> Yes(t)) /\ (No(t)' <=> No(t))
    BY <1>3 DEF Yes, No
  <2>4. Alone(during[t]) =>
          /\ Yes(t) => TRUE \in seen[t]
          /\ at[t].trace => TRUE \in seen[t]
    BY <1>1 DEF Moments
  <2> QED BY <1>3, <2>1, <2>2, <2>3, <2>4 DEF Moments, Passed
<1> QED BY <1>2, <1>3, <1>5, <1>6, GotoKeeps

\* The second pass skips an excluding filter.
LEMMA SkipKeeps == ASSUME IInv, NEW t \in Threads, Skip(t) PROVE IInv'
BY GoingByKeeps DEF Skip, Current, Admits

\* The second pass asks an including filter.
LEMMA ConsiderKeeps == ASSUME IInv, NEW t \in Threads, Consider(t) PROVE IInv'
<1> USE FiltersAssumption
<1> DEFINE i == at[t].i
           m == at[t].msg
           b == Accepts(slots[i], m)
<1>1. /\ at[t].pass = "include" /\ i <= count /\ ~ slots[i].exclude /\ ~ at[t].trace
      /\ Goto(t, "include", i + 1, b)
  BY DEF Consider, Current
<1>2. at[t] \in ScanState /\ Sorted(t) /\ Found(t) /\ Moments(t) /\ Scan1(t)
  BY <1>1 DEF IInv, ScanTypeOK, ScanInv, Scan1
<1>3. /\ i \in Nat /\ i \in 1..count /\ i + 1 \in 1..(count + 1) /\ i \in 1..added
      /\ at[t].trace \in BOOLEAN
  BY <1>1, <1>2 DEF ScanState, Scan1, MemTypeOK
<1>4. b \in BOOLEAN
  <2>1. CASE slots[i].custom # Null
    <3>1. b = (m \in slots[i].custom)
      BY <2>1 DEF Accepts
    <3> QED BY <3>1
  <2>2. CASE slots[i].custom = Null
    <3>1. b = (\A p \in Patterns : slots[i][p] # Null => m[p] \in slots[i][p])
      BY <2>2 DEF Accepts
    <3> QED BY <3>1
  <2> QED BY <2>1, <2>2
<1>5. CASE ~ b
  <2>1. ~ Admits(slots[i], m)
    BY <1>5 DEF Admits
  <2>2. b = at[t].trace
    BY <1>1, <1>3, <1>4, <1>5
  <2> HIDE DEF b
  <2>3. Goto(t, "include", i + 1, at[t].trace)
    BY <1>1, <2>2
  <2> QED BY <1>1, <2>1, <2>3, GoingByKeeps
<1>6. CASE b
  <2>1. /\ at'[t].pass = "include" /\ at'[t].i = i + 1 /\ at'[t].msg = m /\ at'[t].trace = b
        /\ UNCHANGED <<asked, count, slots, seen, during, firm>>
    BY <1>1 DEF Goto, IInv, ScanTypeOK, progVars, memVars
  <2>2. at'[t].trace
    BY <1>6, <2>1
  <2>3. Admits(slots[i], m) /\ ~ Refuses(slots[i], m)
    BY <1>1, <1>6 DEF Admits, Refuses
  <2>4. \A j \in firm[t] : ~ Refuses(asked[j], m)
    BY <1>1, <1>2 DEF Found
  <2>5. Found(t)'
    BY <2>1, <2>2, <2>4 DEF Found
  <2>6. Traced(m, count, slots) \in seen[t]
    BY <1>2 DEF Moments
  <2>7. ASSUME Alone(during[t]) PROVE TRUE \in seen[t]
    <3>1. CASE i \in firm[t]
      <4>1. Admits(asked[i], m)
        BY <1>2, <2>3, <3>1, FirmInPlace
      <4>2. Yes(t)
        BY <2>4, <3>1, <4>1 DEF Yes
      <4> QED BY <1>1, <1>2, <2>7, <4>2 DEF Moments
    <3>2. CASE i \in during[t]
      <4>1. \A k \in during[t] : ~ Refuses(slots[k], m)
        BY <2>3, <2>7, <3>2 DEF Alone
      <4>2. Traced(m, count, slots) = TRUE
        BY <1>2, <1>3, <2>3, <2>4, <4>1, ListSaysYes
      <4> QED BY <2>6, <4>2
    <3> QED BY <1>2, <1>3, <3>1, <3>2 DEF Sorted
  <2>8. Moments(t)'
    BY <2>1, <2>2, <2>6, <2>7 DEF Moments
  <2> HIDE DEF b
  <2> QED BY <1>1, <1>3, <1>4, <2>5, <2>8, GotoKeeps
<1> QED BY <1>4, <1>5, <1>6

\* The scan ends.
LEMMA FinishKeeps == ASSUME IInv, NEW t \in Threads, Finish(t) PROVE IInv'
<1> USE FiltersAssumption
<1> DEFINE i == at[t].i
           m == at[t].msg
           b == at[t].trace
<1>1. /\ at[t].pass = "include" /\ (~ b => ~ (i <= count))
      /\ Answer(t, b, 0)
  BY DEF Finish
<1>2. at[t] \in ScanState /\ Sorted(t) /\ Found(t) /\ Moments(t) /\ Scan1(t)
  BY <1>1 DEF IInv, ScanTypeOK, ScanInv, Scan1
<1>3. /\ i \in Nat /\ count \in Nat /\ b \in BOOLEAN /\ during[t] \subseteq Nat
      /\ 0 \in 0..MaxFilters /\ firm[t] \subseteq 1..count
  BY <1>2 DEF ScanState, Scan1, MemTypeOK, ScanTypeOK, Slots, Sorted
<1>4. \A j \in firm[t] : ~ Refuses(asked[j], m)
  BY <1>1, <1>2 DEF Found
<1>5. ASSUME ~ b PROVE No(t)
  <2>1. \A j \in firm[t] : j < i
    BY <1>1, <1>3, <1>5
  <2> QED BY <1>1, <1>2, <1>5, <2>1 DEF Found, No
<1>6. ASSUME Alone(during[t]) PROVE b \in seen[t]
  <2>1. CASE b
    <3>1. TRUE \in seen[t]
      BY <1>1, <1>2, <1>6, <2>1 DEF Moments
    <3>2. b = TRUE
      BY <1>3, <2>1
    <3> QED BY <3>1, <3>2
  <2>2. CASE ~ b
    <3>1. FALSE \in seen[t]
      <4>1. CASE Passed(t)
        BY <1>1, <1>2, <1>5, <1>6, <2>2, <4>1 DEF Moments
      <4>2. CASE ~ Passed(t)
        <5>1. \A k \in during[t] : k \notin 1..count
          BY <1>1, <1>3, <2>2, <4>2 DEF Passed
        <5>2. Traced(m, count, slots) = FALSE
          BY <1>2, <1>5, <2>2, <5>1, ListSaysNo
        <5> QED BY <1>2, <5>2 DEF Moments
      <4> QED BY <4>1, <4>2
    <3>2. b = FALSE
      BY <1>3, <2>2
    <3> QED BY <3>1, <3>2
  <2> QED BY <2>1, <2>2
<1>7. /\ b => \A j \in firm[t] : ~ Refuses(asked[j], m)
      /\ ~ b => \/ \A j \in firm[t] : ~ Admits(asked[j], m)
               \/ \E j \in 1..added : Refuses(asked[j], m)
  BY <1>4, <1>5 DEF No
<1> QED BY <1>1, <1>3, <1>6, <1>7, AnswerKeeps

-----------------------------------------------------------------------------
(* Theorems *)

\* The invariant holds before anything was added.
LEMMA InitIInv == Init => IInv
<1> USE FiltersAssumption
<1> SUFFICES ASSUME Init PROVE IInv
  OBVIOUS
<1>1. Blank \in Filter
  BY DEF Blank, Filter
<1>2. MemTypeOK
  <2>1. asked \in [Slots -> Filter] /\ slots \in [Slots -> Filter]
    BY <1>1 DEF Init
  <2>2. started \in BOOLEAN /\ pending = {} /\ added = 0 /\ count = 0
    BY DEF Init
  <2> QED BY <2>1, <2>2 DEF MemTypeOK
<1>3. ScanTypeOK
  BY DEF Init, ScanTypeOK
<1>4. Mem
  BY DEF Init, Mem
<1>5. \A t \in Threads : ScanInv(t) /\ AnswerInv(t)
  BY DEF Init, ScanInv, AnswerInv, Answered
<1> QED BY <1>2, <1>3, <1>4, <1>5 DEF IInv

\* Every step keeps the invariant.
LEMMA NextKeeps == IInv /\ [Next]_vars => IInv'
<1> USE FiltersAssumption
<1> SUFFICES ASSUME IInv, [Next]_vars PROVE IInv'
  OBVIOUS
<1>1. MemTypeOK /\ Mem
  BY DEF IInv
<1>2. CASE Program
  <2>1. ASSUME NEW f \in Filter, Unlocked(f) PROVE IInv'
    <3>1. Remember
      BY <2>1 DEF Unlocked
    <3> QED BY <1>1, <2>1, <3>1, UnlockedMem, RememberKeeps
  <2>2. ASSUME NEW c \in ClassPatterns, NEW m \in MethodPatterns, NEW x \in BOOLEAN, AddPattern(c, m, x)
        PROVE  IInv'
    <3>1. [Blank EXCEPT !.class = c, !.method = m, !.exclude = x] \in Filter
      BY DEF Blank, Filter
    <3> QED BY <2>1, <2>2, <3>1 DEF AddPattern
  <2>3. ASSUME NEW p \in ImagePatterns, IncludeImage(p) PROVE IInv'
    <3>1. [Blank EXCEPT !.image = p] \in Filter
      BY DEF Blank, Filter
    <3> QED BY <2>1, <2>3, <3>1 DEF IncludeImage
  <2>4. ASSUME NEW f \in Structs, AddFilter(f) PROVE IInv'
    <3>1. f \in Filter
      OBVIOUS
    <3>2. Remember
      BY <2>4 DEF AddFilter
    <3> QED BY <1>1, <2>4, <3>1, <3>2, AddFilterMem, RememberKeeps
  <2>5. ASSUME NEW w \in pending, Appears(w) PROVE IInv'
    <3>1. Remember
      BY <2>5 DEF Appears
    <3> QED BY <1>1, <2>5, <3>1, AppearsMem, RememberKeeps
  <2>6. CASE Start
    <3>1. Scanning = {}
      BY <2>6 DEF Start, IInv, ScanInv, Sorted, Scanning
    <3>2. Remember
      BY <2>6 DEF Start
    <3> QED BY <1>1, <2>6, <3>1, <3>2, StartMem, RememberKeeps
  <2> QED BY <1>2, <2>2, <2>3, <2>4, <2>5, <2>6 DEF Program
<1>3. ASSUME NEW t \in Threads, Scan(t) PROVE IInv'
  <2>1. ASSUME NEW m \in Message, Ask(t, m) PROVE IInv'
    BY <2>1, AskKeeps
  <2>2. CASE PassOver(t) BY <2>2, PassOverKeeps
  <2>3. CASE Refuse(t) BY <2>3, RefuseKeeps
  <2>4. CASE Turn(t) BY <2>4, TurnKeeps
  <2>5. CASE Skip(t) BY <2>5, SkipKeeps
  <2>6. CASE Consider(t) BY <2>6, ConsiderKeeps
  <2>7. CASE Finish(t) BY <2>7, FinishKeeps
  <2> QED BY <1>3, <2>1, <2>2, <2>3, <2>4, <2>5, <2>6, <2>7 DEF Scan
<1>4. CASE UNCHANGED vars
  <2>1. UNCHANGED <<started, added, asked, count, slots, pending, at, verdict, seen, during, firm>>
    BY <1>4 DEF vars, progVars, memVars, scanVars
  <2>2. MemTypeOK' /\ ScanTypeOK' /\ Mem'
    BY <2>1 DEF IInv, MemTypeOK, ScanTypeOK, Mem
  <2>3. ASSUME NEW t \in Threads PROVE ScanInv(t)' /\ AnswerInv(t)'
    <3>1. ScanInv(t) /\ AnswerInv(t)
      BY DEF IInv
    <3>2. ScanInv(t)'
      BY <2>1, <3>1 DEF ScanInv, Sorted, Found, Moments, Passed, Yes, No, BeingAdded
    <3>3. AnswerInv(t)'
      BY <2>1, <3>1 DEF AnswerInv, Answered, Decided
    <3> QED BY <3>2, <3>3
  <2> QED BY <2>2, <2>3 DEF IInv
<1> QED BY <1>2, <1>3, <1>4 DEF Next

\* The inductive invariant: what is on its way to memory, and for each scan how
\* the filters in place and the one being added bear on the verdict.
THEOREM FiltersInvariance == Spec => []IInv
BY InitIInv, NextKeeps, PTL DEF Spec

\* Every variable keeps its type: no index runs past the filters there can be.
THEOREM FiltersTypeCorrect == Spec => []TypeOK
<1>1. IInv => TypeOK
  BY Types DEF IInv
<1> QED BY <1>1, FiltersInvariance, PTL

\* With at most one filter being added meanwhile, a scan is as good as atomic.
THEOREM ScanLinearizes == Spec => []VerdictOfSomeMoment
<1>1. IInv => VerdictOfSomeMoment
  BY DEF IInv, AnswerInv, Alone, VerdictOfSomeMoment
<1> QED BY <1>1, FiltersInvariance, PTL

\* The filters in place at a call decide, whatever is being added.
THEOREM FirmDecide == Spec => []FirmFiltersDecide
<1>1. IInv => FirmFiltersDecide
  BY DEF IInv, AnswerInv, Decided, Refuses, Admits, FirmFiltersDecide
<1> QED BY <1>1, FiltersInvariance, PTL
=============================================================================
