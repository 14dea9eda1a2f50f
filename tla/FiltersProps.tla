----------------------------- MODULE FiltersProps -----------------------------
(* What the filters promise of the messages that are traced.                *)
EXTENDS Filters

ScanState == [pass : {"exclude", "include"}, i : 1..(MaxFilters + 1), msg : Message,
              trace : BOOLEAN]

\* Every variable has its type; a scan never runs past the filters that there
\* can be, and no more are counted than were added.
TypeOK ==
  /\ started \in BOOLEAN
  /\ added \in 0..MaxFilters /\ count \in 0..added
  /\ asked \in [Slots -> Filter] /\ slots \in [Slots -> Filter]
  /\ pending \subseteq [slot : 1..added, field : {"count"} \cup Fields]
  /\ at \in [Threads -> [pass : {"out"}] \cup ScanState]
  /\ verdict \in [Threads -> [pass : {"none"}] \cup
                    [pass : {"exclude", "include"}, msg : Message, trace : BOOLEAN, by : 0..MaxFilters]]
  /\ seen \in [Threads -> SUBSET BOOLEAN]
  /\ during \in [Threads -> SUBSET Slots] /\ firm \in [Threads -> SUBSET Slots]

Answered(t) == at[t].pass = "out" /\ verdict[t].pass # "none"

\* A scan reads the list in two passes, one filter at a time, while filters are
\* added without the lock it holds.  Still, if at most one filter was being
\* added during the scan, its verdict is what the list, as the threads saw it,
\* said of the message at some moment between the call and the return.
VerdictOfSomeMoment ==
  \A t \in Threads :
    Answered(t) /\ (\A j, k \in during[t] : j = k) => verdict[t].trace \in seen[t]

\* However many filters are being added: a message that a filter in place at the
\* call excludes is not traced, and one that a filter in place accepts is traced
\* unless a filter that was added at some time excludes it.
FirmFiltersDecide ==
  \A t \in Threads : Answered(t) =>
    IF verdict[t].trace
    THEN \A i \in firm[t] : asked[i].exclude => ~ Excludes(asked[i], verdict[t].msg)
    ELSE \/ \A i \in firm[t] : ~ asked[i].exclude => ~ Accepts(asked[i], verdict[t].msg)
         \/ \E i \in 1..added : asked[i].exclude /\ Excludes(asked[i], verdict[t].msg)

\* README.md:339-341 gives tracer_exclude_method(tracer, "dealloc") as a filter of
\* methods, and line 34 has -M "Exclude methods matching `pattern`".  The function
\* passes "*" for the class, and a class pattern that matches excludes by itself:
\* no message is traced any more.
ExcludesMatchingMethods ==
  \A t \in Threads :
    Answered(t) /\ verdict[t].pass = "exclude" /\ asked[verdict[t].by].class = Classes =>
      verdict[t].msg.method \in asked[verdict[t].by].method
=============================================================================
