-------------------------- MODULE SequentialProofs --------------------------
(***************************************************************************)
(* The parts that run on one thread.  The two searches, the wildcard match *)
(* and the binary search, give the right answer for every pattern, name,   *)
(* list and selector; the terminal interface stays within its limits, and  *)
(* its views hold the latest lines, whatever is sent and whatever keys are *)
(* pressed; and the size found for a type covers it.  The searches and the *)
(* parser get on with every step.  At the end the parts stand side by      *)
(* side, as the run has them.                                              *)
(***************************************************************************)
EXTENDS Sequential, TLAPS

-----------------------------------------------------------------------------
\* The deny list: the hash looked for is between the two indices, if it is listed.
DenyTypes ==
  /\ selector \in Selectors /\ searching \in {"entry", "loop", "done"} /\ denied \in BOOLEAN

Narrowed ==
  /\ searching = "entry" => left = 0
  /\ searching = "loop" =>
       /\ selector.first = "other"
       /\ \A n \in 1..Len(SkipList) :
            SkipList[n] = selector.hash => left + 1 <= n /\ n <= right + 1

DenyInv == DenyTypes /\ IndicesInside /\ Narrowed /\ DeniedIffListed

LEMMA Middle ==
  ASSUME NEW l \in Nat, NEW r \in Nat, l <= r
  PROVE  /\ l + (r - l) \div 2 \in l..r
         /\ l + (r - l) \div 2 \in Nat
  OBVIOUS

LEMMA ListFacts ==
  /\ Len(SkipList) \in Nat \ {0}
  /\ \A n \in 1..Len(SkipList) : SkipList[n] \in Nat
  /\ \A m, n \in 1..Len(SkipList) : m < n => SkipList[m] < SkipList[n]
  BY DenyListAssumption

LEMMA MidFacts ==
  ASSUME IndicesInside, InRange
  PROVE  /\ mid \in left..right /\ mid \in Nat /\ mid + 1 \in 1..Len(SkipList)
         /\ left \in Nat /\ right \in Nat
  <1>1. left \in Nat /\ right \in Nat /\ left <= right /\ right <= Len(SkipList) - 1
    BY ListFacts DEF IndicesInside, InRange
  <1>2. mid \in left..right /\ mid \in Nat
    BY <1>1, Middle DEF mid
  <1> QED BY <1>1, <1>2, ListFacts

LEMMA HashFacts == selector \in Selectors => selector.hash \in Nat
  BY DenyListAssumption

LEMMA DenyStart == DenyInit => DenyInv
  <1> SUFFICES ASSUME DenyInit PROVE DenyInv
    OBVIOUS
  <1>1. IndicesInside
    BY ListFacts DEF DenyInit, IndicesInside
  <1>2. DenyTypes /\ Narrowed /\ DeniedIffListed
    BY DEF DenyInit, DenyTypes, Narrowed, DeniedIffListed
  <1> QED BY <1>1, <1>2 DEF DenyInv

LEMMA DenyStep == DenyInv /\ [DenyNext]_denyVars => DenyInv'
  <1> SUFFICES ASSUME DenyInv, [DenyNext]_denyVars PROVE DenyInv'
    OBVIOUS
  <1> USE DEF DenyInv
  <1>1. CASE Ignore
    BY <1>1 DEF Ignore, Deny, DenyTypes, IndicesInside, Narrowed, DeniedIffListed
  <1>2. CASE Hidden
    BY <1>2 DEF Hidden, Deny, DenyTypes, IndicesInside, Narrowed, DeniedIffListed
  <1>3. CASE BeginSearch
    <2>1. selector.first = "other" /\ left = 0
      BY <1>3 DEF BeginSearch, Narrowed
    <2> QED BY <1>3, ListFacts, <2>1
            DEF BeginSearch, DenyTypes, IndicesInside, Narrowed, DeniedIffListed
  <1>4. CASE Found
    <2>1. selector.first = "other" /\ Listed
      BY <1>4, MidFacts DEF Found, InRange, Narrowed, MidHash, Listed
    <2> QED BY <1>4, <2>1
            DEF Found, Deny, DenyTypes, IndicesInside, Narrowed, DeniedIffListed, Listed
  <1>5. CASE GoRight
    <2>1. InRange /\ MidHash < selector.hash /\ left' = mid + 1
          /\ UNCHANGED <<selector, searching, right, denied>> /\ searching = "loop"
      BY <1>5 DEF GoRight, InRange
    <2>2. \A n \in 1..Len(SkipList) : SkipList[n] = selector.hash => mid + 2 <= n
      BY <2>1, MidFacts, ListFacts DEF MidHash
    <2>3. IndicesInside'
      BY <2>1, MidFacts, ListFacts DEF IndicesInside
    <2>4. Narrowed'
      BY <2>1, <2>2, MidFacts, ListFacts DEF Narrowed
    <2> QED BY <2>1, <2>3, <2>4 DEF DenyTypes, DeniedIffListed
  <1>6. CASE BeforeFirst
    <2>1. \A n \in 1..Len(SkipList) : SkipList[n] # selector.hash
      BY <1>6, MidFacts, ListFacts DEF BeforeFirst, MidHash
    <2>2. selector.first = "other"
      BY <1>6 DEF BeforeFirst, InRange, Narrowed
    <2> QED BY <1>6, <2>1, <2>2
            DEF BeforeFirst, Deny, DenyTypes, IndicesInside, Narrowed, DeniedIffListed, Listed
  <1>7. CASE GoLeft
    <2>1. InRange /\ MidHash > selector.hash /\ mid # 0 /\ right' = mid - 1
          /\ UNCHANGED <<selector, searching, left, denied>> /\ searching = "loop"
      BY <1>7 DEF GoLeft, InRange
    <2>2. \A n \in 1..Len(SkipList) : SkipList[n] = selector.hash => n <= mid
      BY <2>1, MidFacts, ListFacts, HashFacts DEF MidHash
    <2>3. IndicesInside'
      BY <2>1, MidFacts, ListFacts DEF IndicesInside
    <2>4. Narrowed'
      BY <2>1, <2>2, MidFacts, ListFacts DEF Narrowed
    <2> QED BY <2>1, <2>3, <2>4 DEF DenyTypes, DeniedIffListed
  <1>8. CASE Absent
    <2>1. \A n \in 1..Len(SkipList) : SkipList[n] # selector.hash
      BY <1>8, ListFacts DEF Absent, Narrowed, IndicesInside
    <2>2. selector.first = "other"
      BY <1>8 DEF Absent, Narrowed
    <2> QED BY <1>8, <2>1, <2>2
            DEF Absent, Deny, DenyTypes, IndicesInside, Narrowed, DeniedIffListed, Listed
  <1>9. CASE UNCHANGED denyVars
    BY <1>9 DEF denyVars, DenyTypes, IndicesInside, Narrowed, DeniedIffListed, Listed
  <1> QED BY <1>1, <1>2, <1>3, <1>4, <1>5, <1>6, <1>7, <1>8, <1>9 DEF DenyNext

LEMMA DenyAlways == DenySpec => []DenyInv
  BY DenyStart, DenyStep, PTL DEF DenySpec

\* The unsigned indices of is_selector_denied never wrap and never pass the end of
\* the list, however long it is.
THEOREM DenyInside == DenySpec => []IndicesInside
  BY DenyAlways, PTL DEF DenyInv

\* is_selector_denied finds exactly the hashes that are in its list.
THEOREM DenyRight == DenySpec => []DeniedIffListed
  BY DenyAlways, PTL DEF DenyInv

\* How much of the list is left to search.
Width == right - left + 1

Narrows == searching = "loop" => searching' = "done" \/ (Width > 0 /\ Width' <= Width \div 2)

\* With every comparison the part of the list left to search is halved, so there are no
\* more comparisons than the length of the list has binary digits, and a turn that does
\* not compare is the last (hash_in_denylist).
THEOREM DenyHalves == DenySpec => [][Narrows]_denyVars
<1>1. ASSUME DenyInv, DenyNext, searching = "loop", searching' # "done"
      PROVE  Width > 0 /\ Width' <= Width \div 2
  <2>1. IndicesInside
    BY <1>1 DEF DenyInv
  <2>2. GoRight \/ GoLeft
    BY <1>1 DEF DenyNext, Ignore, Hidden, BeginSearch, Found, BeforeFirst, Absent, Deny
  <2>3. InRange
    BY <2>2 DEF GoRight, GoLeft
  <2>4. left \in Nat /\ right \in Nat /\ left <= right
    BY <2>1, <2>3, MidFacts DEF InRange
  <2>5. Width > 0
    BY <2>4 DEF Width
  <2>6. CASE GoRight
    <3>1. left' = mid + 1 /\ right' = right
      BY <2>6 DEF GoRight
    <3>2. QED
      BY <2>4, <2>5, <3>1 DEF Width, mid
  <2>7. CASE GoLeft
    <3>1. right' = mid - 1 /\ left' = left
      BY <2>7 DEF GoLeft
    <3>2. QED
      BY <2>4, <2>5, <3>1 DEF Width, mid
  <2>8. QED
    BY <2>2, <2>6, <2>7
<1>2. DenyInv /\ [DenyNext]_denyVars => [Narrows]_denyVars
  BY <1>1 DEF Narrows
<1>3. QED
  BY <1>2, DenyAlways, PTL DEF DenySpec

-----------------------------------------------------------------------------
\* The wildcard match.  The first k characters of the pattern can stand for the
\* first m of the name.
Reach(k, m) == \E f \in Cuttings : Cuts(f, k) /\ f[k] = m

Full(f) == f \in Cuttings /\ Cuts(f, Len(pattern)) /\ f[Len(pattern)] = Len(name)

MatchTypes ==
  /\ given \in BOOLEAN /\ pattern \in PatternTexts /\ name \in Names
  /\ matching \in {"entry", "loop", "tail", "done"} /\ matches \in BOOLEAN

Entry ==
  /\ matching = "entry" => str_ptr = 0 /\ pat_ptr = 0 /\ str_star = 0 /\ pat_star = 0
  /\ matching \in {"loop", "tail"} => given /\ pattern # <<>>

\* What has been read since the last '*' stands for itself.
Run ==
  matching = "loop" =>
    /\ pat_ptr - pat_star = str_ptr - str_star
    /\ IF pat_star = 0 THEN str_star = 0 ELSE pattern[pat_star] = Star

\* What has been read can be cut, up to the last '*' and up to here.
Sound ==
  /\ matching = "loop" => Reach(pat_star, str_star) /\ Reach(pat_ptr, str_ptr)
  /\ matching = "tail" => Reach(pat_ptr, Len(name))

\* No way of cutting all of the name is missed: it goes on from here, or from
\* the last '*' with more of the name.
Complete ==
  /\ matching = "loop" => \A f : Full(f) =>
       f[pat_star] >= str_star /\ f[pat_ptr] = f[pat_star] + (pat_ptr - pat_star)
  /\ matching = "tail" => \A f : Full(f) => f[pat_ptr] = Len(name)

MatchInv ==
  MatchTypes /\ PointersInside /\ Entry /\ Run /\ Sound /\ Complete /\ AnswersAsGlob

LEMMA TextFacts ==
  ASSUME MatchTypes
  PROVE  /\ Len(pattern) \in Nat /\ Len(name) \in Nat
         /\ DOMAIN pattern = 1..Len(pattern) /\ DOMAIN name = 1..Len(name)
         /\ pattern \in Seq(Chars) /\ name \in Seq(Chars)
  <1>1. pattern \in Seq(Chars) /\ name \in Seq(Chars)
    BY PatternsAssumption DEF MatchTypes
  <1> QED BY <1>1

LEMMA ReachStar ==
  ASSUME MatchTypes, NEW k \in 1..Len(pattern), pattern[k] = Star,
         NEW m \in 0..Len(name), NEW n \in m..Len(name), Reach(k - 1, m)
  PROVE  Reach(k, n)
  <1>1. PICK f \in Cuttings : Cuts(f, k - 1) /\ f[k - 1] = m
    BY DEF Reach
  <1> DEFINE g == [f EXCEPT ![k] = n]
  <1>2. Len(pattern) \in Nat /\ Len(name) \in Nat
    BY TextFacts
  <1>3. g \in Cuttings /\ g[k] = n /\ \A l \in 0..(k - 1) : g[l] = f[l]
    BY <1>2 DEF Cuttings
  <1>4. Cuts(g, k)
    <2> HIDE DEF g
    <2>0. k \in Nat /\ 0 \in 0..(k - 1) /\ k - 1 \in 0..(k - 1)
      BY <1>2
    <2>1. g[0] = 0 /\ g[k - 1] = m
      BY <1>1, <1>3, <2>0 DEF Cuts
    <2>2. ASSUME NEW l \in 1..(k - 1)
          PROVE  IF pattern[l] = Star THEN g[l - 1] <= g[l]
                 ELSE g[l] = g[l - 1] + 1 /\ name[g[l]] = pattern[l]
      BY <1>1, <1>2, <1>3 DEF Cuts
    <2> QED BY <1>2, <1>3, <2>1, <2>2 DEF Cuts
  <1> QED BY <1>3, <1>4 DEF Reach

LEMMA ReachChar ==
  ASSUME MatchTypes, NEW k \in 1..Len(pattern), pattern[k] # Star,
         NEW m \in 0..(Len(name) - 1), name[m + 1] = pattern[k], Reach(k - 1, m)
  PROVE  Reach(k, m + 1)
  <1>1. PICK f \in Cuttings : Cuts(f, k - 1) /\ f[k - 1] = m
    BY DEF Reach
  <1> DEFINE g == [f EXCEPT ![k] = m + 1]
  <1>2. Len(pattern) \in Nat /\ Len(name) \in Nat
    BY TextFacts
  <1>3. g \in Cuttings /\ g[k] = m + 1 /\ \A l \in 0..(k - 1) : g[l] = f[l]
    BY <1>2 DEF Cuttings
  <1>4. Cuts(g, k)
    <2> HIDE DEF g
    <2> QED BY <1>1, <1>2, <1>3 DEF Cuts
  <1> QED BY <1>3, <1>4 DEF Reach

LEMMA ReachMore ==
  ASSUME MatchTypes, NEW k \in 1..Len(pattern), pattern[k] = Star,
         NEW m \in 0..Len(name), NEW n \in m..Len(name), Reach(k, m)
  PROVE  Reach(k, n)
  <1>1. PICK f \in Cuttings : Cuts(f, k) /\ f[k] = m
    BY DEF Reach
  <1>2. Len(pattern) \in Nat /\ Len(name) \in Nat
    BY TextFacts
  <1>3. f[k - 1] \in 0..Len(name) /\ f[k - 1] <= f[k]
    BY <1>1, <1>2 DEF Cuts, Cuttings
  <1>4. Cuts(f, k - 1)
    BY <1>1, <1>2 DEF Cuts
  <1>5. Reach(k - 1, f[k - 1]) /\ n \in f[k - 1]..Len(name)
    BY <1>1, <1>2, <1>3, <1>4 DEF Reach
  <1> QED BY <1>3, <1>5, ReachStar

\* A cutting of all of the name goes on by each character.
LEMMA FullStep ==
  ASSUME MatchTypes, NEW f, Full(f), NEW k \in 0..(Len(pattern) - 1)
  PROVE  /\ f[k] \in 0..Len(name) /\ f[k + 1] \in 0..Len(name)
         /\ pattern[k + 1] = Star => f[k] <= f[k + 1]
         /\ pattern[k + 1] # Star => f[k + 1] = f[k] + 1 /\ name[f[k] + 1] = pattern[k + 1]
  <1>1. Len(pattern) \in Nat /\ Len(name) \in Nat
    BY TextFacts
  <1>2. k + 1 \in 1..Len(pattern) /\ (k + 1) - 1 = k /\ k \in 0..Len(pattern)
        /\ k + 1 \in 0..Len(pattern)
    BY <1>1
  <1> QED BY <1>2 DEF Full, Cuts, Cuttings

\* Where the next characters differ, no cutting of all of the name has come here.
LEMMA NotHere ==
  ASSUME MatchInv, OtherChar, NEW f, Full(f)
  PROVE  f[pat_star] # str_star
  <1>1. MatchTypes /\ Len(pattern) \in Nat /\ Len(name) \in Nat
    BY TextFacts DEF MatchInv
  <1>2. /\ str_ptr \in 0..Len(name) /\ pat_ptr \in 0..Len(pattern)
        /\ str_star \in 0..str_ptr /\ pat_star \in 0..pat_ptr /\ str_ptr < Len(name)
        /\ pat_ptr - pat_star = str_ptr - str_star
        /\ f[pat_ptr] = f[pat_star] + (pat_ptr - pat_star)
    BY DEF MatchInv, PointersInside, OtherChar, InName, Run, Complete
  <1> SUFFICES ASSUME f[pat_star] = str_star PROVE FALSE
    OBVIOUS
  <1>3. f[pat_ptr] = str_ptr
    BY <1>2
  <1>4. CASE pat_ptr = Len(pattern)
    BY <1>2, <1>3, <1>4 DEF Full
  <1>5. CASE pat_ptr # Len(pattern)
    <2>1. pat_ptr \in 0..(Len(pattern) - 1) /\ pat_ptr < Len(pattern)
      BY <1>1, <1>2, <1>5
    <2>2. pattern[pat_ptr + 1] # Star /\ pattern[pat_ptr + 1] # name[str_ptr + 1]
      BY <2>1 DEF OtherChar, Reads
    <2> QED BY <1>1, <1>3, <2>1, <2>2, FullStep
  <1> QED BY <1>4, <1>5

LEMMA MatchStart == MatchInit => MatchInv
  <1> SUFFICES ASSUME MatchInit PROVE MatchInv
    OBVIOUS
  <1>1. MatchTypes
    BY DEF MatchInit, MatchTypes
  <1> QED BY <1>1, TextFacts
          DEF MatchInit, MatchInv, PointersInside, Entry, Run, Sound, Complete, AnswersAsGlob

LEMMA MatchStep == MatchInv /\ [MatchNext]_matchVars => MatchInv'
  <1> SUFFICES ASSUME MatchInv, [MatchNext]_matchVars PROVE MatchInv'
    OBVIOUS
  <1>0. MatchTypes /\ PointersInside /\ Len(pattern) \in Nat /\ Len(name) \in Nat
    BY TextFacts DEF MatchInv
  <1>a. ASSUME NEW b \in BOOLEAN, Answer(b), matching # "done",
               b <=> given /\ (pattern = <<>> \/ Glob)
        PROVE  MatchInv'
    BY <1>0, <1>a DEF Answer, MatchInv, MatchTypes, PointersInside, Entry, Run, Sound,
                      Complete, AnswersAsGlob, Glob, Cuttings, Cuts
  <1>1. CASE Nothing
    BY <1>1, <1>a DEF Nothing
  <1>2. CASE MatchesAll
    <2>1. given /\ (pattern = <<>> \/ Glob)
      <3>1. CASE pattern = <<>>
        BY <1>2, <3>1 DEF MatchesAll
      <3>2. CASE pattern = <<Star>>
        <4> DEFINE f == [n \in 0..1 |-> IF n = 0 THEN 0 ELSE Len(name)]
        <4>1. Len(pattern) = 1 /\ pattern[1] = Star
          BY <3>2
        <4>2. f \in Cuttings /\ f[0] = 0 /\ f[1] = Len(name)
          BY <1>0, <4>1 DEF Cuttings
        <4>3. Cuts(f, 1)
          BY <1>0, <4>1, <4>2 DEF Cuts
        <4> QED BY <1>2, <4>1, <4>2, <4>3 DEF Glob, MatchesAll
      <3> QED BY <1>2, <3>1, <3>2 DEF MatchesAll
    <2> QED BY <1>2, <1>a, <2>1 DEF MatchesAll
  <1>3. CASE BeginMatch
    <2>1. Reach(0, 0)
      <3> DEFINE f == [n \in 0..Len(pattern) |-> 0]
      <3>1. f \in Cuttings /\ Cuts(f, 0) /\ f[0] = 0
        BY <1>0 DEF Cuttings, Cuts
      <3> QED BY <3>1 DEF Reach
    <2>2. /\ matching' = "loop" /\ given /\ pattern # <<>>
          /\ UNCHANGED <<given, pattern, name, str_ptr, pat_ptr, str_star, pat_star, matches>>
          /\ str_ptr = 0 /\ pat_ptr = 0 /\ str_star = 0 /\ pat_star = 0
      BY <1>3 DEF BeginMatch, MatchInv, Entry
    <2>3. \A f : Full(f) => f[0] = 0
      BY DEF Full, Cuts
    <2>4. Sound'
      BY <2>1, <2>2 DEF Sound, Reach, Cuttings, Cuts
    <2>5. Complete'
      BY <2>2, <2>3 DEF Complete, Full, Cuttings, Cuts
    <2> QED BY <1>0, <2>2, <2>4, <2>5
            DEF MatchInv, MatchTypes, PointersInside, Entry, Run, AnswersAsGlob
  <1>b. ASSUME InName, NEW s, NEW p, NEW ss, NEW ps, Move(s, p, ss, ps),
               s \in 0..Len(name), p \in 0..Len(pattern), ss \in 0..s, ps \in 0..p,
               p - ps = s - ss, IF ps = 0 THEN ss = 0 ELSE pattern[ps] = Star,
               Reach(ps, ss), Reach(p, s),
               \A f : Full(f) => f[ps] >= ss /\ f[p] = f[ps] + (p - ps)
        PROVE  MatchInv'
    <2>1. matching = "loop" /\ UNCHANGED <<given, pattern, name, matching, matches>>
          /\ str_ptr' = s /\ pat_ptr' = p /\ str_star' = ss /\ pat_star' = ps
      BY <1>b DEF Move, InName
    <2>2. Sound'
      BY <1>b, <2>1 DEF Sound, Reach, Cuttings, Cuts
    <2>3. Complete'
      BY <1>b, <2>1 DEF Complete, Full, Cuttings, Cuts
    <2> QED BY <1>0, <1>b, <2>1, <2>2, <2>3
            DEF MatchInv, MatchTypes, PointersInside, Entry, Run, AnswersAsGlob
  <1>c. ASSUME InName
        PROVE  /\ str_ptr \in 0..(Len(name) - 1) /\ pat_ptr \in 0..Len(pattern)
               /\ str_star \in 0..str_ptr /\ pat_star \in 0..pat_ptr
               /\ pat_ptr - pat_star = str_ptr - str_star
               /\ IF pat_star = 0 THEN str_star = 0 ELSE pattern[pat_star] = Star
               /\ Reach(pat_star, str_star) /\ Reach(pat_ptr, str_ptr)
    BY <1>0, <1>c DEF InName, MatchInv, PointersInside, Run, Sound
  <1>d. ASSUME InName, NEW f, Full(f)
        PROVE  f[pat_star] >= str_star /\ f[pat_ptr] = f[pat_star] + (pat_ptr - pat_star)
               /\ f[pat_star] \in Nat
    <2>1. f \in Cuttings /\ pat_star \in 0..Len(pattern)
      BY <1>0, <1>c, <1>d DEF Full
    <2>2. f[pat_star] \in Nat
      BY <1>0, <2>1 DEF Cuttings
    <2>3. matching = "loop" /\ Complete
      BY <1>d DEF InName, MatchInv
    <2> QED BY <1>d, <2>2, <2>3 DEF Complete
  <1>4. CASE MeetStar
    <2>1. InName /\ pat_ptr \in 0..(Len(pattern) - 1) /\ pattern[pat_ptr + 1] = Star
          /\ Move(str_ptr, pat_ptr + 1, str_ptr, pat_ptr + 1)
      BY <1>0, <1>4 DEF MeetStar, Reads, PointersInside
    <2>a. /\ pat_ptr + 1 \in 1..Len(pattern) /\ (pat_ptr + 1) - 1 = pat_ptr
          /\ str_ptr \in 0..Len(name) /\ str_ptr \in str_ptr..Len(name)
          /\ pat_ptr + 1 # 0 /\ pat_ptr + 1 \in 0..Len(pattern)
          /\ pat_ptr + 1 \in 0..(pat_ptr + 1) /\ str_ptr \in 0..str_ptr
      BY <1>0, <1>c, <2>1
    <2>2. Reach(pat_ptr + 1, str_ptr)
      BY <1>0, <1>c, <2>1, <2>a, ReachStar
    <2>3. ASSUME NEW f, Full(f) PROVE f[pat_ptr + 1] >= str_ptr /\ f[pat_ptr + 1] \in Nat
      <3>1. f[pat_star] >= str_star /\ f[pat_ptr] = f[pat_star] + (pat_ptr - pat_star)
            /\ f[pat_star] \in Nat
        BY <1>d, <2>1, <2>3
      <3>2. f[pat_ptr] <= f[pat_ptr + 1] /\ f[pat_ptr + 1] \in 0..Len(name)
        BY <1>0, <2>1, <2>3, FullStep
      <3> QED BY <1>0, <1>c, <2>1, <3>1, <3>2
    <2>4. (pat_ptr + 1) - (pat_ptr + 1) = str_ptr - str_ptr
      BY <1>c, <2>1
    <2>5. \A f : Full(f) =>
            f[pat_ptr + 1] >= str_ptr
              /\ f[pat_ptr + 1] = f[pat_ptr + 1] + ((pat_ptr + 1) - (pat_ptr + 1))
      BY <1>c, <2>1, <2>3
    <2> QED BY <1>b, <2>1, <2>a, <2>2, <2>4, <2>5
  <1>5. CASE SameChar
    <2>1. InName /\ pat_ptr \in 0..(Len(pattern) - 1) /\ pattern[pat_ptr + 1] # Star
          /\ pattern[pat_ptr + 1] = name[str_ptr + 1]
          /\ Move(str_ptr + 1, pat_ptr + 1, str_star, pat_star)
      BY <1>0, <1>5 DEF SameChar, Reads, PointersInside
    <2>2. Reach(pat_ptr + 1, str_ptr + 1)
      <3>1. /\ pat_ptr + 1 \in 1..Len(pattern) /\ (pat_ptr + 1) - 1 = pat_ptr
            /\ str_ptr \in 0..(Len(name) - 1)
        BY <1>0, <1>c, <2>1
      <3>2. Reach((pat_ptr + 1) - 1, str_ptr) /\ name[str_ptr + 1] = pattern[pat_ptr + 1]
        BY <1>c, <2>1, <3>1
      <3> QED BY <1>0, <2>1, <3>1, <3>2, ReachChar
    <2>3. ASSUME NEW f, Full(f) PROVE f[pat_ptr + 1] = f[pat_star] + (pat_ptr + 1 - pat_star)
      <3>1. f[pat_star] >= str_star /\ f[pat_ptr] = f[pat_star] + (pat_ptr - pat_star)
            /\ f[pat_star] \in Nat
        BY <1>d, <2>1, <2>3
      <3>2. f[pat_ptr + 1] = f[pat_ptr] + 1
        BY <1>0, <2>1, <2>3, FullStep
      <3> QED BY <1>c, <2>1, <3>1, <3>2
    <2>4. /\ str_ptr + 1 \in 0..Len(name) /\ pat_ptr + 1 \in 0..Len(pattern)
          /\ str_star \in 0..(str_ptr + 1) /\ pat_star \in 0..(pat_ptr + 1)
          /\ (pat_ptr + 1) - pat_star = (str_ptr + 1) - str_star
      BY <1>0, <1>c, <2>1
    <2>5. \A f : Full(f) => f[pat_star] >= str_star
                            /\ f[pat_ptr + 1] = f[pat_star] + (pat_ptr + 1 - pat_star)
      BY <1>d, <2>1, <2>3
    <2>6. Reach(pat_star, str_star) /\ IF pat_star = 0 THEN str_star = 0 ELSE pattern[pat_star] = Star
      BY <1>c, <2>1
    <2> QED BY <1>b, <2>1, <2>2, <2>4, <2>5, <2>6
  <1>6. CASE Backtrack
    <2>1. OtherChar /\ InName /\ pat_star # 0
          /\ Move(str_star + 1, pat_star, str_star + 1, pat_star)
      BY <1>6 DEF Backtrack, OtherChar
    <2>2. Reach(pat_star, str_star + 1)
      BY <1>0, <1>c, <2>1, ReachMore
    <2>3. ASSUME NEW f, Full(f) PROVE f[pat_star] >= str_star + 1 /\ f[pat_star] \in Nat
      BY <1>0, <1>c, <1>d, <2>1, <2>3, NotHere
    <2>4. /\ str_star + 1 \in 0..Len(name) /\ pat_star \in 0..Len(pattern)
          /\ str_star + 1 \in 0..(str_star + 1) /\ pat_star \in 0..pat_star
          /\ pat_star - pat_star = (str_star + 1) - (str_star + 1)
          /\ pattern[pat_star] = Star
      BY <1>0, <1>c, <2>1
    <2>5. Reach(pat_star, str_star + 1) /\ \A f : Full(f) =>
            f[pat_star] >= str_star + 1 /\ f[pat_star] = f[pat_star] + (pat_star - pat_star)
      BY <1>c, <2>1, <2>2, <2>3
    <2> QED BY <1>b, <2>1, <2>4, <2>5
  <1>7. CASE Mismatch
    <2>1. ~ Glob
      <3> SUFFICES ASSUME NEW f, Full(f) PROVE FALSE
        BY DEF Glob, Full
      <3>1. f[pat_star] = str_star
        BY <1>7, <1>0 DEF Mismatch, OtherChar, InName, MatchInv, Run, Full, Cuts
      <3> QED BY <1>7, <3>1, NotHere DEF Mismatch
    <2> QED BY <1>7, <1>a, <2>1 DEF Mismatch, OtherChar, InName, MatchInv, Entry
  <1>8. CASE NameEnds
    <2>1. /\ matching = "loop" /\ matching' = "tail" /\ str_ptr = Len(name)
          /\ UNCHANGED <<given, pattern, name, str_ptr, pat_ptr, str_star, pat_star, matches>>
      BY <1>8 DEF NameEnds
    <2>2. Reach(pat_ptr, Len(name))
      BY <2>1 DEF MatchInv, Sound
    <2>3. ASSUME NEW f, Full(f) PROVE f[pat_ptr] = Len(name)
      <3>1. f[pat_ptr] \in 0..Len(name) /\ f[pat_star] \in Nat
        BY <1>0, <2>3 DEF Full, Cuttings, PointersInside
      <3>2. f[pat_star] >= str_star /\ f[pat_ptr] = f[pat_star] + (pat_ptr - pat_star)
            /\ pat_ptr - pat_star = str_ptr - str_star
        BY <2>1, <2>3 DEF MatchInv, Complete, Run
      <3> QED BY <1>0, <2>1, <3>1, <3>2 DEF PointersInside
    <2>4. Sound' /\ Complete'
      BY <2>1, <2>2, <2>3 DEF Sound, Complete, Reach, Full, Cuttings, Cuts
    <2> QED BY <1>0, <2>1, <2>4
            DEF MatchInv, MatchTypes, PointersInside, Entry, Run, AnswersAsGlob
  <1>9. CASE SkipStar
    <2>1. /\ matching = "tail" /\ pat_ptr \in 0..(Len(pattern) - 1)
          /\ pattern[pat_ptr + 1] = Star /\ pat_ptr' = pat_ptr + 1
          /\ UNCHANGED <<given, pattern, name, matching, matches, str_ptr, str_star, pat_star>>
      BY <1>0, <1>9 DEF SkipStar, Reads, Move, PointersInside
    <2>2. Reach(pat_ptr + 1, Len(name))
      BY <1>0, <2>1, ReachStar DEF MatchInv, Sound
    <2>3. ASSUME NEW f, Full(f) PROVE f[pat_ptr + 1] = Len(name)
      <3>1. f[pat_ptr] = Len(name)
        BY <2>1, <2>3 DEF MatchInv, Complete
      <3> QED BY <1>0, <2>1, <2>3, <3>1, FullStep
    <2>4. Sound' /\ Complete'
      BY <2>1, <2>2, <2>3 DEF Sound, Complete, Reach, Full, Cuttings, Cuts
    <2>5. PointersInside'
      BY <1>0, <2>1 DEF PointersInside
    <2> QED BY <1>0, <2>1, <2>4, <2>5
            DEF MatchInv, MatchTypes, Entry, Run, AnswersAsGlob
  <1>10. CASE Conclude
    <2>1. CASE pat_ptr = Len(pattern)
      <3>1. Glob
        BY <1>10, <2>1 DEF Conclude, MatchInv, Sound, Reach, Glob
      <3> QED BY <1>10, <1>a, <2>1, <3>1 DEF Conclude, MatchInv, Entry
    <2>2. CASE pat_ptr # Len(pattern)
      <3>1. ~ Glob
        <4> SUFFICES ASSUME NEW f, Full(f) PROVE FALSE
          BY DEF Glob, Full
        <4>1. pat_ptr \in 0..(Len(pattern) - 1) /\ pat_ptr < Len(pattern)
          BY <1>0, <2>2 DEF PointersInside
        <4>2. f[pat_ptr] = Len(name) /\ pattern[pat_ptr + 1] # Star
          BY <1>10, <4>1 DEF Conclude, Reads, MatchInv, Complete
        <4> QED BY <1>0, <4>1, <4>2, FullStep
      <3> QED BY <1>10, <1>a, <2>2, <3>1 DEF Conclude, MatchInv, Entry
    <2> QED BY <2>1, <2>2
  <1>11. CASE UNCHANGED matchVars
    BY <1>11 DEF matchVars, MatchInv, MatchTypes, PointersInside, Entry, Run, Sound, Complete,
                 AnswersAsGlob, Glob, Cuttings, Cuts, Reach, Full
  <1> QED BY <1>1, <1>2, <1>3, <1>4, <1>5, <1>6, <1>7, <1>8, <1>9, <1>10, <1>11 DEF MatchNext

LEMMA MatchAlways == MatchSpec => []MatchInv
  BY MatchStart, MatchStep, PTL DEF MatchSpec

\* match_wildcard reads neither string behind its end, whatever the two are.
THEOREM MatchInside == MatchSpec => []PointersInside
  BY MatchAlways, PTL DEF MatchInv

\* match_wildcard answers for every pattern and every name as the glob does.
THEOREM MatchRight == MatchSpec => []AnswersAsGlob
  BY MatchAlways, PTL DEF MatchInv

\* The search gets on: the last star met moves on in the pattern, or what it stands
\* for grows, or the place reached in the pattern moves on; or a loop is left for good.
\* No place is passed twice with the same star, so match_wildcard ends.
MatchAdvances ==
  \/ matching' = "done" /\ matching # "done"
  \/ matching = "entry" /\ matching' = "loop"
  \/ matching = "loop" /\ matching' = "tail"
  \/ matching = "tail" /\ matching' = "tail" /\ pat_ptr' > pat_ptr
  \/ /\ matching = "loop" /\ matching' = "loop"
     /\ \/ pat_star' > pat_star
        \/ pat_star' = pat_star /\ str_star' > str_star
        \/ pat_star' = pat_star /\ str_star' = str_star /\ pat_ptr' > pat_ptr

THEOREM MatchGetsOn == MatchSpec => [][MatchAdvances]_matchVars
<1>1. ASSUME MatchInv, MatchNext
      PROVE  MatchAdvances
  <2>1. str_ptr \in Nat /\ pat_ptr \in Nat /\ str_star \in Nat /\ pat_star \in 0..pat_ptr
    BY <1>1, TextFacts DEF MatchInv, PointersInside
  <2>2. CASE Nothing \/ MatchesAll \/ Mismatch \/ Conclude
    BY <2>2 DEF Nothing, MatchesAll, Mismatch, Conclude, OtherChar, InName, Answer, MatchAdvances
  <2>3. CASE BeginMatch \/ NameEnds
    BY <2>3 DEF BeginMatch, NameEnds, MatchAdvances
  <2>4. CASE MeetStar
    BY <2>1, <2>4 DEF MeetStar, InName, Move, MatchAdvances
  <2>5. CASE SameChar
    BY <2>1, <2>5 DEF SameChar, InName, Move, MatchAdvances
  <2>6. CASE Backtrack
    BY <2>1, <2>6 DEF Backtrack, OtherChar, InName, Move, MatchAdvances
  <2>7. CASE SkipStar
    BY <2>1, <2>7 DEF SkipStar, Move, MatchAdvances
  <2>8. QED
    BY <1>1, <2>2, <2>3, <2>4, <2>5, <2>6, <2>7 DEF MatchNext
<1>2. MatchInv /\ [MatchNext]_matchVars => [MatchAdvances]_matchVars
  BY <1>1
<1>3. QED
  BY <1>2, MatchAlways, PTL DEF MatchSpec

-----------------------------------------------------------------------------
(* The terminal interface: what is said of one view, of all, and the rest. *)

Fits(v, p) ==
  /\ v.current_line <= p /\ Len(v.buffer) <= Capacity
  /\ v.scroll <= Max({0, Below(v)})

ViewsOK(vs, p) ==
  /\ vs \in Seq(View) /\ Len(vs) <= MaxViews
  /\ \A k, l \in DOMAIN vs : k # l => vs[k].thread # vs[l].thread
  /\ \A k \in DOMAIN vs : Fits(vs[k], p)

ServerOK ==
  /\ at \in {"setup", "accept", "keys", "receive", "lines", "ended"}
  /\ running \in BOOLEAN /\ open \in BOOLEAN
  /\ sent \in Seq(Events) /\ Len(sent) <= MaxEvents
  /\ parsed \in 0..Len(sent) /\ pending \in Nat /\ buffer_pos \in 0..Size

UiOK ==
  /\ update_counter \in 0..parsed /\ ViewsOK(views, parsed)
  /\ active \in Nat \ {0} /\ (active = 1 \/ active \in DOMAIN views \/ at = "ended")

TuiInv == ServerOK /\ UiOK

\* The greater and the lesser of two integers.
LEMMA MaxOfTwo == \A m, n \in Int : Max({m, n}) = IF m >= n THEN m ELSE n
<1> SUFFICES ASSUME NEW m \in Int, NEW n \in Int PROVE Max({m, n}) = IF m >= n THEN m ELSE n
  OBVIOUS
<1> DEFINE x == IF m >= n THEN m ELSE n
<1>1. x \in {m, n} /\ \A y \in {m, n} : x >= y
  OBVIOUS
<1>2. \A z \in {m, n} : (\A y \in {m, n} : z >= y) => z = x
  OBVIOUS
<1>3. QED
  BY <1>1, <1>2 DEF Max

LEMMA MinOfTwo == \A m, n \in Int : Min({m, n}) = IF m <= n THEN m ELSE n
<1> SUFFICES ASSUME NEW m \in Int, NEW n \in Int PROVE Min({m, n}) = IF m <= n THEN m ELSE n
  OBVIOUS
<1> DEFINE x == IF m <= n THEN m ELSE n
<1>1. x \in {m, n} /\ \A y \in {m, n} : x <= y
  OBVIOUS
<1>2. \A z \in {m, n} : (\A y \in {m, n} : z <= y) => z = x
  OBVIOUS
<1>3. QED
  BY <1>1, <1>2 DEF Min

\* The greatest member of a singleton.
LEMMA MaxOfOne == \A m \in Int : Max({m}) = m
BY DEF Max

\* How far a view can be scrolled, without Max.
LEMMA Scrolls ==
  ASSUME NEW v \in View
  PROVE  /\ Len(v.buffer) \in Nat /\ Rows \in Nat \ {0} /\ Capacity \in Nat /\ Rows <= Capacity
         /\ Below(v) = Len(v.buffer) - Rows /\ Below(v) \in Int
         /\ v.scroll \in Nat
         /\ v.scroll <= Max({0, Below(v)}) <=> v.scroll <= 0 \/ v.scroll <= Below(v)
<1>1. v.buffer \in Seq(1..MaxEvents) /\ v.scroll \in 0..Capacity
  BY DEF View
<1>2. Len(v.buffer) \in Nat
  BY <1>1
<1>3. Rows \in Nat \ {0} /\ Capacity \in Nat /\ Rows <= Capacity
  BY TuiAssumption
<1>4. Below(v) = Len(v.buffer) - Rows /\ Below(v) \in Int
  BY <1>2, <1>3 DEF Below
<1>5. Max({0, Below(v)}) = IF 0 >= Below(v) THEN 0 ELSE Below(v)
  BY <1>4, MaxOfTwo
<1>6. v.scroll \in Nat
  BY <1>1, <1>3
<1> HIDE DEF Below
<1>7. QED
  BY <1>2, <1>3, <1>4, <1>5, <1>6

\* A sequence without its first element.
LEMMA Shorter ==
  ASSUME NEW S, NEW q \in Seq(S), q # <<>>
  PROVE  Tail(q) \in Seq(S) /\ Len(Tail(q)) = Len(q) - 1
OBVIOUS

\* A view with its parts changed.
LEMMA Changed ==
  ASSUME NEW v \in View, NEW b, NEW s, NEW d
  PROVE  /\ [[v EXCEPT !.buffer = b] EXCEPT !.current_line = v.current_line + 1] =
              [thread |-> v.thread, buffer |-> b, scroll |-> v.scroll,
               current_line |-> v.current_line + 1, staged |-> v.staged]
         /\ [v EXCEPT !.scroll = s] =
              [thread |-> v.thread, buffer |-> v.buffer, scroll |-> s,
               current_line |-> v.current_line, staged |-> v.staged]
         /\ [v EXCEPT !.staged = d] =
              [thread |-> v.thread, buffer |-> v.buffer, scroll |-> v.scroll,
               current_line |-> v.current_line, staged |-> d]
<1>1. v = [thread |-> v.thread, buffer |-> v.buffer, scroll |-> v.scroll,
           current_line |-> v.current_line, staged |-> v.staged]
  BY DEF View
<1> DEFINE w == [thread |-> v.thread, buffer |-> b, scroll |-> v.scroll,
                 current_line |-> v.current_line, staged |-> v.staged]
<1>2. [v EXCEPT !.scroll = s] =
        [thread |-> v.thread, buffer |-> v.buffer, scroll |-> s,
         current_line |-> v.current_line, staged |-> v.staged]
  BY <1>1
<1>3. [v EXCEPT !.staged = d] =
        [thread |-> v.thread, buffer |-> v.buffer, scroll |-> v.scroll,
         current_line |-> v.current_line, staged |-> d]
  BY <1>1
<1>4. [v EXCEPT !.buffer = b] = w
  BY <1>1
<1>5. [w EXCEPT !.current_line = v.current_line + 1] =
        [thread |-> v.thread, buffer |-> b, scroll |-> v.scroll,
         current_line |-> v.current_line + 1, staged |-> v.staged]
  OBVIOUS
<1> HIDE DEF w
<1>6. QED
  BY <1>2, <1>3, <1>4, <1>5

\* The parts of a view.
LEMMA ViewParts ==
  ASSUME NEW h, NEW b, NEW s, NEW c, NEW d
  PROVE  [thread |-> h, buffer |-> b, scroll |-> s, current_line |-> c, staged |-> d] \in View
         <=> /\ h \in Traced /\ b \in Seq(1..MaxEvents) /\ s \in 0..Capacity
             /\ c \in 0..MaxEvents /\ d \in 0..MaxEvents
BY DEF View

\* What is kept of a buffer to which a line is added.
Kept(b) == IF Len(b) >= Capacity THEN Tail(b) ELSE b

\* The parts of a view to which a line is added.
LEMMA RecordParts ==
  ASSUME NEW v \in View, NEW n \in 1..MaxEvents, v.current_line + 1 <= MaxEvents
  PROVE  /\ Record(v, n) =
              [thread |-> Record(v, n).thread, buffer |-> Record(v, n).buffer,
               scroll |-> Record(v, n).scroll, current_line |-> Record(v, n).current_line,
               staged |-> Record(v, n).staged]
         /\ Kept(v.buffer) \in Seq(1..MaxEvents) /\ Len(Kept(v.buffer)) \in Nat
         /\ Len(Kept(v.buffer)) = IF Len(v.buffer) >= Capacity THEN Len(v.buffer) - 1 ELSE Len(v.buffer)
         /\ Record(v, n).thread = v.thread
         /\ Record(v, n).buffer = Append(Kept(v.buffer), n)
         /\ Record(v, n).current_line = v.current_line + 1
         /\ Record(v, n).staged = v.staged
         /\ Record(v, n).scroll =
              IF v.scroll >= Len(v.buffer) - Rows /\ Len(Kept(v.buffer)) + 1 - Rows > 0
              THEN Len(Kept(v.buffer)) + 1 - Rows ELSE v.scroll
<1> DEFINE kept == Kept(v.buffer)
           w == [v EXCEPT !.buffer = Append(kept, n), !.current_line = @ + 1]
           s == IF Follows(v) /\ Below(w) > 0 THEN Below(w) ELSE w.scroll
           r == [w EXCEPT !.scroll = s]
<1>1. /\ v.buffer \in Seq(1..MaxEvents) /\ v.current_line \in 0..MaxEvents /\ v.scroll \in 0..Capacity
      /\ v.thread \in Traced /\ v.staged \in 0..MaxEvents /\ MaxEvents \in Nat
      /\ Capacity \in Nat \ {0} /\ Len(v.buffer) \in Nat
  BY TuiAssumption DEF View
<1>2. /\ kept \in Seq(1..MaxEvents) /\ Len(kept) \in Nat
      /\ Len(kept) = IF Len(v.buffer) >= Capacity THEN Len(v.buffer) - 1 ELSE Len(v.buffer)
  <2>1. CASE Len(v.buffer) >= Capacity
    <3>1. v.buffer # <<>>
      BY <2>1, <1>1
    <3>2. kept \in Seq(1..MaxEvents) /\ Len(kept) = Len(v.buffer) - 1
      BY <2>1, <3>1, <1>1, Shorter DEF Kept
    <3>3. Len(v.buffer) - 1 \in Nat
      BY <2>1, <1>1
    <3>4. QED
      BY <2>1, <3>2, <3>3
  <2>2. CASE ~ (Len(v.buffer) >= Capacity)
    BY <2>2, <1>1 DEF Kept
  <2>3. QED
    BY <2>1, <2>2
<1> HIDE DEF kept
<1>3. Append(kept, n) \in Seq(1..MaxEvents) /\ Len(Append(kept, n)) = Len(kept) + 1
  BY <1>2
<1>4. w = [thread |-> v.thread, buffer |-> Append(kept, n), scroll |-> v.scroll,
           current_line |-> v.current_line + 1, staged |-> v.staged]
  BY Changed
<1>5. w \in View
  <2>1. v.current_line + 1 \in 0..MaxEvents
    BY <1>1
  <2>2. [thread |-> v.thread, buffer |-> Append(kept, n), scroll |-> v.scroll,
         current_line |-> v.current_line + 1, staged |-> v.staged] \in View
    BY <2>1, <1>1, <1>3, ViewParts
  <2>3. QED
    BY <2>2, <1>4
<1>6. /\ w.buffer = Append(kept, n) /\ w.scroll = v.scroll /\ w.thread = v.thread
      /\ w.current_line = v.current_line + 1 /\ w.staged = v.staged
  BY <1>4
<1> HIDE DEF w
<1>7. Below(w) = Len(kept) + 1 - Rows
  <2>1. Below(w) = Len(Append(kept, n)) - Rows
    BY <1>6 DEF Below
  <2>2. Below(w) = (Len(kept) + 1) - Rows
    BY <1>3, <2>1, Zenon
  <2>3. Len(kept) \in Nat /\ Rows \in Nat
    BY <1>2, TuiAssumption
  <2>4. QED
    BY <2>2, <2>3
<1>8. Follows(v) <=> v.scroll >= Len(v.buffer) - Rows
  BY DEF Follows, Below
<1>9. r = [thread |-> w.thread, buffer |-> w.buffer, scroll |-> s,
           current_line |-> w.current_line, staged |-> w.staged]
  <2> HIDE DEF s
  <2>1. QED
    BY <1>5, Changed
<1>10. Record(v, n) = r
  BY DEF Record, Kept, kept, r, s, w
<1>11. s = IF v.scroll >= Len(v.buffer) - Rows /\ Len(kept) + 1 - Rows > 0
           THEN Len(kept) + 1 - Rows ELSE v.scroll
  BY <1>6, <1>7, <1>8 DEF s
<1> HIDE DEF s, r
<1>12. /\ r.thread = w.thread /\ r.buffer = w.buffer /\ r.scroll = s
       /\ r.current_line = w.current_line /\ r.staged = w.staged
  BY <1>9
<1>13. r = [thread |-> r.thread, buffer |-> r.buffer, scroll |-> r.scroll,
            current_line |-> r.current_line, staged |-> r.staged]
  BY <1>9, <1>12
<1>14. QED
  BY <1>2, <1>6, <1>10, <1>11, <1>12, <1>13 DEF kept

\* A line more: the view keeps its type, and to its buffer and its lines.
LEMMA RecordFits ==
  ASSUME NEW v \in View, NEW p \in Nat, Fits(v, p), p + 1 <= MaxEvents
  PROVE  /\ Record(v, p + 1) \in View /\ Fits(Record(v, p + 1), p + 1)
         /\ Record(v, p + 1).thread = v.thread
<1> DEFINE kept == Kept(v.buffer)
           r == Record(v, p + 1)
<1>1. /\ Len(v.buffer) \in Nat /\ Rows \in Nat \ {0} /\ Capacity \in Nat \ {0} /\ Rows <= Capacity
      /\ Below(v) = Len(v.buffer) - Rows /\ v.scroll \in Nat
      /\ v.scroll <= 0 \/ v.scroll <= Below(v)
  BY Scrolls, TuiAssumption DEF Fits
<1>2. /\ v.buffer \in Seq(1..MaxEvents) /\ Len(v.buffer) <= Capacity
      /\ v.current_line \in 0..MaxEvents /\ v.current_line <= p /\ v.scroll \in 0..Capacity
      /\ v.thread \in Traced /\ v.staged \in 0..MaxEvents /\ MaxEvents \in Nat
  BY TuiAssumption DEF View, Fits
<1>3. p + 1 \in 1..MaxEvents /\ v.current_line + 1 <= MaxEvents /\ v.current_line + 1 <= p + 1
      /\ v.current_line + 1 \in 0..MaxEvents
  BY <1>2
<1>4. /\ r = [thread |-> r.thread, buffer |-> r.buffer, scroll |-> r.scroll,
              current_line |-> r.current_line, staged |-> r.staged]
      /\ kept \in Seq(1..MaxEvents) /\ Len(kept) \in Nat
      /\ Len(kept) = IF Len(v.buffer) >= Capacity THEN Len(v.buffer) - 1 ELSE Len(v.buffer)
      /\ r.thread = v.thread /\ r.buffer = Append(kept, p + 1)
      /\ r.current_line = v.current_line + 1 /\ r.staged = v.staged
      /\ r.scroll = IF v.scroll >= Len(v.buffer) - Rows /\ Len(kept) + 1 - Rows > 0
                    THEN Len(kept) + 1 - Rows ELSE v.scroll
  BY <1>3, RecordParts
<1> HIDE DEF r, kept
<1>5. r.buffer \in Seq(1..MaxEvents) /\ Len(r.buffer) = Len(kept) + 1
  <2>1. Append(kept, p + 1) \in Seq(1..MaxEvents) /\ Len(Append(kept, p + 1)) = Len(kept) + 1
    BY <1>3, <1>4
  <2>2. QED
    BY <1>4, <2>1
<1>6. Len(kept) + 1 <= Capacity /\ Len(kept) + 1 >= Len(v.buffer)
  BY <1>1, <1>2, <1>4
<1>7. r.scroll \in 0..Capacity /\ (r.scroll <= 0 \/ r.scroll <= (Len(kept) + 1) - Rows)
  <2>1. CASE v.scroll >= Len(v.buffer) - Rows /\ Len(kept) + 1 - Rows > 0
    <3>1. r.scroll = Len(kept) + 1 - Rows
      BY <2>1, <1>4
    <3>2. \A m \in Nat : m + 1 <= Capacity /\ m + 1 - Rows > 0
            => m + 1 - Rows \in 0..Capacity /\ m + 1 - Rows <= (m + 1) - Rows
      BY <1>1
    <3>3. QED
      BY <2>1, <3>1, <3>2, <1>4, <1>6
  <2>2. CASE ~ (v.scroll >= Len(v.buffer) - Rows /\ Len(kept) + 1 - Rows > 0)
    <3>1. r.scroll = v.scroll
      BY <2>2, <1>4
    <3>2. v.scroll <= 0 \/ v.scroll <= (Len(kept) + 1) - Rows
      BY <1>1, <1>4, <1>6
    <3>3. QED
      BY <3>1, <3>2, <1>2
  <2>3. QED
    BY <2>1, <2>2
<1>8. r \in View
  <2>1. [thread |-> r.thread, buffer |-> r.buffer, scroll |-> r.scroll,
         current_line |-> r.current_line, staged |-> r.staged] \in View
    <3>1. /\ r.thread \in Traced /\ r.scroll \in 0..Capacity
          /\ r.current_line \in 0..MaxEvents /\ r.staged \in 0..MaxEvents
      BY <1>2, <1>3, <1>4, <1>7
    <3>2. QED
      BY <1>5, <3>1, ViewParts
  <2>2. QED
    BY <1>4, <2>1
<1>9. Fits(r, p + 1)
  <2>1. Below(r) = (Len(kept) + 1) - Rows
    BY <1>5 DEF Below
  <2>2. r.scroll <= Max({0, Below(r)})
    BY <1>7, <1>8, <2>1, Scrolls
  <2>3. r.current_line <= p + 1 /\ Len(r.buffer) <= Capacity
    BY <1>3, <1>4, <1>5, <1>6
  <2>4. QED
    BY <2>2, <2>3 DEF Fits
<1>10. QED
  BY <1>4, <1>8, <1>9 DEF r

\* A view that is drawn.
LEMMA DrawnFits ==
  ASSUME NEW v \in View, NEW p \in Nat, Fits(v, p)
  PROVE  /\ [v EXCEPT !.staged = v.current_line] \in View
         /\ Fits([v EXCEPT !.staged = v.current_line], p)
         /\ [v EXCEPT !.staged = v.current_line].thread = v.thread
<1> DEFINE w == [v EXCEPT !.staged = v.current_line]
<1>1. w = [thread |-> v.thread, buffer |-> v.buffer, scroll |-> v.scroll,
           current_line |-> v.current_line, staged |-> v.current_line]
  BY Changed
<1>2. /\ v.thread \in Traced /\ v.buffer \in Seq(1..MaxEvents) /\ v.scroll \in 0..Capacity
      /\ v.current_line \in 0..MaxEvents
  BY DEF View
<1>3. w \in View
  BY <1>1, <1>2, ViewParts
<1>4. /\ w.buffer = v.buffer /\ w.scroll = v.scroll /\ w.thread = v.thread
      /\ w.current_line = v.current_line
  BY <1>1
<1> HIDE DEF w
<1>5. Below(w) = Below(v)
  BY <1>4 DEF Below
<1>6. Fits(w, p)
  BY <1>4, <1>5 DEF Fits
<1>7. QED
  BY <1>3, <1>4, <1>6 DEF w

\* A view that is scrolled within its lines.
LEMMA ScrolledFits ==
  ASSUME NEW v \in View, NEW p \in Nat, Fits(v, p),
         NEW s \in Nat, s <= 0 \/ s <= Below(v)
  PROVE  /\ [v EXCEPT !.scroll = s] \in View
         /\ Fits([v EXCEPT !.scroll = s], p)
         /\ [v EXCEPT !.scroll = s].thread = v.thread
<1> DEFINE w == [v EXCEPT !.scroll = s]
<1>1. w = [thread |-> v.thread, buffer |-> v.buffer, scroll |-> s,
           current_line |-> v.current_line, staged |-> v.staged]
  BY Changed
<1>2. /\ v.thread \in Traced /\ v.buffer \in Seq(1..MaxEvents)
      /\ v.current_line \in 0..MaxEvents /\ v.staged \in 0..MaxEvents
  BY DEF View
<1>3. s \in 0..Capacity
  <2>1. Len(v.buffer) <= Capacity
    BY DEF Fits
  <2>2. /\ Len(v.buffer) \in Nat /\ Rows \in Nat \ {0} /\ Capacity \in Nat
        /\ Below(v) = Len(v.buffer) - Rows
    BY Scrolls
  <2>3. QED
    BY <2>1, <2>2
<1>4. w \in View
  BY <1>1, <1>2, <1>3, ViewParts
<1>5. /\ w.buffer = v.buffer /\ w.scroll = s /\ w.thread = v.thread
      /\ w.current_line = v.current_line
  BY <1>1
<1> HIDE DEF w
<1>6. Below(w) = Below(v)
  BY <1>5 DEF Below
<1>7. w.scroll <= Max({0, Below(w)})
  BY <1>4, <1>5, <1>6, Scrolls
<1>8. Fits(w, p)
  BY <1>5, <1>7 DEF Fits
<1>9. QED
  BY <1>4, <1>5, <1>8 DEF w

\* All views are drawn.
LEMMA RedrawKeeps ==
  ASSUME NEW vs, NEW p \in Nat, ViewsOK(vs, p)
  PROVE  ViewsOK(RedrawAll(vs), p) /\ DOMAIN RedrawAll(vs) = DOMAIN vs
<1> DEFINE ws == RedrawAll(vs)
<1>1. vs \in Seq(View) /\ Len(vs) \in Nat /\ DOMAIN vs = 1..Len(vs)
  BY DEF ViewsOK
<1>2. \A k \in DOMAIN vs : ws[k] = [vs[k] EXCEPT !.staged = vs[k].current_line]
  BY DEF RedrawAll
<1>3. DOMAIN ws = DOMAIN vs
  BY DEF RedrawAll
<1>4. ASSUME NEW k \in DOMAIN vs
      PROVE  ws[k] \in View /\ Fits(ws[k], p) /\ ws[k].thread = vs[k].thread
  <2>1. vs[k] \in View /\ Fits(vs[k], p)
    BY <1>1 DEF ViewsOK
  <2>2. QED
    BY <1>2, <2>1, DrawnFits
<1>5. ws \in [1..Len(vs) -> View]
  <2>1. ws = [k \in 1..Len(vs) |-> ws[k]]
    BY <1>1 DEF RedrawAll
  <2> HIDE DEF ws
  <2>2. QED
    BY <2>1, <1>1, <1>4
<1> HIDE DEF ws
<1>6. ws \in Seq(View) /\ Len(ws) = Len(vs)
  BY <1>1, <1>5
<1>7. ViewsOK(ws, p)
  BY <1>3, <1>4, <1>6 DEF ViewsOK
<1>8. QED
  BY <1>3, <1>7 DEF ws

\* A view is replaced by another of its thread.
LEMMA ReplacedKeeps ==
  ASSUME NEW vs, NEW p \in Nat, ViewsOK(vs, p), NEW k \in DOMAIN vs,
         NEW v \in View, Fits(v, p), v.thread = vs[k].thread
  PROVE  /\ ViewsOK([vs EXCEPT ![k] = v], p)
         /\ DOMAIN [vs EXCEPT ![k] = v] = DOMAIN vs
<1> DEFINE ws == [vs EXCEPT ![k] = v]
<1>1. vs \in Seq(View) /\ Len(vs) \in Nat /\ DOMAIN vs = 1..Len(vs)
  BY DEF ViewsOK
<1>2. ws \in [1..Len(vs) -> View]
  BY <1>1
<1>3. DOMAIN ws = DOMAIN vs /\ ws[k] = v /\ \A l \in DOMAIN vs : l # k => ws[l] = vs[l]
  BY <1>1
<1> HIDE DEF ws
<1>4. ws \in Seq(View) /\ Len(ws) = Len(vs)
  BY <1>1, <1>2
<1>5. \A l \in DOMAIN vs : Fits(ws[l], p) /\ ws[l].thread = vs[l].thread
  BY <1>3 DEF ViewsOK
<1>6. ViewsOK(ws, p)
  BY <1>3, <1>4, <1>5 DEF ViewsOK
<1>7. QED
  BY <1>3, <1>6 DEF ws

\* Views that fit go on fitting as more is parsed.
LEMMA ViewsLater ==
  ASSUME NEW vs, NEW p \in Nat, ViewsOK(vs, p)
  PROVE  ViewsOK(vs, p + 1)
<1>1. ASSUME NEW k \in DOMAIN vs PROVE Fits(vs[k], p + 1)
  <2>1. vs[k] \in View
    BY DEF ViewsOK
  <2>2. vs[k].current_line \in Nat
    BY <2>1, TuiAssumption DEF View
  <2>3. Fits(vs[k], p)
    BY DEF ViewsOK
  <2>4. vs[k].current_line <= p /\ Len(vs[k].buffer) <= Capacity
        /\ vs[k].scroll <= Max({0, Below(vs[k])})
    BY <2>3 DEF Fits
  <2>5. vs[k].current_line <= p + 1
    BY <2>2, <2>4
  <2>6. QED
    BY <2>4, <2>5 DEF Fits
<1>2. QED
  BY <1>1 DEF ViewsOK

\* A view is opened for a thread that has none.
LEMMA OpenedKeeps ==
  ASSUME NEW vs, NEW p \in Nat, ViewsOK(vs, p), NEW t \in Traced,
         ViewOf(vs, t) = {}, Len(vs) < MaxViews
  PROVE  ViewsOK(Opened(vs, t), p) /\ DOMAIN vs \subseteq DOMAIN Opened(vs, t)
<1> DEFINE v == [thread |-> t, buffer |-> <<>>, scroll |-> 0, current_line |-> 0, staged |-> 0]
           ws == Append(vs, v)
<1>1. vs \in Seq(View) /\ Len(vs) \in Nat /\ DOMAIN vs = 1..Len(vs)
  BY DEF ViewsOK
<1>2. v \in View
  <2>1. 0 \in 0..Capacity /\ 0 \in 0..MaxEvents
    BY TuiAssumption
  <2>2. <<>> \in Seq(1..MaxEvents)
    OBVIOUS
  <2>3. QED
    BY <2>1, <2>2, ViewParts
<1>3. v.thread = t /\ v.buffer = <<>> /\ v.current_line = 0 /\ v.scroll = 0
  OBVIOUS
<1> HIDE DEF v
<1>4. Fits(v, p)
  <2>1. Len(v.buffer) = 0 /\ Capacity \in Nat
    BY <1>3, TuiAssumption
  <2>2. v.scroll <= Max({0, Below(v)})
    BY <1>2, <1>3, Scrolls
  <2>3. v.current_line <= p /\ Len(v.buffer) <= Capacity
    BY <1>3, <2>1
  <2>4. QED
    BY <2>2, <2>3 DEF Fits
<1>5. /\ ws \in Seq(View) /\ Len(ws) = Len(vs) + 1 /\ DOMAIN ws = 1..(Len(vs) + 1)
      /\ ws[Len(vs) + 1] = v /\ \A k \in 1..Len(vs) : ws[k] = vs[k]
  BY <1>1, <1>2
<1> HIDE DEF ws
<1>6. \A k \in DOMAIN vs : vs[k].thread # t
  BY DEF ViewOf
<1>7. Len(ws) <= MaxViews
  BY <1>1, <1>5, TuiAssumption
<1>8. \A k \in DOMAIN ws : k \in DOMAIN vs \/ k = Len(vs) + 1
  BY <1>1, <1>5
<1>9. \A k, l \in DOMAIN ws : k # l => ws[k].thread # ws[l].thread
  BY <1>1, <1>3, <1>5, <1>6, <1>8 DEF ViewsOK
<1>10. \A k \in DOMAIN ws : Fits(ws[k], p)
  BY <1>1, <1>4, <1>5, <1>8 DEF ViewsOK
<1>11. ViewsOK(ws, p)
  BY <1>5, <1>7, <1>9, <1>10 DEF ViewsOK
<1>12. Opened(vs, t) = RedrawAll(ws)
  BY DEF Opened, ws, v
<1>13. QED
  BY <1>1, <1>5, <1>8, <1>11, <1>12, RedrawKeeps

\* A view is scrolled, and all are drawn.
LEMMA ScrollToKeeps ==
  ASSUME NEW vs, NEW p \in Nat, ViewsOK(vs, p), NEW a \in DOMAIN vs,
         NEW s \in Nat, s <= 0 \/ s <= Below(vs[a])
  PROVE  /\ ViewsOK(RedrawAll([vs EXCEPT ![a].scroll = s]), p)
         /\ DOMAIN RedrawAll([vs EXCEPT ![a].scroll = s]) = DOMAIN vs
<1>1. vs[a] \in View /\ Fits(vs[a], p)
  BY DEF ViewsOK
<1> DEFINE v == [vs[a] EXCEPT !.scroll = s]
<1>2. v \in View /\ Fits(v, p) /\ v.thread = vs[a].thread
  BY <1>1, ScrolledFits
<1>3. [vs EXCEPT ![a].scroll = s] = [vs EXCEPT ![a] = v]
  OBVIOUS
<1> HIDE DEF v
<1>4. ViewsOK([vs EXCEPT ![a] = v], p) /\ DOMAIN [vs EXCEPT ![a] = v] = DOMAIN vs
  BY <1>2, ReplacedKeeps
<1>5. QED
  BY <1>3, <1>4, RedrawKeeps

\* A line is recorded for a view.
LEMMA ShownKeeps ==
  ASSUME NEW vs, parsed \in Nat, ViewsOK(vs, parsed), NEW k \in DOMAIN vs, NEW created, NEW scr,
         parsed + 1 <= MaxEvents, update_counter \in 0..parsed,
         Shown(vs, scr, k, parsed + 1, created)
  PROVE  /\ ViewsOK(views', parsed + 1) /\ DOMAIN views' = DOMAIN vs
         /\ update_counter' \in 0..(parsed + 1)
<1> DEFINE n == parsed + 1
           r == Record(vs[k], n)
           ws == [vs EXCEPT ![k] = Record(@, n)]
           d == [ws[k] EXCEPT !.staged = ws[k].current_line]
<1>1. n \in Nat /\ ViewsOK(vs, n)
  BY ViewsLater
<1>2. r \in View /\ Fits(r, n) /\ r.thread = vs[k].thread
  <2>1. vs[k] \in View /\ Fits(vs[k], parsed)
    BY DEF ViewsOK
  <2>2. QED
    BY <2>1, RecordFits
<1>3. ws = [vs EXCEPT ![k] = r]
  OBVIOUS
<1>4. \/ /\ views' = [ws EXCEPT ![k].staged = ws[k].current_line]
         /\ update_counter' = update_counter + 1
      \/ views' = RedrawAll(ws) /\ update_counter' = 0
      \/ views' = ws /\ update_counter' = update_counter + 1
  BY DEF Shown
<1>5. [ws EXCEPT ![k].staged = ws[k].current_line] = [ws EXCEPT ![k] = d]
  OBVIOUS
<1>6. update_counter' \in 0..n
  BY <1>4
<1> HIDE DEF n, r, ws, d
<1>7. ViewsOK(ws, n) /\ DOMAIN ws = DOMAIN vs
  BY <1>1, <1>2, <1>3, ReplacedKeeps
<1>8. ws[k] \in View /\ Fits(ws[k], n)
  BY <1>7 DEF ViewsOK
<1>9. d \in View /\ Fits(d, n) /\ d.thread = ws[k].thread
  BY <1>1, <1>8, DrawnFits DEF d
<1>10. ViewsOK([ws EXCEPT ![k] = d], n) /\ DOMAIN [ws EXCEPT ![k] = d] = DOMAIN ws
  BY <1>1, <1>7, <1>9, ReplacedKeeps
<1>11. ViewsOK(RedrawAll(ws), n) /\ DOMAIN RedrawAll(ws) = DOMAIN ws
  BY <1>1, <1>7, RedrawKeeps
<1>12. ViewsOK(views', n) /\ DOMAIN views' = DOMAIN vs
  BY <1>4, <1>5, <1>7, <1>10, <1>11
<1>13. QED
  BY <1>6, <1>12 DEF n

\* The views a line of thread t finds, and the screen: those there were, or one more.
Finds(vs, scr, created, t) ==
  \/ /\ vs = views /\ scr = screen /\ ~ created
     /\ ~ (t # NoThread /\ ViewOf(views, t) = {} /\ Len(views) < MaxViews)
  \/ /\ vs = Opened(views, t) /\ scr = DoUpdate(vs) /\ created
     /\ t \in Traced /\ ViewOf(views, t) = {} /\ Len(views) < MaxViews

\* What a line does: it may open a view, and if it has a text it is shown in the
\* view of its thread.
LEMMA Processed ==
  ASSUME TuiInv, ProcessTrace
  PROVE  /\ parsed < Len(sent) /\ parsed + 1 <= MaxEvents /\ parsed' = parsed + 1
         /\ at = "lines" /\ UNCHANGED <<at, active, sent>>
         /\ \E vs, scr, created :
              /\ ViewsOK(vs, parsed) /\ DOMAIN views \subseteq DOMAIN vs
              /\ Finds(vs, scr, created, sent[parsed + 1].thread)
              /\ \/ /\ sent[parsed + 1].text
                    /\ \E k \in DOMAIN vs :
                         /\ vs[k].thread = sent[parsed + 1].thread
                         /\ Shown(vs, scr, k, parsed + 1, created)
                 \/ /\ sent[parsed + 1].text => ViewOf(vs, sent[parsed + 1].thread) = {}
                    /\ views' = vs /\ screen' = scr /\ update_counter' = update_counter
<1> DEFINE e == sent[parsed + 1]
           created == e.thread # NoThread /\ ViewOf(views, e.thread) = {} /\ Len(views) < MaxViews
           opened == IF created THEN Opened(views, e.thread) ELSE views
           scr == IF created THEN DoUpdate(opened) ELSE screen
           known == ViewOf(opened, e.thread)
<1>0. /\ parsed \in Nat /\ ViewsOK(views, parsed)
      /\ sent \in Seq(Events) /\ Len(sent) <= MaxEvents /\ Len(sent) \in Nat /\ MaxEvents \in Nat
  BY TuiAssumption DEF TuiInv, ServerOK, UiOK
<1>1. /\ parsed < Len(sent) /\ parsed' = parsed + 1 /\ at = "lines"
      /\ UNCHANGED <<at, active, sent>>
  BY DEF ProcessTrace, HoldsLine
<1>2. IF e.text /\ known # {}
      THEN Shown(opened, scr, Max(known), parsed + 1, created)
      ELSE views' = opened /\ screen' = scr /\ UNCHANGED update_counter
  BY <1>1 DEF ProcessTrace
<1>3. parsed + 1 <= MaxEvents
  BY <1>0, <1>1
<1>4. created => e.thread \in Traced
  <2>1. parsed + 1 \in 1..Len(sent)
    BY <1>0, <1>1
  <2>2. e \in Events
    BY <1>0, <2>1
  <2>3. QED
    BY <2>2, TuiAssumption
<1> HIDE DEF e
<1>6. ViewsOK(opened, parsed) /\ DOMAIN views \subseteq DOMAIN opened
  BY <1>0, <1>4, OpenedKeeps
<1>7. Finds(opened, scr, created, e.thread)
  BY <1>4 DEF Finds
<1> HIDE DEF created, opened, scr
<1>8. CASE e.text /\ known # {}
  <2>1. PICK k \in known : TRUE
    BY <1>8
  <2>2. k \in DOMAIN opened /\ opened[k].thread = e.thread /\ known \subseteq DOMAIN opened
    BY <2>1 DEF ViewOf
  <2>3. known = {k}
    BY <1>6, <2>1, <2>2 DEF ViewOf, ViewsOK
  <2>4. k \in Int
    BY <1>6, <2>2 DEF ViewsOK
  <2>5. Max(known) = k
    BY <2>3, <2>4, MaxOfOne
  <2>6. Shown(opened, scr, k, parsed + 1, created)
    BY <1>2, <1>8, <2>5
  <2> HIDE DEF known
  <2>7. QED
    BY <1>1, <1>3, <1>6, <1>7, <1>8, <2>2, <2>6 DEF e
<1>9. CASE ~ (e.text /\ known # {})
  <2>1. views' = opened /\ screen' = scr /\ update_counter' = update_counter
    BY <1>2, <1>9
  <2>2. QED
    BY <1>1, <1>3, <1>6, <1>7, <1>9, <2>1 DEF e
<1>10. QED
  BY <1>8, <1>9

\* Every step keeps the server's half.
LEMMA ServerKeeps == TuiInv /\ TuiNext => ServerOK'
<1> SUFFICES ASSUME TuiInv, TuiNext PROVE ServerOK'
  OBVIOUS
<1>0. /\ at \in {"setup", "accept", "keys", "receive", "lines", "ended"}
      /\ running \in BOOLEAN /\ open \in BOOLEAN
      /\ sent \in Seq(Events) /\ Len(sent) <= MaxEvents /\ Len(sent) \in Nat
      /\ parsed \in 0..Len(sent) /\ pending \in Nat /\ buffer_pos \in 0..Size
      /\ Size \in Nat /\ MaxEvents \in Nat
  BY TuiAssumption DEF TuiInv, ServerOK
<1>l. \A n \in 1..Len(sent) : sent[n].length \in Nat
  <2>1. \A e \in Events : e.length \in Nat
    BY TuiAssumption
  <2>2. QED
    BY <1>0, <2>1
<1>1. CASE SetUp \/ Connect \/ Disconnect \/ Interrupt
  BY <1>0, <1>1 DEF SetUp, Connect, Disconnect, Interrupt, ServerOK, uiVars
<1>2. CASE Emit
  <2>1. PICK e \in Events : sent' = Append(sent, e) /\ pending' = pending + e.length
    BY <1>2 DEF Emit
  <2>2. Len(sent) < MaxEvents /\ UNCHANGED <<at, running, open, buffer_pos, parsed>>
    BY <1>2 DEF Emit
  <2>3. sent' \in Seq(Events) /\ Len(sent') = Len(sent) + 1
    BY <1>0, <2>1
  <2>4. e.length \in Nat
    BY TuiAssumption
  <2>5. pending' \in Nat
    BY <1>0, <2>1, <2>4
  <2>6. parsed' \in 0..Len(sent') /\ Len(sent') <= MaxEvents
    BY <1>0, <2>2, <2>3
  <2>7. QED
    BY <1>0, <2>2, <2>3, <2>5, <2>6 DEF ServerOK
<1>3. CASE NoKey \/ Quit \/ Right \/ Left \/ Down \/ Up
  BY <1>0, <1>3 DEF NoKey, Quit, Right, Left, Down, Up, ScrollTo, Key, AfterKeys, ServerOK
<1>4. CASE Receive
  <2>1. PICK bytes \in 1..Min({pending, Size - buffer_pos}) :
          pending' = pending - bytes /\ buffer_pos' = buffer_pos + bytes
    BY <1>4 DEF Receive
  <2>2. Min({pending, Size - buffer_pos})
          = IF pending <= Size - buffer_pos THEN pending ELSE Size - buffer_pos
    BY <1>0, MinOfTwo
  <2>3. bytes \in Nat /\ bytes <= pending /\ bytes <= Size - buffer_pos
    BY <1>0, <2>1, <2>2
  <2>4. pending' \in Nat /\ buffer_pos' \in 0..Size
    BY <1>0, <2>1, <2>3
  <2>5. at' = "lines" /\ UNCHANGED <<running, open, sent, parsed>>
    BY <1>4 DEF Receive
  <2>6. QED
    BY <1>0, <2>4, <2>5 DEF ServerOK
<1>5. CASE ProcessTrace
  <2>1. /\ parsed < Len(sent) /\ sent[parsed + 1].length <= buffer_pos
        /\ parsed' = parsed + 1 /\ buffer_pos' = buffer_pos - sent[parsed + 1].length
        /\ UNCHANGED <<at, running, open, sent, pending>>
    BY <1>5 DEF ProcessTrace, HoldsLine
  <2>2. parsed + 1 \in 1..Len(sent)
    BY <1>0, <2>1
  <2>3. sent[parsed + 1].length \in Nat
    BY <1>l, <2>2
  <2>4. buffer_pos' \in 0..Size
    BY <1>0, <2>1, <2>3
  <2>5. parsed' \in 0..Len(sent)
    BY <1>0, <2>1
  <2>6. QED
    BY <1>0, <2>1, <2>4, <2>5 DEF ServerOK
<1>6. CASE KeepRest \/ ReceiveNothing \/ WouldBlock \/ Finish
  BY <1>0, <1>6 DEF KeepRest, ReceiveNothing, WouldBlock, Finish, ServerOK
<1>7. QED
  BY <1>1, <1>2, <1>3, <1>4, <1>5, <1>6 DEF TuiNext, Loop

\* Every step keeps the views.
LEMMA UiKeeps == TuiInv /\ TuiNext => UiOK'
<1> SUFFICES ASSUME TuiInv, TuiNext PROVE UiOK'
  OBVIOUS
<1>0. /\ parsed \in Nat /\ ViewsOK(views, parsed) /\ update_counter \in 0..parsed
      /\ active \in Nat \ {0} /\ (active = 1 \/ active \in DOMAIN views \/ at = "ended")
      /\ sent \in Seq(Events) /\ Len(sent) <= MaxEvents /\ Len(sent) \in Nat
      /\ MaxEvents \in Nat
  BY TuiAssumption DEF TuiInv, ServerOK, UiOK
<1>v. views \in Seq(View) /\ Len(views) \in Nat /\ DOMAIN views = 1..Len(views)
  BY <1>0 DEF ViewsOK
<1>1. CASE SetUp \/ Connect \/ Emit \/ Disconnect \/ Interrupt \/ NoKey \/ Quit
             \/ Receive \/ KeepRest \/ ReceiveNothing \/ WouldBlock
  <2>1. UNCHANGED <<views, active, update_counter, parsed>>
    BY <1>1 DEF SetUp, Connect, Emit, Disconnect, Interrupt, NoKey, Quit, Key, AfterKeys,
                Receive, KeepRest, ReceiveNothing, WouldBlock, uiVars
  <2>2. at = "ended" => at' = "ended"
    BY <1>1 DEF SetUp, Connect, Emit, Disconnect, Interrupt, NoKey, Quit, Key, AfterKeys,
                Receive, KeepRest, ReceiveNothing, WouldBlock
  <2>3. ViewsOK(views, parsed)' = ViewsOK(views', parsed')
    BY DEF ViewsOK, Fits, Below
  <2>4. QED
    BY <1>0, <2>1, <2>2 DEF UiOK
<1>2. CASE Right \/ Left
  <2>1. /\ active' \in Nat \ {0} /\ views' = RedrawAll(views)
        /\ UNCHANGED <<update_counter, parsed>> /\ at # "ended"
        /\ active' = 1 \/ active' \in DOMAIN views
    BY <1>0, <1>2, <1>v DEF Right, Left, Key, AfterKeys
  <2>2. ViewsOK(views', parsed) /\ DOMAIN views' = DOMAIN views
    BY <1>0, <2>1, RedrawKeeps
  <2>3. QED
    BY <1>0, <2>1, <2>2 DEF UiOK
<1>3. CASE Down \/ Up
  <2> DEFINE v == views[active]
  <2>1. /\ views # <<>> /\ at = "keys"
        /\ UNCHANGED <<active, update_counter, parsed>>
    BY <1>3 DEF Down, Up, ScrollTo, Key, AfterKeys
  <2>2. active \in DOMAIN views
    BY <1>0, <1>v, <2>1
  <2>3. /\ v \in View /\ v.scroll \in Nat /\ Rows \in Nat \ {0} /\ Below(v) \in Int
        /\ Rows \div 2 \in Nat
    <3>1. v \in View
      BY <1>v, <2>2
    <3>2. v.scroll \in Nat /\ Rows \in Nat \ {0} /\ Below(v) \in Int
      BY <3>1, Scrolls
    <3>3. Rows \div 2 \in Nat
      BY <3>2
    <3>4. QED
      BY <3>1, <3>2, <3>3
  <2>4. \E s \in Nat : /\ s <= 0 \/ s <= Below(v)
                       /\ views' = RedrawAll([views EXCEPT ![active].scroll = s])
    <3>1. CASE Down
      <4> DEFINE s == Min({v.scroll + Rows \div 2, Below(v)})
      <4>1. v.scroll < Below(v) /\ views' = RedrawAll([views EXCEPT ![active].scroll = s])
        BY <3>1 DEF Down, ScrollTo
      <4>2. v.scroll + Rows \div 2 \in Nat
        BY <2>3
      <4>3. s = IF v.scroll + Rows \div 2 <= Below(v) THEN v.scroll + Rows \div 2 ELSE Below(v)
        BY <2>3, <4>2, MinOfTwo
      <4> HIDE DEF s
      <4>4. s \in Nat /\ s <= Below(v)
        BY <2>3, <4>1, <4>2, <4>3
      <4>5. QED
        BY <4>1, <4>4
    <3>2. CASE Up
      <4> DEFINE s == Max({v.scroll - Rows \div 2, 0})
      <4>1. v.scroll > 0 /\ views' = RedrawAll([views EXCEPT ![active].scroll = s])
        BY <3>2 DEF Up, ScrollTo
      <4>2. v.scroll - Rows \div 2 \in Int
        BY <2>3
      <4>3. s = IF v.scroll - Rows \div 2 >= 0 THEN v.scroll - Rows \div 2 ELSE 0
        BY <4>2, MaxOfTwo
      <4>4. Fits(v, parsed)
        BY <1>0, <2>2 DEF ViewsOK
      <4>5. v.scroll <= 0 \/ v.scroll <= Below(v)
        BY <2>3, <4>4, Scrolls DEF Fits
      <4> HIDE DEF s
      <4>6. s \in Nat /\ (s <= 0 \/ s <= Below(v))
        BY <2>3, <4>3, <4>5
      <4>7. QED
        BY <4>1, <4>6
    <3>3. QED
      BY <1>3, <3>1, <3>2
  <2>5. ViewsOK(views', parsed) /\ DOMAIN views' = DOMAIN views
    BY <1>0, <2>2, <2>4, ScrollToKeeps
  <2>6. QED
    BY <1>0, <2>1, <2>2, <2>5 DEF UiOK
<1>4. CASE ProcessTrace
  <2>1. /\ parsed + 1 <= MaxEvents /\ parsed' = parsed + 1 /\ at = "lines"
        /\ UNCHANGED <<at, active>>
    BY <1>4, Processed
  <2>2. PICK vs, scr, created :
          /\ ViewsOK(vs, parsed) /\ DOMAIN views \subseteq DOMAIN vs
          /\ \/ \E k \in DOMAIN vs : Shown(vs, scr, k, parsed + 1, created)
             \/ views' = vs /\ update_counter' = update_counter
    BY <1>4, Processed
  <2>3. /\ ViewsOK(views', parsed + 1) /\ DOMAIN views' = DOMAIN vs
        /\ update_counter' \in 0..(parsed + 1)
    <3>1. CASE \E k \in DOMAIN vs : Shown(vs, scr, k, parsed + 1, created)
      <4>1. PICK k \in DOMAIN vs : Shown(vs, scr, k, parsed + 1, created)
        BY <3>1
      <4>2. QED
        BY <1>0, <2>1, <2>2, <4>1, ShownKeeps
    <3>2. CASE views' = vs /\ update_counter' = update_counter
      <4>1. update_counter' \in 0..(parsed + 1)
        BY <1>0, <3>2
      <4>2. QED
        BY <1>0, <2>2, <3>2, <4>1, ViewsLater
    <3>3. QED
      BY <2>2, <3>1, <3>2
  <2>4. QED
    BY <1>0, <2>1, <2>2, <2>3 DEF UiOK
<1>5. CASE Finish
  <2>1. at' = "ended" /\ views' = <<>> /\ UNCHANGED <<active, update_counter, parsed>>
    BY <1>5 DEF Finish
  <2>2. ViewsOK(<<>>, parsed)
    BY TuiAssumption DEF ViewsOK
  <2>3. QED
    BY <1>0, <2>1, <2>2 DEF UiOK
<1>6. QED
  BY <1>1, <1>2, <1>3, <1>4, <1>5 DEF TuiNext, Loop

LEMMA TuiStart == TuiInit => TuiInv
  <1> SUFFICES ASSUME TuiInit PROVE TuiInv
    OBVIOUS
  <1>1. ViewsOK(<<>>, 0)
    BY TuiAssumption DEF ViewsOK
  <1>2. UiOK
    <2>1. update_counter \in 0..parsed /\ active \in Nat \ {0} /\ active = 1
      BY DEF TuiInit
    <2>2. ViewsOK(views, parsed)
      BY <1>1 DEF TuiInit
    <2>3. QED
      BY <2>1, <2>2 DEF UiOK
  <1>3. ServerOK
    <2>1. MaxEvents \in Nat /\ Size \in Nat
      BY TuiAssumption
    <2>2. /\ at = "setup" /\ running = TRUE /\ open = FALSE
          /\ sent = <<>> /\ pending = 0 /\ buffer_pos = 0 /\ parsed = 0
      BY DEF TuiInit
    <2>3. sent \in Seq(Events)
      BY <2>2
    <2>4. Len(sent) = 0
      BY <2>2
    <2>5. Len(sent) <= MaxEvents /\ parsed \in 0..Len(sent) /\ pending \in Nat
          /\ buffer_pos \in 0..Size
      BY <2>1, <2>2, <2>4
    <2>6. QED
      BY <2>2, <2>3, <2>5 DEF ServerOK
  <1>4. QED
    BY <1>2, <1>3 DEF TuiInv

LEMMA TuiStep == TuiInv /\ [TuiNext]_tuiVars => TuiInv'
  <1>1. TuiInv /\ TuiNext => TuiInv'
    BY ServerKeeps, UiKeeps DEF TuiInv
  <1>2. TuiInv /\ UNCHANGED tuiVars => TuiInv'
    <2> SUFFICES ASSUME TuiInv, UNCHANGED tuiVars PROVE TuiInv'
      OBVIOUS
    <2>1. UNCHANGED <<at, running, open, sent, pending, buffer_pos, parsed,
                      views, active, update_counter>>
      BY DEF tuiVars, serverVars, uiVars
    <2>2. QED
      BY <2>1 DEF TuiInv, ServerOK, UiOK
  <1>3. QED
    BY <1>1, <1>2

-----------------------------------------------------------------------------
(* What the views hold. *)

OwnOf(t, log, p) == {n \in 1..p : log[n].thread = t /\ log[n].text}

\* What is said of one view: its buffer has the latest of its thread's lines, and
\* the lines that are not drawn are among those counted since all were drawn.
Held(v, lines, c) ==
  /\ Len(v.buffer) <= v.current_line /\ v.staged <= v.current_line
  /\ v.current_line - v.staged <= c /\ v.current_line - v.staged < Threshold
  /\ HoldsLatest(v.buffer, lines)

HeldAll(vs, log, p, c) == \A k \in DOMAIN vs : Held(vs[k], OwnOf(vs[k].thread, log, p), c)

\* A thread that has been read from and has no view: the screen is full.
FullFor(vs, log, p) ==
  \A n \in 1..p : log[n].thread # NoThread /\ ViewOf(vs, log[n].thread) = {} => Len(vs) = MaxViews

HeldInv ==
  /\ HeldAll(views, sent, parsed, update_counter)
  /\ at # "ended" => FullFor(views, sent, parsed)

\* Everything of a view but what is drawn.
Like(u, w) ==
  /\ u.thread = w.thread /\ u.buffer = w.buffer /\ u.scroll = w.scroll
  /\ u.current_line = w.current_line

\* Adding a line to a buffer, without the first when it is full, keeps it the
\* latest lines.
LEMMA HoldsMore ==
  ASSUME NEW p \in Nat, NEW lines \in SUBSET (1..p), NEW b \in Seq(1..MaxEvents),
         HoldsLatest(b, lines)
  PROVE  HoldsLatest(Append(Kept(b), p + 1), lines \cup {p + 1})
<1> DEFINE kept == Kept(b)
           z == Append(kept, p + 1)
<1>1. Capacity \in Nat \ {0} /\ Len(b) \in Nat /\ DOMAIN b = 1..Len(b)
  BY TuiAssumption
<1>2. /\ Len(b) <= Capacity
      /\ \A i, j \in DOMAIN b : i < j => b[i] < b[j]
      /\ \A i \in DOMAIN b : b[i] \in lines
      /\ \A n \in lines : (\E i \in DOMAIN b : b[i] = n) \/ (Len(b) = Capacity /\ n < b[1])
  BY DEF HoldsLatest
<1>3. (\A n \in lines : n \in Int /\ n < p + 1) /\ p + 1 \in Int
  OBVIOUS
<1>4. CASE Len(b) >= Capacity
  <2>1. b # <<>> /\ Len(b) = Capacity
    <3>1. Len(b) <= Capacity
      BY <1>2
    <3>2. \A m \in Nat : m >= Capacity /\ m <= Capacity => m = Capacity /\ m # 0
      BY <1>1
    <3>3. Len(b) = Capacity /\ Len(b) # 0
      BY <1>1, <1>4, <3>1, <3>2, Zenon
    <3>4. QED
      BY <3>3
  <2>2. /\ kept \in Seq(1..MaxEvents) /\ Len(kept) = Capacity - 1
        /\ \A i \in 1..(Capacity - 1) : kept[i] = b[i + 1]
    BY <1>1, <1>4, <2>1 DEF Kept
  <2>3. /\ Len(z) = Capacity /\ DOMAIN z = 1..Capacity /\ z[Capacity] = p + 1
        /\ \A i \in 1..(Capacity - 1) : z[i] = b[i + 1]
    <3>1. /\ Len(z) = Len(kept) + 1 /\ DOMAIN z = 1..(Len(kept) + 1) /\ z[Len(kept) + 1] = p + 1
          /\ \A i \in 1..Len(kept) : z[i] = kept[i]
      BY <2>2
    <3>2. Len(kept) + 1 = Capacity
      BY <1>1, <2>2
    <3> HIDE DEF z
    <3>3. \A i \in 1..(Capacity - 1) : z[i] = kept[i]
      BY <2>2, <3>1
    <3>4. QED
      BY <2>2, <3>1, <3>2, <3>3
  <2> HIDE DEF z
  <2>4. \A i \in 1..(Capacity - 1) : i + 1 \in DOMAIN b /\ z[i] \in lines
    <3>1. \A i \in 1..(Capacity - 1) : i + 1 \in DOMAIN b
      BY <1>1, <2>1
    <3>2. QED
      BY <1>2, <2>3, <3>1
  <2>5. \A i, j \in DOMAIN z : i < j => z[i] < z[j]
    <3> SUFFICES ASSUME NEW i \in DOMAIN z, NEW j \in DOMAIN z, i < j PROVE z[i] < z[j]
      OBVIOUS
    <3>1. i \in 1..(Capacity - 1)
      BY <1>1, <2>3
    <3>2. CASE j = Capacity
      BY <1>3, <2>3, <2>4, <3>1, <3>2
    <3>3. CASE j # Capacity
      <4>1. j \in 1..(Capacity - 1)
        BY <1>1, <2>3, <3>3
      <4>2. i + 1 < j + 1
        BY <3>1, <4>1
      <4>3. QED
        BY <1>2, <2>3, <2>4, <3>1, <4>1, <4>2
    <3>4. QED
      BY <3>2, <3>3
  <2>6. \A i \in DOMAIN z : z[i] \in lines \cup {p + 1}
    <3> SUFFICES ASSUME NEW i \in DOMAIN z PROVE z[i] \in lines \cup {p + 1}
      OBVIOUS
    <3>1. i = Capacity \/ i \in 1..(Capacity - 1)
      BY <1>1, <2>3
    <3>2. QED
      BY <2>3, <2>4, <3>1
  <2>7. b[1] \in lines /\ b[1] < z[1]
    <3>1. 1 \in DOMAIN b
      BY <1>1, <2>1
    <3>2. CASE Capacity = 1
      BY <1>2, <1>3, <2>3, <3>1, <3>2
    <3>3. CASE Capacity # 1
      <4>1. 1 \in 1..(Capacity - 1) /\ z[1] = b[1 + 1]
        BY <1>1, <2>3, <3>3
      <4>2. 2 \in DOMAIN b
        BY <2>4, <4>1
      <4>3. QED
        BY <1>2, <3>1, <4>1, <4>2
    <3>4. QED
      BY <3>2, <3>3
  <2>8. ASSUME NEW n \in lines \cup {p + 1}
        PROVE  (\E i \in DOMAIN z : z[i] = n) \/ (Len(z) = Capacity /\ n < z[1])
    <3>1. CASE n = p + 1
      BY <1>1, <2>3, <3>1
    <3>2. CASE n \in lines /\ \E i \in DOMAIN b : b[i] = n
      <4>1. PICK i \in DOMAIN b : b[i] = n
        BY <3>2
      <4>2. CASE i = 1
        BY <2>3, <2>7, <4>1, <4>2
      <4>3. CASE i # 1
        <5>1. i - 1 \in 1..(Capacity - 1) /\ (i - 1) + 1 = i
          BY <1>1, <2>1, <4>3
        <5>2. z[i - 1] = n
          BY <2>3, <4>1, <5>1
        <5>3. i - 1 \in DOMAIN z
          BY <1>1, <2>3, <5>1
        <5>4. QED
          BY <5>2, <5>3
      <4>4. QED
        BY <4>2, <4>3
    <3>3. CASE n \in lines /\ n < b[1]
      <4>1. z[1] \in Int
        <5>1. 1 = Capacity \/ 1 \in 1..(Capacity - 1)
          BY <1>1
        <5>2. z[1] = p + 1 \/ z[1] \in lines
          BY <2>3, <2>4, <5>1
        <5>3. QED
          BY <1>3, <5>2
      <4>2. n \in Int /\ b[1] \in Int
        BY <1>3, <2>7, <3>3
      <4>3. n < z[1]
        BY <2>7, <3>3, <4>1, <4>2
      <4>4. QED
        BY <2>3, <4>3
    <3>4. QED
      BY <1>2, <3>1, <3>2, <3>3
  <2>9. Len(z) <= Capacity
    BY <1>1, <2>3
  <2>10. QED
    BY <2>5, <2>6, <2>8, <2>9, Zenon DEF HoldsLatest, z
<1>5. CASE ~ (Len(b) >= Capacity)
  <2>1. z = Append(b, p + 1) /\ Len(b) + 1 <= Capacity
    BY <1>1, <1>5 DEF Kept
  <2> HIDE DEF z
  <2>2. /\ Len(z) = Len(b) + 1 /\ DOMAIN z = 1..(Len(b) + 1) /\ z[Len(b) + 1] = p + 1
        /\ \A i \in DOMAIN b : z[i] = b[i]
    BY <1>1, <2>1
  <2>3. \A i \in DOMAIN z : i = Len(b) + 1 \/ i \in DOMAIN b
    BY <1>1, <2>2
  <2>4. \A i, j \in DOMAIN z : i < j => z[i] < z[j]
    <3> SUFFICES ASSUME NEW i \in DOMAIN z, NEW j \in DOMAIN z, i < j PROVE z[i] < z[j]
      OBVIOUS
    <3>1. i \in DOMAIN b
      BY <1>1, <2>2
    <3>2. z[i] = b[i] /\ b[i] < p + 1
      BY <1>2, <1>3, <2>2, <3>1
    <3>3. QED
      BY <1>2, <2>2, <2>3, <3>1, <3>2
  <2>5. \A i \in DOMAIN z : z[i] \in lines \cup {p + 1}
    BY <1>2, <2>2, <2>3
  <2>6. \A n \in lines : \E i \in DOMAIN b : b[i] = n
    BY <1>1, <1>2, <1>5
  <2>7. Len(b) + 1 \in DOMAIN z /\ \A i \in DOMAIN b : i \in DOMAIN z
    BY <1>1, <2>2
  <2>8. \A n \in lines \cup {p + 1} : \E i \in DOMAIN z : z[i] = n
    BY <2>2, <2>6, <2>7
  <2>9. QED
    BY <2>1, <2>2, <2>4, <2>5, <2>8 DEF HoldsLatest, z
<1>6. QED
  BY <1>4, <1>5

\* What holds of a view to which a line is added: no fewer lines are counted than
\* kept, and the buffer has the latest.
LEMMA RecordHeld ==
  ASSUME NEW v \in View, NEW p \in Nat, v.current_line <= p, p + 1 <= MaxEvents,
         NEW lines \in SUBSET (1..p), NEW c \in Nat, Held(v, lines, c)
  PROVE  /\ Len(Record(v, p + 1).buffer) <= Record(v, p + 1).current_line
         /\ Record(v, p + 1).current_line = v.current_line + 1
         /\ Record(v, p + 1).staged = v.staged
         /\ HoldsLatest(Record(v, p + 1).buffer, lines \cup {p + 1})
<1> DEFINE kept == Kept(v.buffer)
           r == Record(v, p + 1)
<1>1. /\ v.buffer \in Seq(1..MaxEvents) /\ v.current_line \in Nat /\ Len(v.buffer) \in Nat
      /\ MaxEvents \in Nat
  BY TuiAssumption DEF View
<1>2. p + 1 \in 1..MaxEvents /\ v.current_line + 1 <= MaxEvents
  BY <1>1
<1>3. /\ kept \in Seq(1..MaxEvents) /\ Len(kept) \in Nat
      /\ Len(kept) = IF Len(v.buffer) >= Capacity THEN Len(v.buffer) - 1 ELSE Len(v.buffer)
      /\ r.buffer = Append(kept, p + 1) /\ r.current_line = v.current_line + 1
      /\ r.staged = v.staged
  BY <1>2, RecordParts
<1> HIDE DEF r
<1>4. Len(v.buffer) <= v.current_line /\ HoldsLatest(v.buffer, lines)
  BY DEF Held
<1>5. HoldsLatest(Append(kept, p + 1), lines \cup {p + 1})
  BY <1>1, <1>4, HoldsMore
<1> HIDE DEF kept
<1>6. Len(Append(kept, p + 1)) = Len(kept) + 1
  BY <1>3
<1>7. Len(kept) + 1 <= v.current_line + 1
  <2>1. \A m \in Nat : m <= v.current_line => m + 1 <= v.current_line + 1
                                              /\ (m - 1) + 1 <= v.current_line + 1
    BY <1>1
  <2>2. QED
    BY <1>1, <1>3, <1>4, <2>1
<1>8. QED
  BY <1>3, <1>5, <1>6, <1>7 DEF r

\* Who looks at the last line of a view still does when one is added, and who
\* does not has the same line in view unless the buffer drops one.
LEMMA RecordPlace ==
  ASSUME NEW v \in View, NEW p \in Nat, Fits(v, p), p + 1 <= MaxEvents,
         Len(v.buffer) <= v.current_line
  PROVE  /\ Follows(v) => Follows(Record(v, p + 1))
         /\ ~ Follows(v) =>
              /\ Record(v, p + 1).scroll = v.scroll
              /\ Record(v, p + 1).current_line <= Capacity =>
                   Record(v, p + 1).buffer[v.scroll + 1] = v.buffer[v.scroll + 1]
<1> DEFINE kept == Kept(v.buffer)
           r == Record(v, p + 1)
<1>1. /\ v.buffer \in Seq(1..MaxEvents) /\ v.current_line \in Nat /\ Len(v.buffer) \in Nat
      /\ MaxEvents \in Nat /\ v.scroll \in Nat /\ Rows \in Nat \ {0} /\ Capacity \in Nat
  BY TuiAssumption DEF View
<1>2. p + 1 \in 1..MaxEvents /\ v.current_line + 1 <= MaxEvents
  BY <1>1 DEF Fits
<1>3. /\ kept \in Seq(1..MaxEvents) /\ Len(kept) \in Nat
      /\ r.buffer = Append(kept, p + 1) /\ r.current_line = v.current_line + 1
      /\ r.scroll = IF v.scroll >= Len(v.buffer) - Rows /\ Len(kept) + 1 - Rows > 0
                    THEN Len(kept) + 1 - Rows ELSE v.scroll
  BY <1>2, RecordParts
<1>4. ~ (Len(v.buffer) >= Capacity) => kept = v.buffer
  BY DEF Kept
<1> HIDE DEF r, kept
<1>5. Len(r.buffer) = Len(kept) + 1
  <2>1. Len(Append(kept, p + 1)) = Len(kept) + 1
    BY <1>3
  <2>2. QED
    BY <1>3, <2>1
<1>6. /\ Follows(v) <=> v.scroll >= Len(v.buffer) - Rows
      /\ Follows(r) <=> r.scroll >= Len(r.buffer) - Rows
  BY DEF Follows, Below
<1>7. CASE Follows(v)
  <2>1. r.scroll >= (Len(kept) + 1) - Rows
    <3>1. CASE Len(kept) + 1 - Rows > 0
      BY <1>1, <1>3, <1>6, <1>7, <3>1
    <3>2. CASE ~ (Len(kept) + 1 - Rows > 0)
      BY <1>1, <1>3, <3>2
    <3>3. QED
      BY <3>1, <3>2
  <2>2. QED
    BY <1>5, <1>6, <1>7, <2>1 DEF r
<1>8. CASE ~ Follows(v)
  <2>1. r.scroll = v.scroll
    BY <1>3, <1>6, <1>8
  <2>2. ASSUME r.current_line <= Capacity
        PROVE  r.buffer[v.scroll + 1] = v.buffer[v.scroll + 1]
    <3>1. ~ (Len(v.buffer) >= Capacity)
      BY <1>1, <1>3, <2>2
    <3>2. kept = v.buffer
      BY <1>4, <3>1
    <3>3. v.scroll + 1 \in 1..Len(v.buffer)
      BY <1>1, <1>6, <1>8
    <3>4. Append(v.buffer, p + 1)[v.scroll + 1] = v.buffer[v.scroll + 1]
      BY <1>1, <3>3
    <3>5. QED
      BY <1>3, <3>2, <3>4
  <2>3. QED
    BY <1>8, <2>1, <2>2 DEF r
<1>9. QED
  BY <1>7, <1>8

\* A view that is drawn, and one of which no more is left undrawn.
LEMMA DrawnHeld ==
  ASSUME NEW u \in View, NEW w, Like(u, w), NEW lines, NEW c \in Nat,
         Len(w.buffer) <= w.current_line, HoldsLatest(w.buffer, lines),
         u.staged = w.current_line
  PROVE  Held(u, lines, c)
<1>1. /\ Len(u.buffer) <= u.current_line /\ HoldsLatest(u.buffer, lines)
      /\ u.staged = u.current_line
  BY DEF Like
<1>2. u.current_line \in Nat /\ Threshold \in Nat \ {0}
  BY TuiAssumption DEF View
<1>3. u.staged <= u.current_line /\ u.current_line - u.staged = 0
  BY <1>1, <1>2
<1>4. QED
  BY <1>1, <1>2, <1>3 DEF Held

LEMMA LaterHeld ==
  ASSUME NEW u \in View, NEW w, Like(u, w), NEW lines, NEW c \in Nat, NEW d \in Nat, c <= d,
         Held(w, lines, c), u.staged = w.staged
  PROVE  Held(u, lines, d)
<1>1. /\ u.current_line \in Int /\ u.staged \in Int
  BY TuiAssumption DEF View
<1>2. /\ Len(u.buffer) <= u.current_line /\ HoldsLatest(u.buffer, lines)
      /\ u.staged <= u.current_line /\ u.current_line - u.staged <= c
      /\ u.current_line - u.staged < Threshold
  BY DEF Like, Held
<1>3. u.current_line - u.staged <= d
  BY <1>1, <1>2
<1>4. QED
  BY <1>2, <1>3 DEF Held

\* What drawing all views leaves of each.
LEMMA RedrawParts ==
  ASSUME NEW vs \in Seq(View), NEW l \in DOMAIN vs
  PROVE  Like(RedrawAll(vs)[l], vs[l]) /\ RedrawAll(vs)[l].staged = vs[l].current_line
<1>1. vs[l] \in View
  OBVIOUS
<1>2. RedrawAll(vs)[l] = [vs[l] EXCEPT !.staged = vs[l].current_line]
  BY DEF RedrawAll
<1> DEFINE v == vs[l]
<1>3. RedrawAll(vs)[l] = [thread |-> v.thread, buffer |-> v.buffer, scroll |-> v.scroll,
                          current_line |-> v.current_line, staged |-> v.current_line]
  BY <1>1, <1>2, Changed
<1> HIDE DEF v
<1>4. /\ RedrawAll(vs)[l].thread = v.thread /\ RedrawAll(vs)[l].buffer = v.buffer
      /\ RedrawAll(vs)[l].scroll = v.scroll /\ RedrawAll(vs)[l].current_line = v.current_line
      /\ RedrawAll(vs)[l].staged = v.current_line
  BY <1>3
<1>5. QED
  BY <1>4 DEF Like, v

\* The views once a line is shown: the one that got it, and the others.
LEMMA ShownParts ==
  ASSUME NEW vs, NEW p \in Nat, ViewsOK(vs, p), NEW k \in DOMAIN vs, NEW created, NEW scr,
         p + 1 <= MaxEvents, update_counter \in Nat, Shown(vs, scr, k, p + 1, created),
         NEW l \in DOMAIN vs, NEW w, w = IF l = k THEN Record(vs[k], p + 1) ELSE vs[l]
  PROVE  /\ Like(views'[l], w)
         /\ \/ views'[l].staged = w.current_line
            \/ /\ views'[l].staged = w.staged /\ update_counter' = update_counter + 1
               /\ l = k => update_counter + 1 < Threshold
         /\ \/ /\ views'[l].staged = w.current_line
               /\ screen' = DoUpdate(views') /\ update_counter' = 0
            \/ /\ screen' = scr /\ update_counter' = update_counter + 1
               /\ l = k => created \/ w.current_line <= Early \/ update_counter' < Threshold
<1> DEFINE r == Record(vs[k], p + 1)
           ws == [vs EXCEPT ![k] = Record(@, p + 1)]
           d == [ws[k] EXCEPT !.staged = ws[k].current_line]
<1>0. vs \in Seq(View) /\ vs[k] \in View /\ Fits(vs[k], p)
  <2>1. vs \in Seq(View) /\ Fits(vs[k], p)
    BY DEF ViewsOK
  <2>2. QED
    BY <2>1
<1>1. r \in View /\ Fits(r, p + 1) /\ r.thread = vs[k].thread
  BY <1>0, RecordFits
<1>2. ws = [vs EXCEPT ![k] = r]
  OBVIOUS
<1>3. \/ /\ views' = [ws EXCEPT ![k].staged = ws[k].current_line]
         /\ update_counter' = update_counter + 1 /\ screen' = scr
         /\ created \/ ws[k].current_line <= Early
      \/ views' = RedrawAll(ws) /\ screen' = DoUpdate(views') /\ update_counter' = 0
      \/ /\ views' = ws /\ update_counter' = update_counter + 1 /\ screen' = scr
         /\ ~ (update_counter + 1 >= Threshold)
  BY DEF Shown
<1>4. [ws EXCEPT ![k].staged = ws[k].current_line] = [ws EXCEPT ![k] = d]
  OBVIOUS
<1> HIDE DEF r, ws, d
<1>5. ws[k] = r /\ (\A m \in DOMAIN vs : m # k => ws[m] = vs[m]) /\ DOMAIN ws = DOMAIN vs
  BY <1>0, <1>2
<1>6. ws[l] = w
  BY <1>5 DEF r
<1>7. ws \in Seq(View)
  <2>1. ViewsOK(vs, p + 1) /\ p + 1 \in Nat
    BY ViewsLater
  <2>2. ViewsOK(ws, p + 1)
    BY <1>0, <1>1, <1>2, <2>1, ReplacedKeeps
  <2>3. QED
    BY <2>2 DEF ViewsOK
<1>8. CASE /\ views' = [ws EXCEPT ![k] = d]
           /\ update_counter' = update_counter + 1 /\ screen' = scr
           /\ created \/ ws[k].current_line <= Early
  <2>1. CASE l = k
    <3>1. views'[l] = d
      BY <1>5, <1>8, <2>1
    <3>2. d = [thread |-> r.thread, buffer |-> r.buffer, scroll |-> r.scroll,
               current_line |-> r.current_line, staged |-> r.current_line]
      BY <1>1, <1>5, Changed DEF d
    <3>3. /\ d.thread = r.thread /\ d.buffer = r.buffer /\ d.scroll = r.scroll
          /\ d.current_line = r.current_line /\ d.staged = r.current_line
      BY <3>2
    <3>4. QED
      BY <1>5, <1>6, <1>8, <2>1, <3>1, <3>3 DEF Like
  <2>2. CASE l # k
    <3>1. views'[l] = w
      BY <1>5, <1>6, <1>8, <2>2
    <3>2. QED
      BY <1>8, <2>2, <3>1 DEF Like
  <2>3. QED
    BY <2>1, <2>2
<1>9. CASE views' = RedrawAll(ws) /\ screen' = DoUpdate(views') /\ update_counter' = 0
  BY <1>5, <1>6, <1>7, <1>9, RedrawParts
<1>10. CASE /\ views' = ws /\ update_counter' = update_counter + 1 /\ screen' = scr
            /\ ~ (update_counter + 1 >= Threshold)
  <2>1. update_counter + 1 < Threshold
    BY <1>10, TuiAssumption
  <2>2. QED
    BY <1>6, <1>10, <2>1 DEF Like
<1>11. QED
  BY <1>3, <1>4, <1>8, <1>9, <1>10

\* What opening a view leaves of the others, and the view that is opened.
LEMMA OpenedParts ==
  ASSUME NEW vs, NEW p \in Nat, ViewsOK(vs, p), NEW t \in Traced
  PROVE  /\ Len(Opened(vs, t)) = Len(vs) + 1
         /\ DOMAIN Opened(vs, t) = 1..(Len(vs) + 1) /\ DOMAIN vs = 1..Len(vs)
         /\ \A l \in DOMAIN vs : /\ Like(Opened(vs, t)[l], vs[l])
                                 /\ Opened(vs, t)[l].staged = vs[l].current_line
         /\ Opened(vs, t)[Len(vs) + 1].thread = t
         /\ Opened(vs, t)[Len(vs) + 1].buffer = <<>>
         /\ Opened(vs, t)[Len(vs) + 1].current_line = 0
         /\ Opened(vs, t)[Len(vs) + 1].staged = 0
<1> DEFINE v == [thread |-> t, buffer |-> <<>>, scroll |-> 0, current_line |-> 0, staged |-> 0]
           ws == Append(vs, v)
<1>1. vs \in Seq(View) /\ Len(vs) \in Nat /\ DOMAIN vs = 1..Len(vs)
  BY DEF ViewsOK
<1>2. v \in View
  <2>1. 0 \in 0..Capacity /\ 0 \in 0..MaxEvents
    BY TuiAssumption
  <2>2. <<>> \in Seq(1..MaxEvents)
    OBVIOUS
  <2>3. QED
    BY <2>1, <2>2, ViewParts
<1>3. v.thread = t /\ v.buffer = <<>> /\ v.current_line = 0
  OBVIOUS
<1> HIDE DEF v
<1>4. /\ ws \in Seq(View) /\ Len(ws) = Len(vs) + 1 /\ DOMAIN ws = 1..(Len(vs) + 1)
      /\ ws[Len(vs) + 1] = v /\ \A l \in 1..Len(vs) : ws[l] = vs[l]
  BY <1>1, <1>2
<1> HIDE DEF ws
<1>5. Opened(vs, t) = RedrawAll(ws)
  BY DEF Opened, ws, v
<1>6. Len(RedrawAll(ws)) = Len(ws) /\ DOMAIN RedrawAll(ws) = DOMAIN ws
  <2>1. DOMAIN RedrawAll(ws) = 1..Len(ws) /\ Len(ws) \in Nat
    BY <1>4 DEF RedrawAll
  <2>2. RedrawAll(ws) = [l \in 1..Len(ws) |-> RedrawAll(ws)[l]]
    BY <1>1, <1>4 DEF RedrawAll
  <2>3. QED
    BY <1>4, <2>1, <2>2
<1>7. \A l \in DOMAIN ws : Like(RedrawAll(ws)[l], ws[l])
                           /\ RedrawAll(ws)[l].staged = ws[l].current_line
  BY <1>4, RedrawParts
<1>8. \A l \in DOMAIN vs : l \in DOMAIN ws /\ ws[l] = vs[l]
  BY <1>1, <1>4
<1>9. Len(vs) + 1 \in DOMAIN ws
  BY <1>1, <1>4
<1>10. \A l \in DOMAIN vs : /\ Like(RedrawAll(ws)[l], vs[l])
                            /\ RedrawAll(ws)[l].staged = vs[l].current_line
  BY <1>7, <1>8
<1>11. /\ Like(RedrawAll(ws)[Len(vs) + 1], v) /\ RedrawAll(ws)[Len(vs) + 1].staged = 0
  BY <1>3, <1>4, <1>7, <1>9
<1>12. QED
  BY <1>1, <1>3, <1>4, <1>5, <1>6, <1>10, <1>11 DEF Like

\* The lines of a thread when one more has been parsed.
LEMMA OwnMore ==
  ASSUME NEW log, NEW p \in Nat, NEW t
  PROVE  /\ OwnOf(t, log, p) \subseteq 1..p
         /\ OwnOf(t, log, p + 1) = IF log[p + 1].thread = t /\ log[p + 1].text
                                   THEN OwnOf(t, log, p) \cup {p + 1} ELSE OwnOf(t, log, p)
<1>1. 1..(p + 1) = (1..p) \cup {p + 1}
  OBVIOUS
<1>2. QED
  BY <1>1, Zenon DEF OwnOf

\* Opening a view: a thread that gets one has had no line so far.
LEMMA FindsHeld ==
  ASSUME TuiInv, HeldInv, at # "ended", NEW t, NEW vs, ViewsOK(vs, parsed),
         NEW scr, NEW created, Finds(vs, scr, created, t)
  PROVE  /\ HeldAll(vs, sent, parsed, update_counter)
         /\ Len(views) <= Len(vs)
         /\ \A l \in DOMAIN views : l \in DOMAIN vs /\ vs[l].thread = views[l].thread
<1>1. /\ parsed \in Nat /\ ViewsOK(views, parsed) /\ update_counter \in Nat /\ Len(views) \in Nat
      /\ HeldAll(views, sent, parsed, update_counter) /\ FullFor(views, sent, parsed)
  BY DEF TuiInv, ServerOK, UiOK, ViewsOK, HeldInv
<1>2. CASE vs = views
  BY <1>1, <1>2
<1>3. CASE vs = Opened(views, t) /\ t \in Traced /\ ViewOf(views, t) = {} /\ Len(views) < MaxViews
  <2>1. /\ Len(vs) = Len(views) + 1
        /\ DOMAIN vs = 1..(Len(views) + 1) /\ DOMAIN views = 1..Len(views)
        /\ \A l \in DOMAIN views : Like(vs[l], views[l]) /\ vs[l].staged = views[l].current_line
        /\ vs[Len(views) + 1].thread = t /\ vs[Len(views) + 1].buffer = <<>>
        /\ vs[Len(views) + 1].current_line = 0 /\ vs[Len(views) + 1].staged = 0
    BY <1>1, <1>3, OpenedParts
  <2>2. ASSUME NEW l \in DOMAIN views
        PROVE  /\ l \in DOMAIN vs /\ vs[l].thread = views[l].thread
               /\ Held(vs[l], OwnOf(vs[l].thread, sent, parsed), update_counter)
    <3>1. l \in DOMAIN vs /\ vs[l].thread = views[l].thread
      BY <1>1, <2>1 DEF Like
    <3>2. vs[l] \in View
      BY <3>1 DEF ViewsOK
    <3>3. Held(views[l], OwnOf(views[l].thread, sent, parsed), update_counter)
      BY <1>1 DEF HeldAll
    <3>4. Len(views[l].buffer) <= views[l].current_line
          /\ HoldsLatest(views[l].buffer, OwnOf(views[l].thread, sent, parsed))
      BY <3>3 DEF Held
    <3>5. Like(vs[l], views[l]) /\ vs[l].staged = views[l].current_line
      BY <2>1
    <3>6. Held(vs[l], OwnOf(views[l].thread, sent, parsed), update_counter)
      BY <1>1, <3>2, <3>4, <3>5, DrawnHeld
    <3>7. QED
      BY <3>1, <3>6
  <2>3. OwnOf(t, sent, parsed) = {}
    <3>1. t # NoThread /\ Len(views) # MaxViews
      BY <1>1, <1>3, TuiAssumption
    <3>2. QED
      BY <1>1, <1>3, <3>1 DEF OwnOf, FullFor
  <2>4. Held(vs[Len(views) + 1], {}, update_counter)
    <3>1. HoldsLatest(<<>>, {})
      <4>1. Len(<<>>) = 0 /\ DOMAIN <<>> = {} /\ Capacity \in Nat
        BY TuiAssumption
      <4>2. Len(<<>>) <= Capacity
        BY <4>1
      <4>3. QED
        BY <4>1, <4>2, Zenon DEF HoldsLatest
    <3>2. Len(<<>>) <= 0 /\ 0 <= 0 /\ 0 - 0 <= update_counter /\ 0 - 0 < Threshold
      BY <1>1, TuiAssumption
    <3>3. QED
      BY <2>1, <3>1, <3>2, Zenon DEF Held
  <2>5. \A l \in DOMAIN vs : l \in DOMAIN views \/ l = Len(views) + 1
    BY <1>1, <2>1
  <2>6. HeldAll(vs, sent, parsed, update_counter)
    BY <2>1, <2>2, <2>3, <2>4, <2>5 DEF HeldAll
  <2>7. QED
    BY <1>1, <2>1, <2>2, <2>6
<1>4. QED
  BY <1>2, <1>3 DEF Finds

\* A line that is shown.
LEMMA ShownHeld ==
  ASSUME TuiInv, NEW vs, ViewsOK(vs, parsed), HeldAll(vs, sent, parsed, update_counter),
         parsed + 1 <= MaxEvents, NEW k \in DOMAIN vs, NEW created, NEW scr,
         vs[k].thread = sent[parsed + 1].thread, sent[parsed + 1].text,
         Shown(vs, scr, k, parsed + 1, created)
  PROVE  /\ HeldAll(views', sent, parsed + 1, update_counter')
         /\ Len(views') = Len(vs) /\ DOMAIN views' = DOMAIN vs
         /\ \A l \in DOMAIN vs : views'[l].thread = vs[l].thread
<1>1. parsed \in Nat /\ update_counter \in 0..parsed
  BY DEF TuiInv, ServerOK, UiOK
<1>2. /\ ViewsOK(views', parsed + 1) /\ DOMAIN views' = DOMAIN vs
      /\ update_counter' \in 0..(parsed + 1)
  BY <1>1, ShownKeeps
<1>3. Len(views') = Len(vs)
  <2>1. views' \in Seq(View) /\ vs \in Seq(View)
    BY <1>2 DEF ViewsOK
  <2>2. 1..Len(views') = 1..Len(vs) /\ Len(views') \in Nat /\ Len(vs) \in Nat
    BY <1>2, <2>1
  <2>3. QED
    BY <2>2
<1>4. ASSUME NEW l \in DOMAIN vs
      PROVE  /\ views'[l].thread = vs[l].thread
             /\ Held(views'[l], OwnOf(vs[l].thread, sent, parsed + 1), update_counter')
  <2> DEFINE w == IF l = k THEN Record(vs[k], parsed + 1) ELSE vs[l]
             own == OwnOf(vs[l].thread, sent, parsed)
             more == OwnOf(vs[l].thread, sent, parsed + 1)
  <2>1. /\ Like(views'[l], w)
        /\ \/ views'[l].staged = w.current_line
           \/ /\ views'[l].staged = w.staged /\ update_counter' = update_counter + 1
              /\ l = k => update_counter + 1 < Threshold
    <3>1. update_counter \in Nat
      BY <1>1
    <3>2. QED
      BY <1>1, <3>1, ShownParts
  <2>2. vs[l] \in View /\ Fits(vs[l], parsed) /\ views'[l] \in View
    BY <1>2 DEF ViewsOK
  <2>3. Held(vs[l], own, update_counter)
    BY DEF HeldAll
  <2>4. /\ own \subseteq 1..parsed
        /\ more = IF sent[parsed + 1].thread = vs[l].thread /\ sent[parsed + 1].text
                  THEN own \cup {parsed + 1} ELSE own
    BY <1>1, OwnMore
  <2>5. update_counter' \in Nat
    BY <1>1, <1>2
  <2> HIDE DEF own, more
  <2>6. CASE l = k
    <3>1. w = Record(vs[l], parsed + 1)
      BY <2>6
    <3>2. more = own \cup {parsed + 1}
      BY <2>4, <2>6
    <3>3. vs[l].current_line <= parsed
      BY <2>2 DEF Fits
    <3>4. /\ Len(w.buffer) <= w.current_line /\ w.current_line = vs[l].current_line + 1
          /\ w.staged = vs[l].staged /\ HoldsLatest(w.buffer, more)
      <4>1. own \in SUBSET (1..parsed) /\ update_counter \in Nat
        BY <1>1, <2>4
      <4> DEFINE r == Record(vs[l], parsed + 1)
      <4>2. /\ Len(r.buffer) <= r.current_line /\ r.current_line = vs[l].current_line + 1
            /\ r.staged = vs[l].staged /\ HoldsLatest(r.buffer, own \cup {parsed + 1})
        BY <1>1, <2>2, <2>3, <3>3, <4>1, RecordHeld
      <4> HIDE DEF r
      <4>3. QED
        BY <3>1, <3>2, <4>2 DEF r
    <3>5. views'[l].thread = vs[l].thread
      <4>1. w.thread = vs[l].thread
        BY <1>1, <2>2, <3>1, RecordFits
      <4>2. QED
        BY <2>1, <4>1 DEF Like
    <3> HIDE DEF w
    <3>6. CASE views'[l].staged = w.current_line
      BY <2>1, <2>2, <2>5, <3>4, <3>5, <3>6, DrawnHeld DEF more
    <3>7. CASE /\ views'[l].staged = w.staged /\ update_counter' = update_counter + 1
               /\ update_counter + 1 < Threshold
      <4> DEFINE u == views'[l]
      <4>1. u.current_line = vs[l].current_line + 1 /\ u.staged = vs[l].staged
            /\ Len(u.buffer) <= u.current_line /\ HoldsLatest(u.buffer, more)
        BY <2>1, <3>4, <3>7 DEF Like
      <4>2. vs[l].staged <= vs[l].current_line
            /\ vs[l].current_line - vs[l].staged <= update_counter
        BY <2>3 DEF Held
      <4>3. vs[l].staged \in Int /\ vs[l].current_line \in Int /\ Threshold \in Nat
        BY <2>2, TuiAssumption DEF View
      <4> HIDE DEF u
      <4>4. u.staged <= u.current_line /\ u.current_line - u.staged <= update_counter'
            /\ u.current_line - u.staged < Threshold
        BY <1>1, <3>7, <4>1, <4>2, <4>3
      <4>5. Held(u, more, update_counter')
        BY <4>1, <4>4 DEF Held
      <4>6. QED
        BY <3>5, <4>5 DEF u, more
    <3>8. QED
      BY <2>1, <2>6, <3>6, <3>7
  <2>7. CASE l # k
    <3>1. w = vs[l]
      BY <2>7
    <3>2. more = own
      BY <2>4, <2>7 DEF ViewsOK
    <3>3. views'[l].thread = vs[l].thread
      BY <2>1, <3>1 DEF Like
    <3>4. Held(views'[l], own, update_counter')
      <4>1. Len(w.buffer) <= w.current_line /\ HoldsLatest(w.buffer, own)
        BY <2>3, <3>1 DEF Held
      <4>2. CASE views'[l].staged = w.current_line
        BY <2>1, <2>2, <2>5, <4>1, <4>2, DrawnHeld
      <4>3. CASE views'[l].staged = w.staged /\ update_counter' = update_counter + 1
        <5>1. update_counter \in Nat /\ update_counter <= update_counter'
          BY <1>1, <4>3
        <5>2. QED
          BY <2>1, <2>2, <2>3, <2>5, <3>1, <4>3, <5>1, LaterHeld
      <4>4. QED
        BY <2>1, <4>2, <4>3
    <3>5. QED
      BY <3>2, <3>3, <3>4 DEF more
  <2>8. QED
    BY <2>6, <2>7
<1>5. QED
  BY <1>2, <1>3, <1>4 DEF HeldAll

\* A step that leaves the views, or draws or scrolls them, leaves what they hold.
LEMMA MovedHeld ==
  ASSUME TuiInv, HeldInv, NEW c \in Nat, NEW ws \in Seq(View), DOMAIN ws = DOMAIN views,
         \A l \in DOMAIN views :
           /\ ws[l].thread = views[l].thread /\ ws[l].buffer = views[l].buffer
           /\ ws[l].current_line = views[l].current_line /\ ws[l].staged = views[l].current_line
  PROVE  HeldAll(ws, sent, parsed, c) /\ (at # "ended" => FullFor(ws, sent, parsed))
<1>1. /\ HeldAll(views, sent, parsed, update_counter) /\ views \in Seq(View)
      /\ at # "ended" => FullFor(views, sent, parsed)
  BY DEF HeldInv, TuiInv, UiOK, ViewsOK
<1>2. ASSUME NEW l \in DOMAIN ws PROVE Held(ws[l], OwnOf(ws[l].thread, sent, parsed), c)
  <2>1. Held(views[l], OwnOf(views[l].thread, sent, parsed), update_counter)
    BY <1>1 DEF HeldAll
  <2>2. Len(ws[l].buffer) <= ws[l].current_line
        /\ HoldsLatest(ws[l].buffer, OwnOf(ws[l].thread, sent, parsed))
    BY <2>1 DEF Held
  <2>3. ws[l] \in View /\ ws[l].staged = ws[l].current_line
    OBVIOUS
  <2>4. QED
    BY <2>2, <2>3, DrawnHeld DEF Like
<1>3. \A t : ViewOf(ws, t) = ViewOf(views, t)
  BY DEF ViewOf
<1>4. Len(ws) = Len(views)
  <2>1. 1..Len(ws) = 1..Len(views) /\ Len(ws) \in Nat /\ Len(views) \in Nat
    BY <1>1
  <2>2. QED
    BY <2>1
<1>5. QED
  BY <1>1, <1>2, <1>3, <1>4 DEF HeldAll, FullFor

\* A key that redraws has every window redrawn.
LEMMA AllStaged ==
  ASSUME TuiInv, TuiNext, Right \/ Left \/ Down \/ Up
  PROVE  /\ DOMAIN views' = DOMAIN views
         /\ \A l \in DOMAIN views :
              /\ views'[l].thread = views[l].thread /\ views'[l].buffer = views[l].buffer
              /\ views'[l].current_line = views[l].current_line
              /\ views'[l].staged = views[l].current_line
<1>a. views \in Seq(View) /\ views' \in Seq(View)
  BY UiKeeps DEF TuiInv, UiOK, ViewsOK
<1>b. \/ views' = RedrawAll(views)
      \/ views # <<>> /\ \E s : views' = RedrawAll([views EXCEPT ![active].scroll = s])
  BY DEF Right, Left, Down, Up, ScrollTo, Key, AfterKeys
<1>1. CASE views' = RedrawAll(views)
  <2>1. DOMAIN views' = DOMAIN views
    BY <1>1 DEF RedrawAll
  <2>2. QED
    BY <1>a, <1>1, <2>1, RedrawParts DEF Like
<1>2. CASE views # <<>> /\ \E s : views' = RedrawAll([views EXCEPT ![active].scroll = s])
  <2>1. PICK s : views' = RedrawAll([views EXCEPT ![active].scroll = s])
    BY <1>2
  <2> DEFINE ws == [views EXCEPT ![active].scroll = s]
  <2>2. DOMAIN ws = DOMAIN views
    OBVIOUS
  <2>3. ASSUME NEW l \in DOMAIN views
        PROVE  /\ ws[l].thread = views[l].thread /\ ws[l].buffer = views[l].buffer
               /\ ws[l].current_line = views[l].current_line
    <3>1. views[l] \in View
      BY <1>a
    <3>2. [views[l] EXCEPT !.scroll = s] =
            [thread |-> views[l].thread, buffer |-> views[l].buffer, scroll |-> s,
             current_line |-> views[l].current_line, staged |-> views[l].staged]
      BY <3>1, Changed
    <3>3. ws[l] = views[l] \/ ws[l] = [views[l] EXCEPT !.scroll = s]
      OBVIOUS
    <3> HIDE DEF ws
    <3>4. QED
      BY <3>2, <3>3
  <2> HIDE DEF ws
  <2>4. \A l \in DOMAIN views : views'[l] = [ws[l] EXCEPT !.staged = ws[l].current_line]
    BY <2>1, <2>2 DEF RedrawAll, ws
  <2>5. DOMAIN views' = DOMAIN views
    BY <2>1, <2>2 DEF RedrawAll, ws
  <2>6. ASSUME NEW l \in DOMAIN views
        PROVE  /\ views'[l].thread = ws[l].thread /\ views'[l].buffer = ws[l].buffer
               /\ views'[l].current_line = ws[l].current_line
               /\ views'[l].staged = ws[l].current_line
    <3>1. views'[l] \in View
      BY <1>a, <2>5
    <3>2. views'[l] = [ws[l] EXCEPT !.staged = ws[l].current_line]
      BY <2>4
    <3>3. views'[l].thread = ws[l].thread /\ views'[l].buffer = ws[l].buffer
          /\ views'[l].current_line = ws[l].current_line
      BY <3>2
    <3>4. "staged" \in DOMAIN views'[l] /\ DOMAIN views'[l] = DOMAIN ws[l]
      BY <3>1, <3>2 DEF View
    <3>5. views'[l].staged = ws[l].current_line
      BY <3>2, <3>4
    <3>6. QED
      BY <3>3, <3>5
  <2>7. QED
    BY <2>3, <2>5, <2>6
<1>3. QED
  BY <1>b, <1>1, <1>2

\* Every step keeps what the views hold.
LEMMA HeldKeeps == TuiInv /\ HeldInv /\ TuiNext => HeldInv'
<1> SUFFICES ASSUME TuiInv, HeldInv, TuiNext PROVE HeldInv'
  OBVIOUS
<1>0. /\ parsed \in Nat /\ update_counter \in Nat /\ ViewsOK(views, parsed)
      /\ views \in Seq(View) /\ DOMAIN views = 1..Len(views) /\ Len(views) \in Nat
      /\ sent \in Seq(Events) /\ Len(sent) \in Nat /\ parsed <= Len(sent)
      /\ HeldAll(views, sent, parsed, update_counter)
      /\ at # "ended" => FullFor(views, sent, parsed)
  BY DEF TuiInv, ServerOK, UiOK, ViewsOK, HeldInv
<1>1. CASE SetUp \/ Connect \/ Disconnect \/ Interrupt \/ NoKey \/ Quit
             \/ Receive \/ KeepRest \/ ReceiveNothing \/ WouldBlock
  <2>1. UNCHANGED <<views, update_counter, parsed, sent>>
    BY <1>1 DEF SetUp, Connect, Disconnect, Interrupt, NoKey, Quit, Key, AfterKeys,
                Receive, KeepRest, ReceiveNothing, WouldBlock, uiVars
  <2>2. at = "ended" => at' = "ended"
    BY <1>1 DEF SetUp, Connect, Disconnect, Interrupt, NoKey, Quit, Key, AfterKeys,
                Receive, KeepRest, ReceiveNothing, WouldBlock
  <2>3. /\ HeldAll(views', sent', parsed', update_counter')
        /\ at' # "ended" => FullFor(views', sent', parsed')
    BY <1>0, <2>1, <2>2
  <2>4. QED
    BY <2>3 DEF HeldInv, HeldAll, FullFor, Held, OwnOf, HoldsLatest, ViewOf
<1>2. CASE Emit
  <2>1. /\ UNCHANGED <<at, views, update_counter, parsed>>
        /\ \E e \in Events : sent' = Append(sent, e)
    BY <1>2 DEF Emit, uiVars
  <2>2. \A n \in 1..parsed : sent'[n] = sent[n]
    <3>1. PICK e \in Events : sent' = Append(sent, e)
      BY <2>1
    <3>2. \A n \in 1..Len(sent) : sent'[n] = sent[n]
      BY <1>0, <3>1
    <3>3. \A n \in 1..parsed : n \in 1..Len(sent)
      BY <1>0
    <3>4. QED
      BY <3>2, <3>3
  <2>3. \A t : OwnOf(t, sent', parsed) = OwnOf(t, sent, parsed)
    BY <2>2 DEF OwnOf
  <2>4. HeldAll(views, sent', parsed, update_counter)
    BY <1>0, <2>3 DEF HeldAll
  <2>5. at # "ended" => FullFor(views, sent', parsed)
    BY <1>0, <2>2 DEF FullFor
  <2>6. /\ HeldAll(views', sent', parsed', update_counter')
        /\ at' # "ended" => FullFor(views', sent', parsed')
    BY <2>1, <2>4, <2>5
  <2>7. QED
    BY <2>6 DEF HeldInv, HeldAll, FullFor, Held, OwnOf, HoldsLatest, ViewOf
<1>3. CASE Right \/ Left \/ Down \/ Up
  <2>1. UNCHANGED <<update_counter, parsed, sent>> /\ at # "ended"
    BY <1>3 DEF Right, Left, Down, Up, ScrollTo, Key, AfterKeys
  <2>2. UiOK'
    BY UiKeeps
  <2>3. views' \in Seq(View)
    BY <2>2 DEF UiOK, ViewsOK
  <2>4. /\ DOMAIN views' = DOMAIN views
        /\ \A l \in DOMAIN views :
             /\ views'[l].thread = views[l].thread /\ views'[l].buffer = views[l].buffer
             /\ views'[l].current_line = views[l].current_line
             /\ views'[l].staged = views[l].current_line
    BY <1>3, AllStaged
  <2>5. HeldAll(views', sent, parsed, update_counter)
        /\ FullFor(views', sent, parsed)
    BY <1>0, <2>1, <2>3, <2>4, MovedHeld
  <2>6. QED
    BY <2>1, <2>5 DEF HeldInv, HeldAll, FullFor, Held, OwnOf, HoldsLatest, ViewOf
<1>4. CASE ProcessTrace
  <2> DEFINE e == sent[parsed + 1]
  <2>1. /\ parsed < Len(sent) /\ parsed + 1 <= MaxEvents /\ parsed' = parsed + 1
        /\ at = "lines" /\ UNCHANGED <<at, active, sent>>
    BY <1>4, Processed
  <2>2. PICK vs, scr, created :
          /\ ViewsOK(vs, parsed) /\ DOMAIN views \subseteq DOMAIN vs
          /\ Finds(vs, scr, created, e.thread)
          /\ \/ /\ e.text
                /\ \E k \in DOMAIN vs :
                     vs[k].thread = e.thread /\ Shown(vs, scr, k, parsed + 1, created)
             \/ /\ e.text => ViewOf(vs, e.thread) = {}
                /\ views' = vs /\ update_counter' = update_counter
    BY <1>4, Processed
  <2>3. /\ HeldAll(vs, sent, parsed, update_counter)
        /\ Len(views) <= Len(vs)
        /\ \A l \in DOMAIN views : l \in DOMAIN vs /\ vs[l].thread = views[l].thread
    BY <2>1, <2>2, FindsHeld
  <2>4. /\ HeldAll(views', sent, parsed + 1, update_counter')
        /\ Len(views') = Len(vs) /\ DOMAIN views' = DOMAIN vs
        /\ \A l \in DOMAIN vs : views'[l].thread = vs[l].thread
    <3>1. CASE /\ e.text
               /\ \E k \in DOMAIN vs :
                    vs[k].thread = e.thread /\ Shown(vs, scr, k, parsed + 1, created)
      <4>1. PICK k \in DOMAIN vs :
              vs[k].thread = e.thread /\ Shown(vs, scr, k, parsed + 1, created)
        BY <3>1
      <4>2. QED
        BY <2>1, <2>2, <2>3, <3>1, <4>1, ShownHeld
    <3>2. CASE /\ e.text => ViewOf(vs, e.thread) = {}
               /\ views' = vs /\ update_counter' = update_counter
      <4>1. \A l \in DOMAIN vs : ~ (e.text /\ vs[l].thread = e.thread)
        BY <3>2 DEF ViewOf
      <4>2. \A l \in DOMAIN vs :
              OwnOf(vs[l].thread, sent, parsed + 1) = OwnOf(vs[l].thread, sent, parsed)
        BY <1>0, <4>1, OwnMore
      <4>3. QED
        BY <2>3, <3>2, <4>2 DEF HeldAll
    <3>3. QED
      BY <2>2, <3>1, <3>2
  <2>5. FullFor(views', sent, parsed + 1)
    <3> SUFFICES ASSUME NEW n \in 1..(parsed + 1), sent[n].thread # NoThread,
                        ViewOf(views', sent[n].thread) = {}
                 PROVE  Len(views') = MaxViews
      BY DEF FullFor
    <3>1. ViewOf(vs, sent[n].thread) = {} /\ ViewOf(views, sent[n].thread) = {}
      BY <2>3, <2>4 DEF ViewOf
    <3>2. Len(views) = MaxViews
      <4>1. CASE n \in 1..parsed
        BY <1>0, <2>1, <3>1, <4>1 DEF FullFor
      <4>2. CASE n = parsed + 1
        <5>1. ~ (Len(views) < MaxViews)
          <6>1. CASE ~ (/\ e.thread # NoThread /\ ViewOf(views, e.thread) = {}
                        /\ Len(views) < MaxViews)
            BY <3>1, <4>2, <6>1
          <6>2. CASE vs = Opened(views, e.thread) /\ e.thread \in Traced
            <7>1. /\ Len(views) + 1 \in DOMAIN vs /\ vs[Len(views) + 1].thread = e.thread
              BY <1>0, <6>2, OpenedParts
            <7>2. QED
              BY <3>1, <4>2, <7>1 DEF ViewOf
          <6>3. QED
            BY <2>2, <6>1, <6>2 DEF Finds
        <5>2. Len(views) <= MaxViews
          BY <1>0 DEF ViewsOK
        <5>3. QED
          BY <1>0, <5>1, <5>2, TuiAssumption
      <4>3. QED
        BY <1>0, <4>1, <4>2
    <3>3. Len(vs) <= MaxViews /\ Len(vs) \in Nat
      BY <2>2 DEF ViewsOK
    <3>4. QED
      BY <1>0, <2>3, <2>4, <3>2, <3>3
  <2>6. QED
    BY <2>1, <2>4, <2>5 DEF HeldInv, HeldAll, FullFor, Held, OwnOf, HoldsLatest, ViewOf
<1>5. CASE Finish
  <2>1. at' = "ended" /\ views' = <<>>
    BY <1>5 DEF Finish
  <2>2. DOMAIN views' = {}
    BY <2>1
  <2>3. QED
    BY <2>1, <2>2 DEF HeldInv, HeldAll
<1>6. QED
  BY <1>1, <1>2, <1>3, <1>4, <1>5 DEF TuiNext, Loop

LEMMA TuiBegins == TuiInit => TuiInv /\ HeldInv
<1> SUFFICES ASSUME TuiInit PROVE HeldInv
  BY TuiStart
<1>1. views = <<>> /\ parsed = 0
  BY DEF TuiInit
<1>2. DOMAIN views = {} /\ 1..parsed = {}
  BY <1>1
<1>3. QED
  BY <1>2 DEF HeldInv, HeldAll, FullFor

LEMMA HeldStep == TuiInv /\ HeldInv /\ [TuiNext]_tuiVars => HeldInv'
<1>1. TuiInv /\ HeldInv /\ TuiNext => HeldInv'
  BY HeldKeeps
<1>2. TuiInv /\ HeldInv /\ UNCHANGED tuiVars => HeldInv'
  <2> SUFFICES ASSUME HeldInv, UNCHANGED tuiVars PROVE HeldInv'
    OBVIOUS
  <2>1. UNCHANGED <<at, sent, parsed, views, update_counter>>
    BY DEF tuiVars, serverVars, uiVars
  <2>2. QED
    BY <2>1 DEF HeldInv, HeldAll, FullFor, Held, OwnOf, HoldsLatest, ViewOf
<1>3. QED
  BY <1>1, <1>2

LEMMA HeldAlways == TuiSpec => [](TuiInv /\ HeldInv)
BY TuiBegins, TuiStep, HeldStep, PTL DEF TuiSpec

-----------------------------------------------------------------------------
(* What the terminal shows. *)

\* No more than is staged; what it lacks is among the lines counted since all was
\* redrawn, and of a view with more than Early lines it is less than Threshold.
OnScreen(v, n, c) ==
  /\ n \in Nat /\ n <= v.staged /\ v.staged <= v.current_line /\ v.current_line - n <= c
  /\ v.current_line > Early => v.current_line - n < Threshold

ScreenOK(vs, scr, c) ==
  /\ scr = [k \in DOMAIN vs |-> scr[k]]
  /\ \A k \in DOMAIN vs : OnScreen(vs[k], scr[k], c)

ScreenInv == ScreenOK(views, screen, update_counter)

LEMMA Counts ==
  /\ Threshold \in Nat \ {0} /\ Early \in Nat \ {0} /\ MaxEvents \in Nat
  /\ \A v \in View : v.current_line \in Nat /\ v.staged \in 0..MaxEvents
BY TuiAssumption DEF View

\* The terminal gets all that is staged.
LEMMA Updated ==
  ASSUME NEW vs \in Seq(View), NEW c \in Nat,
         \A k \in DOMAIN vs :
           \/ vs[k].staged = vs[k].current_line
           \/ \E n \in Nat : n <= vs[k].staged /\ OnScreen(vs[k], n, c)
  PROVE  ScreenOK(vs, DoUpdate(vs), c)
<1>1. ASSUME NEW k \in DOMAIN vs
      PROVE  OnScreen(vs[k], vs[k].staged, c)
  <2>1. vs[k] \in View
    OBVIOUS
  <2>2. vs[k].current_line \in Nat /\ vs[k].staged \in Nat
    BY <2>1, Counts
  <2>3. CASE vs[k].staged = vs[k].current_line
    BY <2>2, <2>3, Counts DEF OnScreen
  <2>4. CASE \E n \in Nat : n <= vs[k].staged /\ OnScreen(vs[k], n, c)
    <3>1. PICK n \in Nat : n <= vs[k].staged /\ OnScreen(vs[k], n, c)
      BY <2>4
    <3>2. QED
      BY <2>2, <3>1, Counts DEF OnScreen
  <2>5. QED
    BY <2>3, <2>4
<1>2. DoUpdate(vs) = [k \in DOMAIN vs |-> vs[k].staged]
  BY DEF DoUpdate
<1>3. QED
  BY <1>1, <1>2 DEF ScreenOK

\* The views that a line finds are on the screen.
LEMMA FindsOnScreen ==
  ASSUME TuiInv, HeldInv, ScreenInv, NEW t, NEW vs, ViewsOK(vs, parsed),
         NEW scr, NEW created, Finds(vs, scr, created, t)
  PROVE  /\ ScreenOK(vs, scr, update_counter)
         /\ \A k \in DOMAIN vs : created /\ vs[k].thread = t => vs[k].current_line = 0
<1>1. CASE vs = views /\ scr = screen /\ ~ created
  BY <1>1 DEF ScreenInv
<1>2. CASE /\ vs = Opened(views, t) /\ scr = DoUpdate(vs)
           /\ t \in Traced /\ ViewOf(views, t) = {}
  <2>1. parsed \in Nat /\ ViewsOK(views, parsed) /\ update_counter \in Nat /\ Len(views) \in Nat
    BY DEF TuiInv, ServerOK, UiOK, ViewsOK
  <2>2. /\ DOMAIN vs = 1..(Len(views) + 1) /\ DOMAIN views = 1..Len(views)
        /\ \A l \in DOMAIN views : Like(vs[l], views[l]) /\ vs[l].staged = views[l].current_line
        /\ vs[Len(views) + 1].current_line = 0 /\ vs[Len(views) + 1].staged = 0
    BY <1>2, <2>1, OpenedParts
  <2>3. \A l \in DOMAIN vs : l \in DOMAIN views \/ l = Len(views) + 1
    BY <2>1, <2>2
  <2>4. \A l \in DOMAIN vs : vs[l].staged = vs[l].current_line
    BY <2>2, <2>3 DEF Like
  <2>5. \A l \in DOMAIN views : vs[l].thread # t
    BY <1>2, <2>2 DEF Like, ViewOf
  <2>6. vs \in Seq(View)
    BY DEF ViewsOK
  <2>7. QED
    BY <1>2, <2>1, <2>2, <2>3, <2>4, <2>5, <2>6, Updated
<1>3. QED
  BY <1>1, <1>2 DEF Finds

\* A line that is shown.
LEMMA ShownOnScreen ==
  ASSUME TuiInv, NEW vs, ViewsOK(vs, parsed), parsed + 1 <= MaxEvents,
         NEW k \in DOMAIN vs, NEW created, NEW scr, ScreenOK(vs, scr, update_counter),
         created => vs[k].current_line = 0,
         Shown(vs, scr, k, parsed + 1, created)
  PROVE  ScreenOK(views', screen', update_counter')
<1>1. parsed \in Nat /\ update_counter \in 0..parsed
  BY DEF TuiInv, ServerOK, UiOK
<1>2. /\ ViewsOK(views', parsed + 1) /\ DOMAIN views' = DOMAIN vs
      /\ update_counter' \in Nat
  BY <1>1, ShownKeeps
<1>3. vs \in Seq(View) /\ views' \in Seq(View)
  BY <1>2 DEF ViewsOK
<1>p. ASSUME NEW l \in DOMAIN vs
      PROVE  LET w == IF l = k THEN Record(vs[k], parsed + 1) ELSE vs[l]
             IN /\ Like(views'[l], w)
                /\ views'[l].staged = w.current_line \/ views'[l].staged = w.staged
                /\ \/ /\ views'[l].staged = w.current_line
                      /\ screen' = DoUpdate(views') /\ update_counter' = 0
                   \/ /\ screen' = scr /\ update_counter' = update_counter + 1
                      /\ l = k => created \/ w.current_line <= Early \/ update_counter' < Threshold
  <2>1. update_counter \in Nat
    BY <1>1
  <2>2. QED
    BY <1>1, <2>1, ShownParts
<1>4. CASE screen' = DoUpdate(views') /\ update_counter' = 0
  <2>1. ASSUME NEW l \in DOMAIN vs PROVE views'[l].staged = views'[l].current_line
    <3>1. update_counter + 1 # 0
      BY <1>1
    <3>2. QED
      BY <1>4, <1>p, <3>1 DEF Like
  <2>2. QED
    BY <1>2, <1>3, <1>4, <2>1, Updated
<1>5. CASE screen' = scr /\ update_counter' = update_counter + 1
  <2>1. ASSUME NEW l \in DOMAIN vs
        PROVE  OnScreen(views'[l], scr[l], update_counter')
    <3> DEFINE w == IF l = k THEN Record(vs[k], parsed + 1) ELSE vs[l]
               u == views'[l]
    <3>1. /\ Like(u, w)
          /\ u.staged = w.current_line \/ u.staged = w.staged
          /\ l = k => created \/ w.current_line <= Early \/ update_counter' < Threshold
      <4>1. update_counter' # 0
        BY <1>1, <1>5
      <4>2. QED
        BY <1>p, <4>1
    <3>2. /\ w.current_line = IF l = k THEN vs[l].current_line + 1 ELSE vs[l].current_line
          /\ w.staged = vs[l].staged
      <4>1. vs[k] \in View /\ Fits(vs[k], parsed)
        BY <1>3 DEF ViewsOK
      <4>2. vs[k].current_line \in Nat /\ vs[k].current_line + 1 <= MaxEvents
        BY <1>1, <4>1, Counts DEF Fits
      <4>3. Record(vs[k], parsed + 1).current_line = vs[k].current_line + 1
            /\ Record(vs[k], parsed + 1).staged = vs[k].staged
        <5>1. parsed + 1 \in 1..MaxEvents
          BY <1>1, Counts
        <5>2. QED
          BY <4>1, <4>2, <5>1, RecordParts
      <4>4. QED
        BY <4>3
    <3>3. /\ scr[l] \in Nat /\ scr[l] <= vs[l].staged /\ vs[l].staged <= vs[l].current_line
          /\ vs[l].current_line - scr[l] <= update_counter
          /\ vs[l].current_line > Early => vs[l].current_line - scr[l] < Threshold
      BY DEF ScreenOK, OnScreen
    <3>4. vs[l] \in View /\ u \in View
      BY <1>2, <1>3
    <3>5. /\ vs[l].current_line \in Nat /\ u.current_line \in Nat
          /\ vs[l].staged \in Nat /\ u.staged \in Nat
      BY <3>4, Counts
    <3>6. u.current_line = w.current_line
      BY <3>1 DEF Like
    <3> HIDE DEF w, u
    <3>7. CASE l # k
      <4>1. u.current_line = vs[l].current_line
        BY <3>2, <3>6, <3>7
      <4>2. u.staged = vs[l].staged \/ u.staged = u.current_line
        BY <3>1, <3>2, <3>6
      <4>3. /\ scr[l] <= u.staged /\ u.staged <= u.current_line
            /\ u.current_line - scr[l] <= update_counter'
        BY <1>1, <1>5, <3>3, <3>5, <4>1, <4>2
      <4>4. QED
        BY <3>3, <4>1, <4>3 DEF OnScreen, u
    <3>8. CASE l = k
      <4>1. u.current_line = vs[l].current_line + 1
        BY <3>2, <3>6, <3>8
      <4>2. u.staged = vs[l].staged \/ u.staged = u.current_line
        BY <3>1, <3>2, <3>6
      <4>3. /\ scr[l] <= u.staged /\ u.staged <= u.current_line
            /\ u.current_line - scr[l] <= update_counter'
        BY <1>1, <1>5, <3>3, <3>5, <4>1, <4>2
      <4>4. u.current_line <= Early \/ update_counter' < Threshold
        BY <3>1, <3>5, <3>6, <3>8, <4>1, Counts
      <4>5. u.current_line > Early => u.current_line - scr[l] < Threshold
        BY <1>2, <3>3, <3>5, <4>3, <4>4, Counts
      <4>6. QED
        BY <3>3, <4>3, <4>5 DEF OnScreen, u
    <3>9. QED
      BY <3>7, <3>8
  <2>2. scr = [l \in DOMAIN vs |-> scr[l]]
    BY DEF ScreenOK
  <2>3. QED
    BY <1>2, <1>5, <2>1, <2>2 DEF ScreenOK
<1>6. QED
  BY <1>4, <1>5, <1>p

LEMMA ScreenKeeps == TuiInv /\ HeldInv /\ ScreenInv /\ TuiNext => ScreenInv'
<1> SUFFICES ASSUME TuiInv, HeldInv, ScreenInv, TuiNext
             PROVE  ScreenOK(views', screen', update_counter')
  BY DEF ScreenInv, ScreenOK, OnScreen
<1>1. /\ ViewsOK(views, parsed) /\ views \in Seq(View) /\ update_counter \in Nat
      /\ ScreenOK(views, screen, update_counter) /\ parsed \in Nat
  BY DEF TuiInv, ServerOK, UiOK, ViewsOK, ScreenInv
<1>2. CASE \/ SetUp \/ Connect \/ Emit \/ Disconnect \/ Interrupt \/ NoKey \/ Quit
           \/ Receive \/ KeepRest \/ WouldBlock
  <2>1. UNCHANGED <<views, screen, update_counter>>
    BY <1>2 DEF SetUp, Connect, Emit, Disconnect, Interrupt, NoKey, Quit, Key, AfterKeys,
                Receive, KeepRest, WouldBlock, uiVars
  <2>2. QED
    BY <1>1, <2>1
<1>3. CASE Right \/ Left \/ Down \/ Up
  <2>1. UNCHANGED <<screen, update_counter>>
    BY <1>3 DEF Right, Left, Down, Up, ScrollTo, Key, AfterKeys
  <2>2. /\ DOMAIN views' = DOMAIN views
        /\ \A l \in DOMAIN views : /\ views'[l].current_line = views[l].current_line
                                   /\ views'[l].staged = views[l].current_line
    BY <1>3, AllStaged
  <2>3. ASSUME NEW l \in DOMAIN views
        PROVE  OnScreen(views'[l], screen[l], update_counter)
    <3>1. views[l] \in View
      BY <1>1
    <3>2. /\ screen[l] \in Nat /\ screen[l] <= views[l].staged
          /\ views[l].staged <= views[l].current_line
          /\ views[l].current_line - screen[l] <= update_counter
          /\ views[l].current_line > Early => views[l].current_line - screen[l] < Threshold
      BY <1>1 DEF ScreenOK, OnScreen
    <3>3. screen[l] <= views[l].current_line /\ views[l].current_line <= views[l].current_line
      BY <3>1, <3>2, Counts
    <3>4. QED
      BY <2>2, <3>2, <3>3 DEF OnScreen
  <2>4. QED
    BY <1>1, <2>1, <2>2, <2>3 DEF ScreenOK
<1>4. CASE ReceiveNothing
  <2>1. UNCHANGED <<views, update_counter>> /\ screen' = DoUpdate(views)
    BY <1>4 DEF ReceiveNothing
  <2>2. \A k \in DOMAIN views :
          screen[k] \in Nat /\ screen[k] <= views[k].staged
          /\ OnScreen(views[k], screen[k], update_counter)
    BY <1>1 DEF ScreenOK, OnScreen
  <2>3. QED
    BY <1>1, <2>1, <2>2, Updated
<1>5. CASE ProcessTrace
  <2> DEFINE e == sent[parsed + 1]
  <2>1. PICK vs, scr, created :
          /\ ViewsOK(vs, parsed)
          /\ Finds(vs, scr, created, e.thread)
          /\ \/ \E k \in DOMAIN vs : vs[k].thread = e.thread /\ Shown(vs, scr, k, parsed + 1, created)
             \/ views' = vs /\ screen' = scr /\ update_counter' = update_counter
    BY <1>5, Processed
  <2>2. /\ ScreenOK(vs, scr, update_counter)
        /\ \A k \in DOMAIN vs : created /\ vs[k].thread = e.thread => vs[k].current_line = 0
    BY <2>1, FindsOnScreen
  <2>3. parsed + 1 <= MaxEvents
    BY <1>5, Processed
  <2>4. CASE \E k \in DOMAIN vs : vs[k].thread = e.thread /\ Shown(vs, scr, k, parsed + 1, created)
    BY <2>1, <2>2, <2>3, <2>4, ShownOnScreen
  <2>5. CASE views' = vs /\ screen' = scr /\ update_counter' = update_counter
    BY <2>2, <2>5
  <2>6. QED
    BY <2>1, <2>4, <2>5
<1>6. CASE Finish
  <2>1. views' = <<>> /\ screen' = <<>>
    BY <1>6 DEF Finish
  <2>2. DOMAIN views' = {} /\ screen' = [k \in DOMAIN views' |-> screen'[k]]
    BY <2>1
  <2>3. QED
    BY <2>2 DEF ScreenOK
<1>7. QED
  BY <1>2, <1>3, <1>4, <1>5, <1>6 DEF TuiNext, Loop

LEMMA ScreenStep == TuiInv /\ HeldInv /\ ScreenInv /\ [TuiNext]_tuiVars => ScreenInv'
<1>1. ScreenInv /\ UNCHANGED tuiVars => ScreenInv'
  <2> SUFFICES ASSUME ScreenInv, UNCHANGED tuiVars PROVE ScreenInv'
    OBVIOUS
  <2>1. UNCHANGED <<views, screen, update_counter>>
    BY DEF tuiVars, uiVars
  <2>2. QED
    BY <2>1 DEF ScreenInv, ScreenOK, OnScreen
<1>2. QED
  BY <1>1, ScreenKeeps

LEMMA ScreenBegins == views = <<>> /\ screen = <<>> => ScreenInv
<1> SUFFICES ASSUME views = <<>>, screen = <<>> PROVE ScreenInv
  OBVIOUS
<1>1. DOMAIN views = {} /\ screen = [k \in DOMAIN views |-> screen[k]]
  OBVIOUS
<1>2. QED
  BY <1>1 DEF ScreenInv, ScreenOK

LEMMA TuiAlways == TuiSpec => [](TuiInv /\ HeldInv /\ ScreenInv)
<1>1. TuiInit => ScreenInv
  BY ScreenBegins DEF TuiInit
<1>2. QED
  BY <1>1, HeldAlways, ScreenStep, PTL DEF TuiSpec

LEMMA TuiInvTyped == TuiInv /\ ScreenInv => TuiTypeOK
<1> SUFFICES ASSUME TuiInv, ScreenInv PROVE TuiTypeOK
  OBVIOUS
<1>1. ServerOK /\ UiOK
  BY DEF TuiInv
<1>2. update_counter \in 0..MaxEvents
  BY <1>1, TuiAssumption DEF ServerOK, UiOK
<1>3. \A i \in DOMAIN views : views[i].scroll <= Max({0, Below(views[i])})
  BY <1>1 DEF UiOK, ViewsOK, Fits
<1>4. ASSUME NEW k \in DOMAIN views
      PROVE  screen[k] \in 0..MaxEvents
  <2>1. views[k] \in View
    BY <1>1 DEF UiOK, ViewsOK
  <2>2. screen[k] \in Nat /\ screen[k] <= views[k].staged
    BY DEF ScreenInv, ScreenOK, OnScreen
  <2>3. QED
    BY <2>1, <2>2, Counts
<1>5. screen \in [DOMAIN views -> 0..MaxEvents]
  BY <1>4 DEF ScreenInv, ScreenOK
<1>6. QED
  BY <1>1, <1>2, <1>3, <1>5 DEF ServerOK, UiOK, ViewsOK, TuiTypeOK

\* Whatever keys are pressed and however the stream is cut, there are no more
\* views than fit the screen, one for each thread, one of them is active, and a
\* window never looks beyond the lines its thread has (tui_trace_server.c).
THEOREM TuiTyped == TuiSpec => []TuiTypeOK
BY TuiInvTyped, TuiAlways, PTL

LEMMA HeldKeepsUp == TuiInv /\ HeldInv /\ ScreenInv => ViewsKeepUp
<1> SUFFICES ASSUME HeldInv, ScreenInv, at # "ended" PROVE ViewsKeepUp
  BY DEF ViewsKeepUp
<1>1. HeldAll(views, sent, parsed, update_counter) /\ FullFor(views, sent, parsed)
  BY DEF HeldInv
<1>2. \A t : Own(t) = OwnOf(t, sent, parsed)
  BY DEF Own, OwnOf
<1>3. \A i \in DOMAIN views :
        /\ HoldsLatest(views[i].buffer, Own(views[i].thread))
        /\ views[i].current_line > Early => views[i].current_line - screen[i] < Threshold
  BY <1>1, <1>2 DEF HeldAll, Held, ScreenInv, ScreenOK, OnScreen
<1>4. QED
  BY <1>1, <1>3 DEF ViewsKeepUp, FullFor

\* However the connection cuts the stream into pieces and whatever keys are
\* pressed, each view holds the latest lines of its thread, in order and none
\* twice; a thread that has been read from goes without a view only while the
\* screen is full; and what the terminal was given of a view that has had more than
\* Early lines is not Threshold lines behind (record_line_for_thread, process_trace,
\* get_or_create_thread_view, redraw_all_windows of tui_trace_server.c).
THEOREM TuiViewsKeepUp == TuiSpec => []ViewsKeepUp
BY HeldKeepsUp, TuiAlways, PTL

\* What a view shows stays in view.
KeepsLines(i) ==
  IF Follows(views[i]) THEN Follows(views'[i])
  ELSE /\ views'[i].scroll = views[i].scroll
       /\ views'[i].current_line <= Capacity =>
            views'[i].buffer[views'[i].scroll + 1] = views[i].buffer[views[i].scroll + 1]

LEMMA PlaceKept ==
  TuiInv /\ HeldInv /\ TuiNext => (at = "lines" => \A i \in DOMAIN views : KeepsLines(i))
<1> SUFFICES ASSUME TuiInv, HeldInv, TuiNext, at = "lines", NEW i \in DOMAIN views
             PROVE  KeepsLines(i)
  OBVIOUS
<1>1. CASE views' = views
  BY <1>1 DEF KeepsLines, Follows, Below
<1>2. CASE ProcessTrace
  <2> DEFINE e == sent[parsed + 1]
  <2>0. /\ parsed \in Nat /\ update_counter \in Nat /\ ViewsOK(views, parsed)
        /\ HeldAll(views, sent, parsed, update_counter)
    BY DEF TuiInv, ServerOK, UiOK, HeldInv
  <2>1. parsed + 1 <= MaxEvents
    BY <1>2, Processed
  <2>2. PICK vs, scr, created :
          /\ ViewsOK(vs, parsed)
          /\ Finds(vs, scr, created, e.thread)
          /\ \/ \E k \in DOMAIN vs : Shown(vs, scr, k, parsed + 1, created)
             \/ views' = vs
    BY <1>2, Processed
  <2>3. i \in DOMAIN vs /\ Like(vs[i], views[i])
    <3>1. CASE vs = views
      BY <3>1 DEF Like
    <3>2. CASE vs = Opened(views, e.thread) /\ e.thread \in Traced
      <4>1. /\ DOMAIN vs = 1..(Len(views) + 1) /\ DOMAIN views = 1..Len(views)
            /\ \A l \in DOMAIN views : Like(vs[l], views[l])
        BY <2>0, <3>2, OpenedParts
      <4>2. Len(views) \in Nat
        BY <2>0 DEF ViewsOK
      <4>3. QED
        BY <4>1, <4>2
    <3>3. QED
      BY <2>2, <3>1, <3>2 DEF Finds
  <2>4. Like(views'[i], vs[i]) \/ Like(views'[i], Record(vs[i], parsed + 1))
    <3>1. CASE \E k \in DOMAIN vs : Shown(vs, scr, k, parsed + 1, created)
      <4>1. PICK k \in DOMAIN vs : Shown(vs, scr, k, parsed + 1, created)
        BY <3>1
      <4> DEFINE w == IF i = k THEN Record(vs[k], parsed + 1) ELSE vs[i]
      <4>2. Like(views'[i], w)
        BY <2>0, <2>1, <2>2, <2>3, <4>1, ShownParts
      <4>3. w = vs[i] \/ w = Record(vs[i], parsed + 1)
        OBVIOUS
      <4> HIDE DEF w
      <4>4. QED
        BY <4>2, <4>3
    <3>2. CASE views' = vs
      BY <3>2 DEF Like
    <3>3. QED
      BY <2>2, <3>1, <3>2
  <2>5. vs[i] \in View /\ Fits(vs[i], parsed) /\ Len(vs[i].buffer) <= vs[i].current_line
    <3>1. vs[i] \in View /\ Fits(vs[i], parsed)
      BY <2>2, <2>3 DEF ViewsOK
    <3>2. Len(views[i].buffer) <= views[i].current_line
      BY <2>0 DEF HeldAll, Held
    <3>3. QED
      BY <2>3, <3>1, <3>2 DEF Like
  <2>6. /\ Follows(vs[i]) => Follows(Record(vs[i], parsed + 1))
        /\ ~ Follows(vs[i]) =>
             /\ Record(vs[i], parsed + 1).scroll = vs[i].scroll
             /\ Record(vs[i], parsed + 1).current_line <= Capacity =>
                  Record(vs[i], parsed + 1).buffer[vs[i].scroll + 1]
                    = vs[i].buffer[vs[i].scroll + 1]
    BY <2>0, <2>1, <2>5, RecordPlace
  <2>7. \A u, w : Like(u, w) => (Follows(u) <=> Follows(w))
    BY DEF Like, Follows, Below
  <2>8. CASE Like(views'[i], vs[i])
    BY <2>3, <2>7, <2>8 DEF KeepsLines, Like
  <2>9. CASE Like(views'[i], Record(vs[i], parsed + 1))
    BY <2>3, <2>6, <2>7, <2>9 DEF KeepsLines, Like
  <2>10. QED
    BY <2>4, <2>8, <2>9
<1>3. views' = views \/ ProcessTrace
  BY DEF TuiNext, Loop, SetUp, Connect, Emit, Disconnect, Interrupt, NoKey, Quit, Right, Left,
         Down, Up, Key, Receive, KeepRest, ReceiveNothing, WouldBlock, Finish, uiVars
<1>4. QED
  BY <1>1, <1>2, <1>3

LEMMA PlaceKeptOrIdle ==
  TuiInv /\ HeldInv /\ [TuiNext]_tuiVars
    => [at = "lines" => \A i \in DOMAIN views : KeepsLines(i)]_tuiVars
BY PlaceKept

\* While lines are taken in, whoever looks at the last line of a view goes on
\* seeing the last line, and whoever has scrolled back keeps the lines in view
\* until the buffer drops some (record_line_for_thread).
THEOREM TuiKeepsPlace == TuiSpec => KeepsPlace
BY PlaceKeptOrIdle, HeldAlways, PTL DEF TuiSpec, KeepsPlace, KeepsLines

-----------------------------------------------------------------------------
(* The size of a type.  Unless two objects adjoin in the text, in each     *)
(* value that is returned and in each call that has begun the parser's     *)
(* numbers cover the platform's.                                           *)

Layouts == [size : Nat, align : Alignments]

Values == [size : Nat, align : Alignments, layout : Layouts,
           shape : {"plain", "flat", "nested"}, skipped : Nat]

Frames == [kind : {"pointer", "struct", "union"}, failed : BOOLEAN, offset : Nat,
           align : Alignments, layout : Layouts, flat : BOOLEAN]

\* A value is as large as it is laid out, and aligned at least as coarsely; of a
\* scalar or pointer both are exact, and of a struct without nesting the size is.
ValueCovers(v, apart) ==
  apart =>
    /\ v.skipped = 0
    /\ v.size # 0 =>
         /\ v.layout.align <= v.layout.size
         /\ v.layout.size <= v.size /\ v.layout.align <= v.align
         /\ v.shape # "nested" => v.size = v.layout.size
         /\ v.shape = "plain" => v.align = v.layout.align

\* So far as its members have been read.
FrameCovers(f, apart) ==
  apart =>
    /\ f.layout.size <= f.offset /\ f.layout.align <= f.align
    /\ f.offset # 0 => f.layout.size # 0
    /\ f.kind = "struct" /\ f.flat => f.layout.size = f.offset /\ f.layout.align = f.align

Apart(text) == ~ ObjectsAdjoin(text)

\* Up to place n the text ends in an object and marks.
AfterObject(text, n) ==
  \E i \in DOMAIN text :
    /\ i <= n /\ text[i].kind = "object"
    /\ \A k \in DOMAIN text : i < k /\ k <= n => text[k].kind = "mark"

TextOK ==
  /\ encoding \in Seq({Scalar(n) : n \in Alignments} \cup {Token(k) : k \in Kinds})
  /\ cursor \in 0..Len(encoding)

CallsOK ==
  /\ value \in Values /\ ValueCovers(value, Apart(encoding))
  /\ stack \in Seq(Frames) /\ \A k \in DOMAIN stack : FrameCovers(stack[k], Apart(encoding))
  /\ parsing = "fields" => stack # <<>>
  /\ parsing = "rest" => value.size = 8 /\ value.align = 8 /\ value.shape = "plain"
                         /\ value.layout = [size |-> 8, align |-> 8]
                         /\ AfterObject(encoding, cursor)

ParseInv ==
  /\ TextOK /\ CallsOK
  /\ parsing \in {"type", "rest", "fields", "value", "done"}
  /\ parsing = "done" => stack = <<>>

\* What rounding up to a power of two does.
LEMMA Rounds ==
  ASSUME NEW n \in Nat, NEW a \in Alignments
  PROVE  /\ RoundUp(n, a) \in Nat /\ n <= RoundUp(n, a)
         /\ n = 0 => RoundUp(n, a) = 0
         /\ n # 0 => a <= RoundUp(n, a)
BY DEF RoundUp, Alignments

\* A smaller number is rounded up to less, to a finer alignment.
LEMMA RoundsLess ==
  ASSUME NEW m \in Nat, NEW n \in Nat, m <= n, NEW a \in Alignments, NEW b \in Alignments, a <= b
  PROVE  RoundUp(m, a) <= RoundUp(n, b)
BY DEF RoundUp, Alignments

LEMMA Larger ==
  /\ \A m, n \in Int : MaxOf(m, n) >= m /\ MaxOf(m, n) >= n /\ MaxOf(m, n) \in {m, n}
  /\ \A m, n \in Alignments : MaxOf(m, n) \in Alignments
BY DEF MaxOf, Alignments

\* The guess is at least as coarse as any alignment that is no larger than the size.
LEMMA Guesses ==
  ASSUME NEW n \in Nat
  PROVE  Guess(n) \in Alignments /\ \A a \in Alignments : a <= n => a <= Guess(n)
BY DEF Guess, Alignments

LEMMA OfCovers ==
  ASSUME NEW n \in Alignments, NEW apart
  PROVE  Of(n) \in Values /\ ValueCovers(Of(n), apart)
<1>1. n \in Nat /\ n # 0
  BY DEF Alignments
<1>2. /\ Of(n).size = n /\ Of(n).align = n /\ Of(n).layout = [size |-> n, align |-> n]
      /\ Of(n).shape = "plain" /\ Of(n).skipped = 0
  BY DEF Of
<1>3. Of(n) \in Values
  BY <1>1 DEF Of, Values, Layouts
<1>4. Of(n).layout.size = n /\ Of(n).layout.align = n
  BY <1>2
<1>5. QED
  BY <1>1, <1>2, <1>3, <1>4 DEF ValueCovers

LEMMA UnknownCovers ==
  ASSUME NEW apart
  PROVE  Unknown \in Values /\ ValueCovers(Unknown, apart)
<1>1. Of(1) \in Values
  BY OfCovers DEF Alignments
<1>2. Unknown \in Values /\ Unknown.size = 0 /\ Unknown.skipped = 0
  BY <1>1 DEF Unknown, Values, Of
<1>3. QED
  BY <1>2 DEF ValueCovers

LEMMA BegunCovers ==
  ASSUME NEW kind \in {"pointer", "struct", "union"}, NEW failed \in BOOLEAN, NEW apart
  PROVE  Begun(kind, failed) \in Frames /\ FrameCovers(Begun(kind, failed), apart)
<1> DEFINE f == Begun(kind, failed)
<1>1. f \in Frames
  BY DEF Begun, Frames, Layouts, Alignments
<1>2. /\ f.offset = 0 /\ f.align = 1 /\ f.layout = [size |-> 0, align |-> 1]
  BY DEF Begun
<1>3. f.layout.size = 0 /\ f.layout.align = 1
  BY <1>2
<1>4. QED
  BY <1>1, <1>2, <1>3 DEF FrameCovers

\* A member more.
LEMMA FieldCovers ==
  ASSUME NEW apart, NEW f \in Frames, FrameCovers(f, apart), f.kind # "pointer",
         NEW v \in Values, ValueCovers(v, apart)
  PROVE  WithField(f, v) \in Frames /\ FrameCovers(WithField(f, v), apart)
<1> DEFINE g == WithField(f, v)
<1>1. /\ f.offset \in Nat /\ f.align \in Alignments /\ f.layout \in Layouts
      /\ f.flat \in BOOLEAN /\ f.kind \in {"struct", "union"}
  BY DEF Frames
<1>2. /\ v.size \in Nat /\ v.align \in Alignments /\ v.layout \in Layouts /\ v.skipped \in Nat
  BY DEF Values
<1>3. /\ f.layout.size \in Nat /\ f.layout.align \in Alignments
      /\ v.layout.size \in Nat /\ v.layout.align \in Alignments
  BY <1>1, <1>2 DEF Layouts
<1>4. Alignments \subseteq Nat \ {0}
  BY DEF Alignments
<1>5. CASE v.size = 0
  <2>1. g = [f EXCEPT !.failed = TRUE]
    BY <1>5 DEF WithField
  <2>2. g \in Frames
    BY <2>1 DEF Frames
  <2>3. /\ g.offset = f.offset /\ g.align = f.align /\ g.layout = f.layout
        /\ g.flat = f.flat /\ g.kind = f.kind
    BY <2>1 DEF Frames
  <2>4. QED
    BY <2>2, <2>3 DEF FrameCovers
<1>6. CASE v.size # 0
  <2> DEFINE l == Placed(f.layout, v.layout, v.skipped, f.kind)
  <2>1. /\ g.offset = RoundUp(f.offset, v.align) + v.size /\ g.align = MaxOf(f.align, v.align)
        /\ g.layout = l /\ g.flat = (f.flat /\ v.shape = "plain")
        /\ g.kind = f.kind
    BY <1>6 DEF WithField, Frames
  <2>2. RoundUp(f.offset, v.align) \in Nat /\ RoundUp(f.layout.size, v.layout.align) \in Nat
        /\ f.offset <= RoundUp(f.offset, v.align)
    BY <1>1, <1>2, <1>3, Rounds
  <2>3. /\ l.size = IF f.kind = "union" THEN MaxOf(f.layout.size, v.layout.size)
                    ELSE RoundUp(f.layout.size, v.layout.align) + v.layout.size + 8 * v.skipped
        /\ l.align = MaxOf(f.layout.align, v.layout.align)
        /\ l = [size |-> l.size, align |-> l.align]
    BY DEF Placed
  <2>4. l.size \in Nat /\ l.align \in Alignments /\ MaxOf(f.align, v.align) \in Alignments
    <3>1. MaxOf(f.layout.size, v.layout.size) \in Nat
      BY <1>3, Larger
    <3>2. QED
      BY <1>1, <1>2, <1>3, <2>2, <2>3, <3>1, Larger
  <2>5. l \in Layouts
    BY <2>3, <2>4 DEF Layouts
  <2>6. RoundUp(f.offset, v.align) + v.size \in Nat
    BY <1>2, <2>2
  <2>7. g \in Frames
    <3>1. g = [f EXCEPT !.offset = RoundUp(f.offset, v.align) + v.size,
                        !.align = MaxOf(f.align, v.align), !.layout = l,
                        !.flat = f.flat /\ v.shape = "plain"]
      BY <1>6 DEF WithField
    <3> HIDE DEF g, l
    <3>2. QED
      BY <2>4, <2>5, <2>6, <3>1 DEF Frames
  <2> HIDE DEF g, l
  <2>8. ASSUME apart
        PROVE  /\ g.layout.size <= g.offset /\ g.layout.align <= g.align
               /\ g.layout.size # 0
               /\ g.kind = "struct" /\ g.flat
                    => g.layout.size = g.offset /\ g.layout.align = g.align
    <3>1. v.skipped = 0
      BY <2>8 DEF ValueCovers
    <3>2. /\ f.layout.size <= f.offset /\ f.layout.align <= f.align
          /\ f.kind = "struct" /\ f.flat => f.layout.size = f.offset /\ f.layout.align = f.align
      BY <2>8 DEF FrameCovers
    <3>3. /\ v.layout.align <= v.layout.size
          /\ v.layout.size <= v.size /\ v.layout.align <= v.align
          /\ v.shape = "plain" => v.size = v.layout.size /\ v.align = v.layout.align
      BY <1>6, <2>8 DEF ValueCovers
    <3>4. RoundUp(f.layout.size, v.layout.align) <= RoundUp(f.offset, v.align)
      BY <1>1, <1>2, <1>3, <3>2, <3>3, RoundsLess
    <3>5. v.layout.size # 0
      <4>1. v.layout.align \in Nat /\ v.layout.align # 0
        BY <1>3, <1>4
      <4>2. \A m, n \in Nat : m # 0 /\ m <= n => n # 0
        OBVIOUS
      <4>3. QED
        BY <1>3, <3>3, <4>1, <4>2
    <3>6. l.size <= RoundUp(f.offset, v.align) + v.size /\ l.size # 0
      <4>1. CASE f.kind = "union"
        <5>1. MaxOf(f.layout.size, v.layout.size) \in {f.layout.size, v.layout.size}
              /\ MaxOf(f.layout.size, v.layout.size) >= v.layout.size
          BY <1>3, Larger
        <5>2. l.size \in {f.layout.size, v.layout.size} /\ l.size >= v.layout.size
          BY <2>3, <4>1, <5>1
        <5>3. QED
          BY <1>1, <1>2, <1>3, <2>2, <2>4, <3>2, <3>3, <3>5, <5>2
      <4>2. CASE f.kind # "union"
        <5>1. l.size = RoundUp(f.layout.size, v.layout.align) + v.layout.size
          BY <1>2, <1>3, <2>2, <2>3, <3>1, <4>2
        <5>2. \A p, q, m, n \in Nat : p <= q /\ m <= n /\ m # 0 => p + m <= q + n /\ p + m # 0
          OBVIOUS
        <5>3. v.layout.size <= v.size /\ v.size \in Nat
          BY <1>2, <3>3
        <5>4. /\ RoundUp(f.layout.size, v.layout.align) + v.layout.size
                   <= RoundUp(f.offset, v.align) + v.size
              /\ RoundUp(f.layout.size, v.layout.align) + v.layout.size # 0
          BY <1>3, <2>2, <3>4, <3>5, <5>2, <5>3
        <5>5. QED
          BY <5>1, <5>4
      <4>3. QED
        BY <4>1, <4>2
    <3>7. l.align <= MaxOf(f.align, v.align)
      BY <1>1, <1>2, <1>3, <2>3, <3>2, <3>3 DEF MaxOf, Alignments
    <3>8. ASSUME g.kind = "struct", g.flat
          PROVE  l.size = RoundUp(f.offset, v.align) + v.size /\ l.align = MaxOf(f.align, v.align)
      <4>1. f.kind = "struct" /\ f.flat /\ v.shape = "plain"
        BY <2>1, <3>8
      <4>2. /\ f.layout.size = f.offset /\ f.layout.align = f.align
            /\ v.layout.size = v.size /\ v.layout.align = v.align
        BY <3>2, <3>3, <4>1
      <4>3. l.size = RoundUp(f.layout.size, v.layout.align) + v.layout.size + 8 * v.skipped
        BY <2>3, <4>1
      <4>4. 8 * v.skipped = 0
        BY <3>1
      <4>5. l.size = RoundUp(f.offset, v.align) + v.size
        BY <2>2, <1>3, <4>2, <4>3, <4>4
      <4>6. QED
        BY <2>3, <4>2, <4>5
    <3>9. QED
      BY <2>1, <3>6, <3>7, <3>8
  <2>9. QED
    BY <2>7, <2>8 DEF FrameCovers, g
<1>7. QED
  BY <1>5, <1>6

\* All of a struct or union.
LEMMA WholeCovers ==
  ASSUME NEW apart, NEW f \in Frames, FrameCovers(f, apart)
  PROVE  Whole(f) \in Values /\ ValueCovers(Whole(f), apart)
<1> DEFINE size == RoundUp(f.offset, f.align)
           l == [f.layout EXCEPT !.size = RoundUp(@, f.layout.align)]
           w == Whole(f)
<1>1. /\ f.offset \in Nat /\ f.align \in Alignments /\ f.layout \in Layouts
      /\ f.layout.size \in Nat /\ f.layout.align \in Alignments
  BY DEF Frames, Layouts
<1>2. /\ w.size = size /\ w.align = Guess(size) /\ w.layout = l /\ w.skipped = 0
      /\ w.shape = IF f.kind = "struct" /\ f.flat THEN "flat" ELSE "nested"
      /\ w = [size |-> w.size, align |-> w.align, layout |-> w.layout, shape |-> w.shape,
              skipped |-> w.skipped]
  BY DEF Whole
<1>3. /\ size \in Nat /\ f.offset <= size /\ (f.offset = 0 => size = 0)
      /\ RoundUp(f.layout.size, f.layout.align) \in Nat
      /\ f.layout.size # 0 => f.layout.align <= RoundUp(f.layout.size, f.layout.align)
  BY <1>1, Rounds
<1>4. l \in Layouts /\ l.size = RoundUp(f.layout.size, f.layout.align) /\ l.align = f.layout.align
  BY <1>1, <1>3 DEF Layouts
<1> HIDE DEF size, l, w
<1>5. Guess(size) \in Alignments /\ \A a \in Alignments : a <= size => a <= Guess(size)
  BY <1>3, Guesses
<1>6. w \in Values
  BY <1>1, <1>2, <1>3, <1>4, <1>5 DEF Values
<1>7. ASSUME w.size # 0, apart
      PROVE  /\ l.align <= l.size /\ l.size <= size /\ l.align <= Guess(size)
             /\ w.shape # "nested" => size = l.size
             /\ w.shape # "plain"
  <2>1. /\ f.layout.size <= f.offset /\ f.layout.align <= f.align
        /\ f.offset # 0 => f.layout.size # 0
        /\ f.kind = "struct" /\ f.flat => f.layout.size = f.offset /\ f.layout.align = f.align
    BY <1>2, <1>7 DEF FrameCovers
  <2>2. f.layout.size # 0
    BY <1>2, <1>3, <1>7, <2>1
  <2>3. l.align <= l.size
    BY <1>3, <1>4, <2>2
  <2>4. l.size <= size
    BY <1>1, <1>4, <2>1, RoundsLess DEF size
  <2>5. l.align \in Alignments /\ l.align <= size
    <3>1. l.align \in Int /\ l.size \in Int
      BY <1>1, <1>3, <1>4 DEF Alignments
    <3>2. QED
      BY <1>1, <1>3, <1>4, <2>3, <2>4, <3>1
  <2>6. w.shape # "nested" => size = l.size
    BY <1>2, <1>4, <2>1 DEF size
  <2>7. w.shape # "plain"
    BY <1>2
  <2>8. QED
    BY <1>5, <2>3, <2>4, <2>5, <2>6, <2>7
<1>8. ValueCovers(w, apart)
  BY <1>2, <1>7 DEF ValueCovers
<1>9. QED
  BY <1>6, <1>8 DEF w

\* The stack with a call more, a call less, and another call on top.
LEMMA PushHolds ==
  ASSUME NEW apart, NEW s \in Seq(Frames), \A k \in DOMAIN s : FrameCovers(s[k], apart),
         NEW f \in Frames, FrameCovers(f, apart)
  PROVE  /\ Append(s, f) \in Seq(Frames) /\ Append(s, f) # <<>>
         /\ \A k \in DOMAIN Append(s, f) : FrameCovers(Append(s, f)[k], apart)
<1> DEFINE t == Append(s, f)
<1>1. t \in Seq(Frames) /\ Len(t) = Len(s) + 1 /\ Len(s) \in Nat
  OBVIOUS
<1>2. \A k \in 1..Len(t) : t[k] = IF k <= Len(s) THEN s[k] ELSE f
  OBVIOUS
<1>3. DOMAIN t = 1..Len(t) /\ DOMAIN s = 1..Len(s)
  BY <1>1
<1> HIDE DEF t
<1>4. ASSUME NEW k \in DOMAIN t
      PROVE  FrameCovers(t[k], apart)
  <2>1. CASE k <= Len(s)
    <3>1. k \in DOMAIN s
      BY <1>1, <1>3, <2>1
    <3>2. QED
      BY <1>2, <1>3, <2>1, <3>1
  <2>2. CASE ~ k <= Len(s)
    BY <1>2, <1>3, <2>2
  <2>3. QED
    BY <2>1, <2>2
<1>5. t # <<>>
  BY <1>1
<1>6. QED
  BY <1>1, <1>4, <1>5 DEF t

LEMMA Shortened ==
  ASSUME NEW s \in Seq(Frames), NEW m \in 0..Len(s)
  PROVE  /\ SubSeq(s, 1, m) \in Seq(Frames) /\ Len(SubSeq(s, 1, m)) = m
         /\ \A k \in 1..m : SubSeq(s, 1, m)[k] = s[k]
<1>1. SubSeq(s, 1, m) \in Seq(Frames)
  OBVIOUS
<1>2. Len(SubSeq(s, 1, m)) = m
  OBVIOUS
<1>3. \A k \in 1..m : SubSeq(s, 1, m)[k] = s[k]
  OBVIOUS
<1>4. QED
  BY <1>1, <1>2, <1>3

LEMMA PopHolds ==
  ASSUME NEW apart, NEW s \in Seq(Frames), s # <<>>, \A k \in DOMAIN s : FrameCovers(s[k], apart)
  PROVE  /\ s[Len(s)] \in Frames /\ FrameCovers(s[Len(s)], apart)
         /\ SubSeq(s, 1, Len(s) - 1) \in Seq(Frames)
         /\ \A k \in DOMAIN SubSeq(s, 1, Len(s) - 1) : FrameCovers(SubSeq(s, 1, Len(s) - 1)[k], apart)
<1> DEFINE m == Len(s) - 1
           t == SubSeq(s, 1, m)
<1>1. Len(s) \in Nat /\ Len(s) # 0 /\ DOMAIN s = 1..Len(s)
  OBVIOUS
<1>2. m \in 0..Len(s) /\ Len(s) \in DOMAIN s /\ \A k \in 1..m : k \in DOMAIN s
  BY <1>1
<1>3. s[Len(s)] \in Frames
  BY <1>2
<1> HIDE DEF m
<1>4. t \in Seq(Frames) /\ Len(t) = m /\ \A k \in 1..m : t[k] = s[k]
  BY <1>2, Shortened
<1> HIDE DEF t
<1>5. DOMAIN t = 1..m
  BY <1>4
<1>6. \A k \in DOMAIN t : FrameCovers(t[k], apart)
  BY <1>2, <1>4, <1>5
<1>7. QED
  BY <1>2, <1>3, <1>4, <1>6 DEF t, m

LEMMA TopHolds ==
  ASSUME NEW apart, NEW s \in Seq(Frames), s # <<>>, \A k \in DOMAIN s : FrameCovers(s[k], apart),
         NEW f \in Frames, FrameCovers(f, apart)
  PROVE  /\ [s EXCEPT ![Len(s)] = f] \in Seq(Frames) /\ [s EXCEPT ![Len(s)] = f] # <<>>
         /\ \A k \in DOMAIN [s EXCEPT ![Len(s)] = f] : FrameCovers([s EXCEPT ![Len(s)] = f][k], apart)
<1> DEFINE t == [s EXCEPT ![Len(s)] = f]
<1>1. Len(s) \in Nat /\ Len(s) # 0 /\ DOMAIN s = 1..Len(s)
  OBVIOUS
<1>2. DOMAIN t = DOMAIN s /\ \A k \in DOMAIN s : t[k] = IF k = Len(s) THEN f ELSE s[k]
  OBVIOUS
<1>3. t \in Seq(Frames) /\ Len(t) = Len(s)
  OBVIOUS
<1> HIDE DEF t
<1>4. t # <<>>
  BY <1>1, <1>3
<1>5. \A k \in DOMAIN t : FrameCovers(t[k], apart)
  BY <1>2
<1>6. QED
  BY <1>3, <1>4, <1>5 DEF t

\* What stands at the cursor.
LEMMA AtCursor ==
  ASSUME TextOK
  PROVE  /\ Kind \in Kinds \cup {"scalar", "end"}
         /\ Kind # "end" => cursor + 1 \in 0..Len(encoding)
         /\ Kind = "scalar" => encoding[cursor + 1].size \in Alignments
<1> DEFINE Tokens == {Scalar(n) : n \in Alignments} \cup {Token(k) : k \in Kinds}
<1>1. encoding \in Seq(Tokens) /\ cursor \in 0..Len(encoding) /\ Len(encoding) \in Nat
  BY DEF TextOK
<1>2. ASSUME NEW t \in Tokens
      PROVE  /\ t.kind \in Kinds \cup {"scalar"}
             /\ t.kind = "scalar" => t.size \in Alignments
  <2>1. CASE t \in {Scalar(n) : n \in Alignments}
    BY <2>1 DEF Scalar
  <2>2. CASE t \in {Token(k) : k \in Kinds}
    BY <2>2 DEF Token, Kinds
  <2>3. QED
    BY <2>1, <2>2
<1> HIDE DEF Tokens
<1>3. CASE cursor < Len(encoding)
  <2>1. cursor + 1 \in 1..Len(encoding) /\ cursor + 1 \in 0..Len(encoding)
    BY <1>1, <1>3
  <2>2. encoding[cursor + 1] \in Tokens
    BY <1>1, <2>1
  <2>3. Kind = encoding[cursor + 1].kind
    BY <1>3 DEF Kind
  <2>4. QED
    BY <1>2, <2>1, <2>2, <2>3
<1>4. CASE ~ cursor < Len(encoding)
  BY <1>4 DEF Kind
<1>5. QED
  BY <1>3, <1>4

\* Behind an object, and behind the marks behind it; an object there adjoins it.
LEMMA GoesOn ==
  ASSUME TextOK, Kind # "end", Consume
  PROVE  /\ Kind = "object" => AfterObject(encoding', cursor')
         /\ Kind = "mark" /\ AfterObject(encoding, cursor) => AfterObject(encoding', cursor')
         /\ Kind = "object" /\ AfterObject(encoding, cursor) => ~ Apart(encoding)
<1> DEFINE n == cursor + 1
<1>1. /\ cursor \in Nat /\ DOMAIN encoding = 1..Len(encoding) /\ Len(encoding) \in Nat
      /\ encoding' = encoding /\ cursor' = n
  BY DEF TextOK, Consume
<1>2. cursor < Len(encoding) /\ Kind = encoding[n].kind
  BY DEF Kind
<1>3. n \in DOMAIN encoding /\ \A k \in DOMAIN encoding : (k <= n <=> k <= cursor \/ k = n)
  BY <1>1, <1>2
<1>4. /\ \A k \in DOMAIN encoding : ~ (n < k /\ k <= n)
      /\ \A k \in DOMAIN encoding : k <= cursor => k < n
      /\ \A k \in DOMAIN encoding : k < n => k <= cursor
      /\ n <= n
  BY <1>1
<1> HIDE DEF n
<1>5. ASSUME Kind = "object"
      PROVE  AfterObject(encoding, n)
  BY <1>2, <1>3, <1>4, <1>5 DEF AfterObject
<1>6. ASSUME AfterObject(encoding, cursor), Kind \in {"mark", "object"}
      PROVE  \/ Kind = "mark" /\ AfterObject(encoding, n)
             \/ Kind = "object" /\ ~ Apart(encoding)
  <2>1. PICK i \in DOMAIN encoding :
          /\ i <= cursor /\ encoding[i].kind = "object"
          /\ \A k \in DOMAIN encoding : i < k /\ k <= cursor => encoding[k].kind = "mark"
    BY <1>6 DEF AfterObject
  <2>2. CASE Kind = "mark"
    <3>1. i <= n
      BY <1>3, <2>1
    <3>2. \A k \in DOMAIN encoding : i < k /\ k <= n => encoding[k].kind = "mark"
      BY <1>2, <1>3, <2>1, <2>2
    <3>3. AfterObject(encoding, n)
      BY <2>1, <3>1, <3>2 DEF AfterObject
    <3>4. QED
      BY <2>2, <3>3
  <2>3. CASE Kind = "object"
    <3>1. /\ i < n /\ encoding[n].kind = "object"
          /\ \A k \in DOMAIN encoding : i < k /\ k < n => encoding[k].kind = "mark"
      BY <1>2, <1>4, <2>1, <2>3
    <3>2. QED
      BY <1>3, <2>1, <2>3, <3>1 DEF Apart, ObjectsAdjoin
  <2>4. QED
    BY <1>6, <2>2, <2>3
<1>7. QED
  BY <1>1, <1>5, <1>6

LEMMA ParseStart == ParseInit => ParseInv
<1> SUFFICES ASSUME ParseInit PROVE ParseInv
  OBVIOUS
<1>1. encoding \in Seq({Scalar(n) : n \in Alignments} \cup {Token(k) : k \in Kinds})
  BY EncodingsAssumption DEF ParseInit
<1>2. cursor \in 0..Len(encoding)
  BY <1>1 DEF ParseInit
<1>3. stack \in Seq(Frames) /\ \A k \in DOMAIN stack : FrameCovers(stack[k], Apart(encoding))
  BY DEF ParseInit
<1>4. QED
  BY <1>1, <1>2, <1>3, UnknownCovers DEF ParseInit, ParseInv, TextOK, CallsOK

\* A character is consumed only where there is one.
LEMMA TextStays ==
  ASSUME TextOK, Stay \/ (Kind # "end" /\ Consume)
  PROVE  TextOK'
BY AtCursor DEF TextOK, Stay, Consume

LEMMA ParseStep == ParseInv /\ [ParseNext]_parseVars => ParseInv'
<1> SUFFICES ASSUME ParseInv, [ParseNext]_parseVars PROVE ParseInv'
  OBVIOUS
<1> USE DEF ParseInv
<1>1. /\ value \in Values /\ ValueCovers(value, Apart(encoding))
      /\ stack \in Seq(Frames) /\ \A k \in DOMAIN stack : FrameCovers(stack[k], Apart(encoding))
      /\ parsing = "fields" => stack # <<>>
      /\ parsing = "rest" => value.size = 8 /\ value.align = 8 /\ value.shape = "plain"
                             /\ value.layout = [size |-> 8, align |-> 8]
                             /\ AfterObject(encoding, cursor)
  BY DEF CallsOK
<1>2. /\ Kind \in Kinds \cup {"scalar", "end"}
      /\ Kind = "scalar" => encoding[cursor + 1].size \in Alignments
  BY AtCursor
<1>3. stack # <<>> => Top \in Frames /\ FrameCovers(Top, Apart(encoding))
  BY <1>1, PopHolds DEF Top
<1>4. 8 \in Alignments
  BY DEF Alignments
<1>5. CASE ReadScalar
  <2>1. Kind # "end" /\ Consume /\ cursor' = cursor + 1
    BY <1>5 DEF ReadScalar, Consume
  <2>2. value' = Of(encoding[cursor + 1].size) /\ encoding[cursor + 1].size \in Alignments
    BY <1>2, <1>5, <2>1 DEF ReadScalar, Return
  <2>3. value' \in Values /\ ValueCovers(value', Apart(encoding))
    BY <2>2, OfCovers
  <2>4. parsing' = "value" /\ stack' = stack
    BY <1>5 DEF ReadScalar, Return
  <2>5. CallsOK'
    BY <1>1, <2>1, <2>3, <2>4 DEF CallsOK, Consume
  <2>6. QED
    BY <2>1, <2>4, <2>5, TextStays
<1>6. CASE ReadVoid
  <2>1. Kind # "end" /\ Consume /\ value' = Unknown /\ parsing' = "value" /\ stack' = stack
    BY <1>6 DEF ReadVoid, Return
  <2>2. CallsOK'
    BY <1>1, <2>1, UnknownCovers DEF CallsOK, Stay, Consume
  <2>3. QED
    BY <2>1, <2>2, TextStays
<1>7. CASE ReadNothing
  <2>1. Stay /\ value' = Unknown /\ parsing' = "value" /\ stack' = stack
    BY <1>7 DEF ReadNothing, Return
  <2>2. CallsOK'
    BY <1>1, <2>1, UnknownCovers DEF CallsOK, Stay, Consume
  <2>3. QED
    BY <2>1, <2>2, TextStays
<1>8. CASE ReadObject
  <2>1. Kind # "end" /\ Consume /\ value' = Of(8) /\ parsing' = "rest" /\ stack' = stack
    BY <1>8 DEF ReadObject
  <2>2. value' \in Values /\ ValueCovers(value', Apart(encoding))
    BY <1>4, <2>1, OfCovers
  <2>3. value'.size = 8 /\ value'.align = 8 /\ value'.shape = "plain"
        /\ value'.layout = [size |-> 8, align |-> 8]
    BY <2>1 DEF Of
  <2>4. AfterObject(encoding', cursor') /\ encoding' = encoding
    BY <1>8, <2>1, GoesOn DEF ReadObject, Consume
  <2>5. CallsOK'
    BY <1>1, <2>1, <2>2, <2>3, <2>4 DEF CallsOK, Stay, Consume
  <2>6. QED
    BY <2>1, <2>5, TextStays
<1>9. CASE SkipRest
  <2> DEFINE n == IF Kind = "object" THEN value.skipped + 1 ELSE value.skipped
  <2>1. /\ Kind # "end" /\ Consume /\ parsing = "rest" /\ parsing' = "rest" /\ stack' = stack
        /\ value' = [value EXCEPT !.skipped = n]
    BY <1>9 DEF SkipRest
  <2>2. value.skipped \in Nat /\ n \in Nat
    BY <1>1 DEF Values
  <2> HIDE DEF n
  <2>3. /\ value'.size = 8 /\ value'.align = 8 /\ value'.shape = "plain"
        /\ value'.layout = [size |-> 8, align |-> 8] /\ value'.skipped = n /\ value' \in Values
    BY <1>1, <2>1, <2>2 DEF Values
  <2>4. value'.layout.size = 8 /\ value'.layout.align = 8
    BY <2>3
  <2>5. \/ Kind = "mark" /\ AfterObject(encoding', cursor')
        \/ Kind = "object" /\ ~ Apart(encoding)
    <3>1. Kind \in {"object", "mark"}
      BY <1>9 DEF SkipRest
    <3>2. AfterObject(encoding, cursor)
      BY <1>1, <2>1
    <3>3. CASE Kind = "object"
      BY <2>1, <3>2, <3>3, GoesOn
    <3>4. CASE Kind = "mark"
      BY <2>1, <3>2, <3>4, GoesOn
    <3>5. QED
      BY <3>1, <3>3, <3>4
  <2>6. AfterObject(encoding', cursor') /\ encoding' = encoding
    BY <2>1, <2>5, GoesOn DEF Consume
  <2>7. ASSUME Apart(encoding)
        PROVE  n = 0
    BY <1>1, <2>5, <2>7 DEF ValueCovers, n
  <2>8. ValueCovers(value', Apart(encoding))
    BY <2>3, <2>4, <2>7 DEF ValueCovers
  <2>9. CallsOK'
    BY <1>1, <2>1, <2>3, <2>6, <2>8 DEF CallsOK, Stay, Consume
  <2>10. QED
    BY <2>1, <2>9, TextStays
<1>10. CASE EndObject
  <2>1. Stay /\ value' = value /\ parsing' = "value" /\ stack' = stack
    BY <1>10 DEF EndObject, Return
  <2>2. CallsOK'
    BY <1>1, <2>1 DEF CallsOK, Stay, Consume
  <2>3. QED
    BY <2>1, <2>2, TextStays
<1>11. CASE ReadPointer
  <2> DEFINE f == Begun("pointer", FALSE)
  <2>1. /\ Kind # "end" /\ Consume /\ parsing = "type" /\ parsing' = "type" /\ value' = value
        /\ stack' = Append(stack, f)
    BY <1>11 DEF ReadPointer, Push
  <2>2. f \in Frames /\ FrameCovers(f, Apart(encoding))
    BY BegunCovers
  <2> HIDE DEF f
  <2>3. stack' \in Seq(Frames) /\ \A k \in DOMAIN stack' : FrameCovers(stack'[k], Apart(encoding))
    BY <1>1, <2>1, <2>2, PushHolds
  <2>4. CallsOK'
    BY <1>1, <2>1, <2>3 DEF CallsOK, Stay, Consume
  <2>5. QED
    BY <2>1, <2>4, TextStays
<1>12. CASE Enter
  <2> DEFINE f == Begun(Kind, FALSE)
  <2>1. /\ Kind \in {"struct", "union"} /\ Consume /\ parsing' = "fields" /\ value' = value
        /\ stack' = Append(stack, f)
    BY <1>12 DEF Enter, Push
  <2>2. f \in Frames /\ FrameCovers(f, Apart(encoding))
    BY <2>1, BegunCovers
  <2> HIDE DEF f
  <2>3. stack' \in Seq(Frames) /\ stack' # <<>> /\ \A k \in DOMAIN stack' : FrameCovers(stack'[k], Apart(encoding))
    BY <1>1, <2>1, <2>2, PushHolds
  <2>4. CallsOK'
    BY <1>1, <2>1, <2>3 DEF CallsOK, Stay, Consume
  <2>5. QED
    BY <2>1, <2>4, TextStays
<1>13. CASE Pointed
  <2>1. /\ Stay /\ parsing' = "value" /\ stack # <<>> /\ stack' = SubSeq(stack, 1, Len(stack) - 1)
        /\ value' = [Of(8) EXCEPT !.skipped = value.skipped]
    BY <1>13 DEF Pointed, Returned, Pop, Return
  <2>2. value.skipped \in Nat /\ (Apart(encoding) => value.skipped = 0)
    BY <1>1 DEF Values, ValueCovers
  <2>3. Of(8) \in Values /\ ValueCovers(Of(8), Apart(encoding))
    BY <1>4, OfCovers
  <2>4. Of(8).size = 8
    BY DEF Of
  <2>5. value' \in Values
    BY <2>1, <2>2, <2>3 DEF Values
  <2>6. /\ value'.size = Of(8).size /\ value'.align = Of(8).align /\ value'.shape = Of(8).shape
        /\ value'.layout = Of(8).layout /\ value'.skipped = value.skipped
    BY <2>1, <2>3 DEF Values
  <2>7. ValueCovers(value', Apart(encoding))
    BY <2>2, <2>3, <2>4, <2>6 DEF ValueCovers
  <2>8. stack' \in Seq(Frames) /\ \A k \in DOMAIN stack' : FrameCovers(stack'[k], Apart(encoding))
    BY <1>1, <2>1, PopHolds
  <2>9. CallsOK'
    BY <2>1, <2>5, <2>7, <2>8 DEF CallsOK, Stay, Consume
  <2>10. QED
    BY <2>1, <2>9, TextStays
<1>14. CASE AddField
  <2> DEFINE f == WithField(Top, value)
  <2>1. /\ Stay /\ parsing' = "fields" /\ value' = value /\ stack # <<>> /\ Top.kind # "pointer"
        /\ stack' = [stack EXCEPT ![Len(stack)] = f]
    BY <1>14 DEF AddField, Returned, Top
  <2>2. f \in Frames /\ FrameCovers(f, Apart(encoding))
    BY <1>1, <1>3, <2>1, FieldCovers
  <2> HIDE DEF f
  <2>3. stack' \in Seq(Frames) /\ stack' # <<>> /\ \A k \in DOMAIN stack' : FrameCovers(stack'[k], Apart(encoding))
    BY <1>1, <2>1, <2>2, TopHolds
  <2>4. CallsOK'
    BY <1>1, <2>1, <2>3 DEF CallsOK, Stay, Consume
  <2>5. QED
    BY <2>1, <2>4, TextStays
<1>15. CASE NextField
  <2>1. Stay /\ parsing' = "type" /\ stack' = stack /\ value' = value
    BY <1>15 DEF NextField
  <2>2. CallsOK'
    BY <1>1, <2>1 DEF CallsOK, Stay, Consume
  <2>3. QED
    BY <2>1, <2>2, TextStays
<1>16. CASE PassOver
  <2>1. /\ Kind # "end" /\ Consume /\ parsing = "fields" /\ parsing' = "fields"
        /\ stack' = stack /\ value' = value
    BY <1>16 DEF PassOver
  <2>2. CallsOK'
    BY <1>1, <2>1 DEF CallsOK, Stay, Consume
  <2>3. QED
    BY <2>1, <2>2, TextStays
<1>17. CASE PassInto
  <2> DEFINE f == Begun(Kind, TRUE)
  <2>1. /\ Kind \in {"struct", "union"} /\ Consume /\ parsing' = "fields" /\ value' = value
        /\ stack' = Append(stack, f)
    BY <1>17 DEF PassInto, Push
  <2>2. f \in Frames /\ FrameCovers(f, Apart(encoding))
    BY <2>1, BegunCovers
  <2> HIDE DEF f
  <2>3. stack' \in Seq(Frames) /\ stack' # <<>> /\ \A k \in DOMAIN stack' : FrameCovers(stack'[k], Apart(encoding))
    BY <1>1, <2>1, <2>2, PushHolds
  <2>4. CallsOK'
    BY <1>1, <2>1, <2>3 DEF CallsOK, Stay, Consume
  <2>5. QED
    BY <2>1, <2>4, TextStays
<1>18. CASE Leave
  <2>1. /\ Kind = "close" /\ Consume /\ parsing' = "value" /\ stack # <<>>
        /\ stack' = SubSeq(stack, 1, Len(stack) - 1)
        /\ value' = IF Top.failed THEN Unknown ELSE Whole(Top)
    BY <1>1, <1>18 DEF Leave, Pop, Return
  <2>2. value' \in Values /\ ValueCovers(value', Apart(encoding))
    BY <1>3, <2>1, UnknownCovers, WholeCovers
  <2>3. stack' \in Seq(Frames) /\ \A k \in DOMAIN stack' : FrameCovers(stack'[k], Apart(encoding))
    BY <1>1, <2>1, PopHolds
  <2>4. CallsOK'
    BY <2>1, <2>2, <2>3 DEF CallsOK, Stay, Consume
  <2>5. QED
    BY <2>1, <2>4, TextStays
<1>19. CASE Measure
  <2>1. Stay /\ parsing' = "done" /\ stack' = stack /\ stack = <<>> /\ value' = value
    BY <1>19 DEF Measure, Stay
  <2>2. CallsOK'
    BY <1>1, <2>1 DEF CallsOK, Stay, Consume
  <2>3. QED
    BY <2>1, <2>2, TextStays
<1>20. CASE UNCHANGED parseVars
  BY <1>20 DEF parseVars, TextOK, CallsOK
<1>21. QED
  BY <1>5, <1>6, <1>7, <1>8, <1>9, <1>10, <1>11, <1>12, <1>13, <1>14, <1>15, <1>16, <1>17,
     <1>18, <1>19, <1>20 DEF ParseNext

LEMMA ParseInside == ParseInv => CursorInside
BY DEF ParseInv, TextOK, CursorInside

LEMMA ParseAlways == ParseSpec => []ParseInv
BY ParseStart, ParseStep, PTL DEF ParseSpec

\* parse_type_and_advance never reads behind the end of the text, and no call of it or
\* of parse_struct_fields is open when it returns.
THEOREM ParserInside == ParseSpec => []CursorInside
BY ParseInside, ParseAlways, PTL

LEMMA ParseCovers == ParseInv => CoversLayout
<1> SUFFICES ASSUME ParseInv, value.size # 0, Apart(encoding)
             PROVE  /\ value.size >= value.layout.size
                    /\ value.shape # "nested" => value.size = value.layout.size
  BY DEF CoversLayout, Apart
<1>1. value \in Values /\ ValueCovers(value, Apart(encoding))
  BY DEF ParseInv, CallsOK
<1>2. value.layout.size \in Nat /\ value.size \in Nat
  BY <1>1 DEF Values, Layouts
<1>3. QED
  BY <1>1, <1>2 DEF ValueCovers

\* The size found for a type in which no object stands right behind another covers a
\* value of that type as the platform lays it out, and is exact where nothing nests
\* (parse_type_and_advance and parse_struct_fields of encoding_size.c); of a type in
\* which two objects adjoin it may be too small.
THEOREM SizeCovers == ParseSpec => []CoversLayout
BY ParseCovers, ParseAlways, PTL

\* Where the parser is, in the order in which it passes the places without consuming
\* a character or returning from a call.
Phase ==
  CASE parsing = "rest" -> 6
    [] parsing = "value" /\ value.size # 0 -> 5
    [] parsing = "fields" /\ ~ Top.failed -> 4
    [] parsing = "type" -> 3
    [] parsing = "value" /\ value.size = 0 -> 2
    [] parsing = "fields" /\ Top.failed -> 1
    [] OTHER -> 0

\* A step consumes a character, or returns from a call, or goes on in that order.
ParserAdvances ==
  \/ cursor' > cursor
  \/ cursor' = cursor /\ Len(stack') < Len(stack)
  \/ cursor' = cursor /\ Len(stack') = Len(stack) /\ Phase' < Phase

\* parse_type_and_advance and parse_struct_fields come to an end for any text: no
\* loop of theirs goes round without consuming anything, not even over a character
\* that begins no type.
THEOREM ParserGetsOn == ParseSpec => [][ParserAdvances]_parseVars
<1>1. ASSUME ParseInv, ParseNext
      PROVE  ParserAdvances
  <2>1. cursor \in Nat /\ stack \in Seq(Frames) /\ value \in Values
    BY <1>1 DEF ParseInv, TextOK, CallsOK
  <2>2. CASE Consume
    BY <2>1, <2>2 DEF Consume, ParserAdvances
  <2>3. CASE EndObject
    <3>1. parsing = "rest" /\ parsing' = "value" /\ Stay /\ stack' = stack /\ value' = value
      BY <2>3 DEF EndObject, Return
    <3>2. value.size = 8
      BY <1>1, <3>1 DEF ParseInv, CallsOK
    <3>3. Phase = 6 /\ Phase' = 5
      BY <3>1, <3>2 DEF Phase
    <3>4. QED
      BY <2>1, <3>1, <3>3 DEF ParserAdvances, Stay
  <2>4. CASE ReadNothing
    <3>1. parsing = "type" /\ parsing' = "value" /\ Stay /\ stack' = stack /\ value' = Unknown
      BY <2>4 DEF ReadNothing, Return
    <3>2. value'.size = 0
      BY <3>1 DEF Unknown, Of
    <3>3. Phase = 3 /\ Phase' = 2
      BY <3>1, <3>2 DEF Phase
    <3>4. QED
      BY <2>1, <3>1, <3>3 DEF ParserAdvances, Stay
  <2>5. CASE Pointed
    <3>1. Stay /\ stack # <<>> /\ stack' = SubSeq(stack, 1, Len(stack) - 1)
      BY <2>5 DEF Pointed, Returned, Pop
    <3> DEFINE m == Len(stack) - 1
    <3>2. Len(stack) \in Nat /\ Len(stack) # 0
      BY <2>1, <3>1
    <3>3. m \in 0..Len(stack) /\ m < Len(stack)
      BY <3>2
    <3>4. stack' = SubSeq(stack, 1, m)
      BY <3>1
    <3> HIDE DEF m
    <3>5. Len(stack') = m
      BY <2>1, <3>3, <3>4, Shortened
    <3>6. QED
      BY <3>1, <3>3, <3>5 DEF ParserAdvances, Stay
  <2>6. CASE AddField
    <3> DEFINE f == WithField(Top, value)
    <3>1. /\ Stay /\ parsing = "value" /\ parsing' = "fields" /\ value' = value /\ stack # <<>>
          /\ stack' = [stack EXCEPT ![Len(stack)] = f]
      BY <2>6 DEF AddField, Returned, Top
    <3>2. Len(stack) \in Nat /\ Len(stack) # 0 /\ DOMAIN stack = 1..Len(stack)
      BY <2>1, <3>1
    <3>3. Top \in Frames
      BY <2>1, <3>2 DEF Top
    <3>4. value.size = 0 => f.failed
      BY <3>3 DEF WithField, Frames
    <3> HIDE DEF f
    <3>5. Len(stack') = Len(stack)
      BY <2>1, <3>1
    <3>6. Top' = f
      BY <3>1, <3>2, <3>5 DEF Top
    <3>7. CASE value.size = 0
      <4>1. Phase = 2 /\ Phase' = 1
        BY <3>1, <3>4, <3>6, <3>7 DEF Phase
      <4>2. QED
        BY <3>1, <3>5, <4>1 DEF ParserAdvances, Stay
    <3>8. CASE value.size # 0
      <4>1. Phase = 5 /\ Phase' \in {1, 4}
        BY <3>1, <3>6, <3>8 DEF Phase
      <4>2. QED
        BY <3>1, <3>5, <4>1 DEF ParserAdvances, Stay
    <3>9. QED
      BY <3>7, <3>8
  <2>7. CASE NextField
    <3>1. parsing = "fields" /\ ~ Top.failed /\ parsing' = "type" /\ Stay /\ stack' = stack
      BY <2>7 DEF NextField
    <3>2. Phase = 4 /\ Phase' = 3
      BY <3>1 DEF Phase
    <3>3. QED
      BY <2>1, <3>1, <3>2 DEF ParserAdvances, Stay
  <2>8. CASE Measure
    <3>1. /\ parsing = "value" /\ parsing' = "done" /\ cursor' = cursor /\ stack' = stack
          /\ value' = value
      BY <2>8 DEF Measure
    <3>2. Phase \in {2, 5} /\ Phase' = 0
      BY <3>1 DEF Phase
    <3>3. QED
      BY <2>1, <3>1, <3>2 DEF ParserAdvances
  <2>9. QED
    BY <1>1, <2>2, <2>3, <2>4, <2>5, <2>6, <2>7, <2>8
       DEF ParseNext, ReadScalar, ReadVoid, ReadObject, SkipRest, ReadPointer, Enter,
           PassOver, PassInto, Leave
<1>2. ParseInv /\ [ParseNext]_parseVars => [ParserAdvances]_parseVars
  BY <1>1
<1>3. QED
  BY <1>2, ParseAlways, PTL DEF ParseSpec

-----------------------------------------------------------------------------
(* All parts, side by side. *)

AllInv ==
  /\ RestingMatch \/ MatchInv
  /\ RestingDeny \/ DenyInv
  /\ ParseInv /\ TuiInv /\ HeldInv /\ ScreenInv

LEMMA ParseRests == RestingParse => ParseInv
<1> SUFFICES ASSUME RestingParse PROVE ParseInv
  OBVIOUS
<1>1. TextOK
  BY DEF RestingParse, TextOK
<1>2. stack \in Seq(Frames) /\ \A k \in DOMAIN stack : FrameCovers(stack[k], Apart(encoding))
  BY DEF RestingParse
<1>3. QED
  BY <1>1, <1>2, UnknownCovers DEF RestingParse, ParseInv, CallsOK

LEMMA TuiRests == RestingTui => TuiInv /\ HeldInv /\ ScreenInv
<1> SUFFICES ASSUME RestingTui PROVE TuiInv /\ HeldInv /\ ScreenInv
  OBVIOUS
<1>1. views = <<>> /\ parsed = 0 /\ sent = <<>> /\ at = "ended"
  BY DEF RestingTui
<1>2. DOMAIN views = {} /\ Len(views) = 0 /\ views \in Seq(View) /\ Len(sent) = 0 /\ sent \in Seq(Events)
  BY <1>1
<1>3. ViewsOK(views, parsed)
  BY <1>2, TuiAssumption DEF ViewsOK
<1>4. ServerOK
  <2>1. 0 \in 0..Size /\ 0 <= MaxEvents
    BY TuiAssumption
  <2>2. parsed \in 0..Len(sent) /\ Len(sent) <= MaxEvents
    BY <1>1, <1>2, <2>1
  <2>3. /\ at = "ended" /\ running \in BOOLEAN /\ open \in BOOLEAN
        /\ pending = 0 /\ buffer_pos = 0
    BY DEF RestingTui
  <2>4. QED
    BY <1>2, <2>1, <2>2, <2>3 DEF ServerOK
<1>5. UiOK
  BY <1>1, <1>3 DEF RestingTui, UiOK
<1>6. HeldInv
  BY <1>1, <1>2 DEF HeldInv, HeldAll
<1>7. ScreenInv
  BY ScreenBegins DEF RestingTui
<1>8. QED
  BY <1>4, <1>5, <1>6, <1>7 DEF TuiInv

LEMMA AllStart == Init => AllInv
<1>1. TuiInit => TuiInv /\ HeldInv /\ ScreenInv
  BY TuiBegins, ScreenBegins DEF TuiInit
<1>2. QED
  BY <1>1, MatchStart, DenyStart, ParseStart, ParseRests, TuiRests DEF Init, AllInv

\* A part at rest stays at rest.
LEMMA MatchRests == RestingMatch /\ [MatchNext]_matchVars => RestingMatch'
<1> SUFFICES ASSUME RestingMatch, [MatchNext]_matchVars PROVE RestingMatch'
  OBVIOUS
<1>1. ~ MatchNext
  BY DEF RestingMatch, MatchNext, Nothing, MatchesAll, BeginMatch, InName, MeetStar, SameChar,
         OtherChar, Backtrack, Mismatch, NameEnds, SkipStar, Conclude
<1>2. QED
  BY <1>1 DEF RestingMatch, matchVars

LEMMA DenyRests == RestingDeny /\ [DenyNext]_denyVars => RestingDeny'
<1> SUFFICES ASSUME RestingDeny, [DenyNext]_denyVars PROVE RestingDeny'
  OBVIOUS
<1>1. ~ DenyNext
  BY DEF RestingDeny, DenyNext, Ignore, Hidden, BeginSearch, InRange, Found, GoRight,
         BeforeFirst, GoLeft, Absent
<1>2. QED
  BY <1>1 DEF RestingDeny, denyVars

LEMMA AllStep == AllInv /\ [Next]_vars => AllInv'
<1>1. [Next]_vars => /\ [MatchNext]_matchVars /\ [DenyNext]_denyVars
                     /\ [ParseNext]_parseVars /\ [TuiNext]_tuiVars
  <2>1. Next => /\ [MatchNext]_matchVars /\ [DenyNext]_denyVars
                /\ [ParseNext]_parseVars /\ [TuiNext]_tuiVars
    BY DEF Next, Match, Search, Parse, Interface
  <2>2. UNCHANGED vars => /\ UNCHANGED matchVars /\ UNCHANGED denyVars
                          /\ UNCHANGED parseVars /\ UNCHANGED tuiVars
    BY DEF vars
  <2>3. QED
    BY <2>1, <2>2
<1>2. QED
  BY <1>1, MatchStep, DenyStep, ParseStep, TuiStep, HeldStep, ScreenStep, MatchRests, DenyRests
     DEF AllInv

LEMMA AllAlways == Spec => []AllInv
BY AllStart, AllStep, PTL DEF Spec

\* Side by side, whichever part runs: positions stay inside what they point into and
\* each part keeps to its types (Sequential.tla), for every pattern, name, list,
\* selector, type and stream of events.
THEOREM AllTyped == Spec => []TypeOK
<1>1. AllInv => TypeOK
  <2> SUFFICES ASSUME AllInv PROVE TypeOK
    OBVIOUS
  <2>1. PointersInside
    <3>1. CASE RestingMatch
      BY <3>1 DEF RestingMatch, PointersInside
    <3>2. CASE MatchInv
      BY <3>2 DEF MatchInv
    <3>3. QED
      BY <3>1, <3>2 DEF AllInv
  <2>2. IndicesInside
    <3>1. CASE RestingDeny
      BY <3>1, ListFacts DEF RestingDeny, IndicesInside
    <3>2. CASE DenyInv
      BY <3>2 DEF DenyInv
    <3>3. QED
      BY <3>1, <3>2 DEF AllInv
  <2>3. CursorInside
    BY ParseInside DEF AllInv
  <2>4. TuiTypeOK
    BY TuiInvTyped DEF AllInv
  <2>5. QED
    BY <2>1, <2>2, <2>3, <2>4 DEF TypeOK
<1>2. QED
  BY <1>1, AllAlways, PTL

\* And what each part promises holds as well side by side: match_wildcard answers as
\* the glob, is_selector_denied finds what is listed, the size of a type in which no
\* object stands right behind another covers its layout, and the views hold what was
\* read, are given to the terminal once they have more than Early lines, and keep
\* their place.
THEOREM AllRight ==
  Spec => [](AnswersAsGlob /\ DeniedIffListed /\ CoversLayout /\ ViewsKeepUp) /\ KeepsPlace
<1>1. AllInv => AnswersAsGlob /\ DeniedIffListed /\ CoversLayout /\ ViewsKeepUp
  <2> SUFFICES ASSUME AllInv PROVE AnswersAsGlob /\ DeniedIffListed /\ CoversLayout /\ ViewsKeepUp
    OBVIOUS
  <2>1. AnswersAsGlob
    <3>1. CASE RestingMatch
      BY <3>1 DEF RestingMatch, AnswersAsGlob
    <3>2. CASE MatchInv
      BY <3>2 DEF MatchInv
    <3>3. QED
      BY <3>1, <3>2 DEF AllInv
  <2>2. DeniedIffListed
    <3>1. CASE RestingDeny
      BY <3>1 DEF RestingDeny, DeniedIffListed
    <3>2. CASE DenyInv
      BY <3>2 DEF DenyInv
    <3>3. QED
      BY <3>1, <3>2 DEF AllInv
  <2>3. CoversLayout /\ ViewsKeepUp
    BY ParseCovers, HeldKeepsUp DEF AllInv
  <2>4. QED
    BY <2>1, <2>2, <2>3
<1>2. AllInv /\ [Next]_vars => [at = "lines" => \A i \in DOMAIN views : KeepsLines(i)]_tuiVars
  <2>1. [Next]_vars => [TuiNext]_tuiVars
    BY DEF Next, Match, Search, Parse, Interface, vars
  <2>2. QED
    BY <2>1, PlaceKeptOrIdle DEF AllInv
<1>3. QED
  BY <1>1, <1>2, AllAlways, PTL DEF Spec, KeepsPlace, KeepsLines
=============================================================================
