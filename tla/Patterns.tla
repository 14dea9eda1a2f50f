------------------------------ MODULE Patterns ------------------------------
(***************************************************************************)
(* match_wildcard of tracer_core.c: whether a name matches a pattern.      *)
(* Positions count the characters consumed; the one after is being read.   *)
(***************************************************************************)
EXTENDS Naturals, Sequences

CONSTANTS Chars, Star, PatternTexts, Names

ASSUME PatternsAssumption ==
  Star \in Chars /\ PatternTexts \subseteq Seq(Chars) /\ Names \subseteq Seq(Chars)

VARIABLES
  given,     \* neither the pattern nor the name is NULL
  pattern, name,
  matching,  \* entry, loop, tail, done
  str_ptr, pat_ptr,
  str_star, pat_star,  \* where the last '*' was met; pat_star = 0: none yet
  matches    \* the answer

matchVars == <<given, pattern, name, matching, str_ptr, pat_ptr, str_star, pat_star, matches>>

MatchInit ==
  /\ given \in BOOLEAN /\ pattern \in PatternTexts /\ name \in Names
  /\ matching = "entry" /\ matches = FALSE
  /\ str_ptr = 0 /\ pat_ptr = 0 /\ str_star = 0 /\ pat_star = 0

Answer(b) ==
  /\ matching' = "done" /\ matches' = b
  /\ UNCHANGED <<given, pattern, name, str_ptr, pat_ptr, str_star, pat_star>>

Move(s, p, ss, ps) ==
  /\ str_ptr' = s /\ pat_ptr' = p /\ str_star' = ss /\ pat_star' = ps
  /\ UNCHANGED <<given, pattern, name, matching, matches>>

Nothing == matching = "entry" /\ ~ given /\ Answer(FALSE)

MatchesAll == matching = "entry" /\ given /\ pattern \in {<<>>, <<Star>>} /\ Answer(TRUE)

BeginMatch ==
  /\ matching = "entry" /\ given /\ pattern \notin {<<>>, <<Star>>}
  /\ matching' = "loop"
  /\ UNCHANGED <<given, pattern, name, str_ptr, pat_ptr, str_star, pat_star, matches>>

\* *pat_ptr is c, where the end of the pattern is no character.
Reads(c) == pat_ptr < Len(pattern) /\ pattern[pat_ptr + 1] = c

InName == matching = "loop" /\ str_ptr < Len(name)

MeetStar == InName /\ Reads(Star) /\ Move(str_ptr, pat_ptr + 1, str_ptr, pat_ptr + 1)

SameChar ==
  /\ InName /\ ~ Reads(Star) /\ Reads(name[str_ptr + 1])
  /\ Move(str_ptr + 1, pat_ptr + 1, str_star, pat_star)

OtherChar == InName /\ ~ Reads(Star) /\ ~ Reads(name[str_ptr + 1])

\* Mutant: the comparison goes on behind what was compared already.
Backtrack_Onward ==
  /\ OtherChar /\ pat_star # 0
  /\ Move(str_ptr + 1, pat_star, str_ptr + 1, pat_star)

\* Mutant: str_star is not advanced.
Backtrack_Again ==
  /\ OtherChar /\ pat_star # 0
  /\ Move(str_star, pat_star, str_star, pat_star)

\* The last '*' takes one character more.
Backtrack ==
  /\ OtherChar /\ pat_star # 0
  /\ Move(str_star + 1, pat_star, str_star + 1, pat_star)

Mismatch == OtherChar /\ pat_star = 0 /\ Answer(FALSE)

NameEnds ==
  /\ matching = "loop" /\ str_ptr = Len(name)
  /\ matching' = "tail"
  /\ UNCHANGED <<given, pattern, name, str_ptr, pat_ptr, str_star, pat_star, matches>>

SkipStar == matching = "tail" /\ Reads(Star) /\ Move(str_ptr, pat_ptr + 1, str_star, pat_star)

Conclude == matching = "tail" /\ ~ Reads(Star) /\ Answer(pat_ptr = Len(pattern))

MatchNext ==
  \/ Nothing \/ MatchesAll \/ BeginMatch
  \/ MeetStar \/ SameChar \/ Backtrack \/ Mismatch \/ NameEnds
  \/ SkipStar \/ Conclude

MatchSpec == MatchInit /\ [][MatchNext]_matchVars

-----------------------------------------------------------------------------
\* f cuts the name along the first k characters of the pattern: the first n of
\* them stand for the first f[n] characters of the name.
Cuts(f, k) ==
  /\ f[0] = 0
  /\ \A n \in 1..k :
       IF pattern[n] = Star THEN f[n - 1] <= f[n]
       ELSE f[n] = f[n - 1] + 1 /\ name[f[n]] = pattern[n]

Cuttings == [0..Len(pattern) -> 0..Len(name)]

\* The pattern as a glob: '*' stands for any text, a character for itself.
Glob == \E f \in Cuttings : Cuts(f, Len(pattern)) /\ f[Len(pattern)] = Len(name)

\* The search stays inside both strings, and the place it would go back to is
\* not behind the one it has reached.
PointersInside ==
  /\ str_ptr \in 0..Len(name) /\ pat_ptr \in 0..Len(pattern)
  /\ str_star \in 0..str_ptr /\ pat_star \in 0..pat_ptr

\* The search with one place to go back to answers as the glob does, for names
\* that match in several ways too; only the empty pattern is special: it matches
\* every name (tracer_core.c:114).
AnswersAsGlob ==
  matching = "done" => (matches <=> given /\ (pattern = <<>> \/ Glob))
=============================================================================
