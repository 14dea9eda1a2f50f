----------------------------- MODULE Sequential -----------------------------
(***************************************************************************)
(* The parts that run on one thread and share nothing, side by side: a     *)
(* behaviour is one of a single part, the others being at rest.            *)
(***************************************************************************)
EXTENDS Patterns, DenyList, Encodings, Tui

RestingMatch ==
  /\ given = FALSE /\ pattern = <<>> /\ name = <<>> /\ matching = "done" /\ matches = FALSE
  /\ str_ptr = 0 /\ pat_ptr = 0 /\ str_star = 0 /\ pat_star = 0
RestingDeny ==
  /\ selector = [first |-> "none", hash |-> 1] /\ searching = "done"
  /\ left = 0 /\ right = 0 /\ denied = FALSE
RestingParse ==
  encoding = <<>> /\ cursor = 0 /\ parsing = "done" /\ stack = <<>> /\ value = Unknown
RestingTui ==
  /\ at = "ended" /\ running = TRUE /\ open = FALSE
  /\ sent = <<>> /\ pending = 0 /\ buffer_pos = 0 /\ parsed = 0
  /\ views = <<>> /\ screen = <<>> /\ active = 1 /\ update_counter = 0

vars == <<matchVars, denyVars, parseVars, tuiVars>>

Init ==
  \/ MatchInit /\ RestingDeny /\ RestingParse /\ RestingTui
  \/ RestingMatch /\ DenyInit /\ RestingParse /\ RestingTui
  \/ RestingMatch /\ RestingDeny /\ ParseInit /\ RestingTui
  \/ RestingMatch /\ RestingDeny /\ RestingParse /\ TuiInit

Match == MatchNext /\ UNCHANGED <<denyVars, parseVars, tuiVars>>
Search == DenyNext /\ UNCHANGED <<matchVars, parseVars, tuiVars>>
Parse == ParseNext /\ UNCHANGED <<matchVars, denyVars, tuiVars>>
Interface == TuiNext /\ UNCHANGED <<matchVars, denyVars, parseVars>>

Next == Match \/ Search \/ Parse \/ Interface

\* A part that has begun goes on.
Spec ==
  /\ Init /\ [][Next]_vars /\ WF_vars(Match) /\ WF_vars(Search) /\ WF_vars(Parse)
  /\ WF_vars(Loop /\ UNCHANGED <<matchVars, denyVars, parseVars>>)

\* Each part keeps to its types, and its positions inside what they point into.
TypeOK == PointersInside /\ IndicesInside /\ CursorInside /\ TuiTypeOK

\* The searches and the parser come to an end, whatever they are given.
SearchesEnd == <>(matching = "done" /\ searching = "done" /\ parsing = "done")
=============================================================================
