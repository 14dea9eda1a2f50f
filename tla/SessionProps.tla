----------------------------- MODULE SessionProps -----------------------------
(* What a session of objsee-cli promises its user.                          *)
EXTENDS Session

Places == {"terminate", "monitor", "open", "opened", "wait", "check", "inject", "setup",
           "accept", "blocked", "head", "recv", "split"} \cup Ended

\* Every variable has its type; the buffer has room for its final NUL, and only
\* holds what was sent.
TypeOK ==
  /\ route \in Routes /\ cli \in Places /\ pid \in Processes \cup {Nobody}
  /\ running \in BOOLEAN /\ asked \in BOOLEAN /\ survived \in BOOLEAN
  /\ alive \subseteq Processes /\ ran \subseteq Processes /\ seenPids \subseteq ran
  /\ sem \in 0..2 /\ tries \in 0..MaxRetries
  /\ host \in Processes \cup {Nobody}
  /\ client \in {"none", "trying", "connected", "refused"}
  /\ sent \in 0..MaxBytes /\ newlines \subseteq 1..sent
  /\ base \in Nat /\ buffer_pos \in 0..(Size - 1) /\ base + buffer_pos <= sent
  /\ json_start \in base..(base + buffer_pos)
  /\ printed \in Seq([after : Nat, last : Nat])

\* However the stream is cut into pieces, the server prints each of its lines
\* that it has gone past, whole, once and in order, but the empty ones.
EachLineOnce ==
  /\ \A i \in 1..Len(printed) :
       /\ printed[i].last \in newlines /\ printed[i].after \in newlines \cup {0}
       /\ \A n \in newlines : ~ (printed[i].after < n /\ n < printed[i].last)
  /\ \A i, j \in 1..Len(printed) : i < j => printed[i].last <= printed[j].after
  /\ \A n \in newlines : n <= json_start =>
       n - 1 \in newlines \cup {0} \/ \E i \in 1..Len(printed) : printed[i].last = n

\* "Traced process disconnected" is true, and then nothing that was sent up to
\* the last newline is lost; but a line that fills the buffer ends the session too.
DisconnectIsTheEnd ==
  cli = "disconnected" =>
    \/ /\ host \notin alive /\ base + buffer_pos = sent
       /\ \A n \in newlines : n <= json_start
    \/ buffer_pos = Size - 1 /\ \A n \in newlines : ~ (base < n /\ n <= base + buffer_pos)

\* The application is terminated before its launch is watched: if that worked, the
\* process that the server follows is the launched one, which has the library,
\* whichever of the waits expired and whichever reports came late.
FollowsTheLaunched ==
  route = "launch" /\ Listening /\ ~ survived => pid = New /\ host = New

\* Once a client is accepted, an interrupt or the death of the target ends the
\* session, whatever is still in the stream.
ReceivingEnds ==
  (cli \in {"head", "recv", "split"} /\ (~ running \/ pid \notin alive)) ~> cli \in Ended
=============================================================================
