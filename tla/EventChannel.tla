---------------------------- MODULE EventChannel ----------------------------
(***************************************************************************)
(* What the event transport promises to the code that records events: a    *)
(* bounded first-in first-out channel of whole messages.  An accepted      *)
(* message is delivered in the order of acceptance, or lost; once the      *)
(* consumer has died nothing more is delivered.  A refused message (the    *)
(* two-second timeout, no memory) never enters the channel, which is a     *)
(* stuttering step here.  Transport implements this specification.         *)
(***************************************************************************)
EXTENDS Naturals, Sequences

CONSTANTS Message,   \* what may be sent
          Bound      \* how many accepted messages may be in flight

VARIABLES pending,   \* accepted, not yet delivered or lost, oldest first
          delivered, \* delivered so far, in order
          open       \* FALSE once the consumer has died

chVars == <<pending, delivered, open>>

ChInit ==
  /\ pending = <<>>
  /\ delivered = <<>>
  /\ open = TRUE

Accept(m) ==
  /\ Len(pending) < Bound
  /\ pending' = Append(pending, m)
  /\ UNCHANGED <<delivered, open>>

\* Standard output and custom handlers consume the message inside the call.
PassThrough(m) ==
  /\ open
  /\ pending = <<>>
  /\ delivered' = Append(delivered, m)
  /\ UNCHANGED <<pending, open>>

Deliver ==
  /\ open
  /\ pending # <<>>
  /\ delivered' = Append(delivered, Head(pending))
  /\ pending' = Tail(pending)
  /\ UNCHANGED open

Lose ==
  /\ open
  /\ pending # <<>>
  /\ pending' = Tail(pending)
  /\ UNCHANGED <<delivered, open>>

\* The consumer dies with the message it was delivering.
Die ==
  /\ open
  /\ pending # <<>>
  /\ pending' = Tail(pending)
  /\ open' = FALSE
  /\ UNCHANGED delivered

ChNext ==
  \/ \E m \in Message : Accept(m) \/ PassThrough(m)
  \/ Deliver
  \/ Lose
  \/ Die

ChSpec == ChInit /\ [][ChNext]_chVars
=============================================================================
