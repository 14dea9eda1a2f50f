---------------------------- MODULE TransportProps ----------------------------
(* What Transport guarantees: safety, the abstract channel it implements,  *)
(* and, under FairSpec, progress.                                          *)
EXTENDS Transport

ControlTypeOK ==
  /\ type \in Types
  /\ ipc \in {"create", "setup", "up", "stop", "signal", "join", "failed"}
  /\ tries \in 0..MaxRetries
  /\ running \in BOOLEAN
  /\ tpc \in {"none", "outer", "lock", "test", "towait", "waiting", "woken",
              "timedout", "tested", "send", "done", "dead"}

LockTypeOK ==
  /\ qlock \in Senders \cup {Thread, None}
  /\ wlock \in Senders \cup {None}

PcTypeOK == pc \in [Senders -> {"idle", "wlock", "copy", "direct", "qlock", "check",
                               "waiting", "woken", "timedout", "unlock"}]

MsgTypeOK ==
  /\ msg \in [Senders -> Message \cup {None}]
  /\ sent \in [Senders -> 0..MaxSends]

LoopTypeOK ==
  /\ hand \in Message \cup {None}
  /\ length \in {0, BodyLen, BodyLen + 1}
  /\ total \in 0..length
  /\ blocked \in Nat
  /\ retries \in 0..(MaxRetries - 1)

DataTypeOK ==
  /\ queue \in Seq(Message)
  /\ delivered \in Seq(Message)
  /\ wire \in Seq(Message \X Nat)
  /\ torn \subseteq Message

(* Every variable keeps to its type; connection attempts and retries stay  *)
(* below MAX_RETRIES, and no more is sent of a message than its length.    *)
TypeOK == /\ ControlTypeOK /\ LockTypeOK /\ PcTypeOK /\ MsgTypeOK
          /\ LoopTypeOK /\ DataTypeOK

\* Points of transport_send at which a sender holds write_lock.
InCall(s) == pc[s] \notin {"idle", "wlock"}

(* Senders are serialized for the whole of transport_send, its two-second  *)
(* wait included: at most one of them can wait for room, so the single     *)
(* pthread_cond_signal(not_full) of the transport thread wakes all there   *)
(* is to wake.                                                             *)
OneSenderAtATime ==
  \A s, t \in Senders : InCall(s) /\ InCall(t) => s = t

(* queue.messages has Capacity slots: messages[count++] stays inside, and  *)
(* the queue is only changed or tested by the holder of its lock.          *)
QueueInBounds ==
  /\ Len(queue) <= Capacity
  /\ \A s \in Senders : pc[s] = "check" <=> qlock = s
  /\ tpc \in {"test", "towait", "tested"} <=> qlock = Thread

\* The messages on their way: delivered, held by the thread, queued.
InHand == IF hand = None THEN <<>> ELSE <<hand>>
Pipeline == delivered \o InHand \o queue

(* Of each sender, messages leave in the order of its calls, none twice,   *)
(* although calls time out, fail, and messages are given up half sent.     *)
SenderOrder ==
  \A i, j \in 1..Len(Pipeline) :
     i < j /\ Pipeline[i].from = Pipeline[j].from
       => Pipeline[i].seq < Pipeline[j].seq

(* The reader of the socket splits at newlines.  Between two newlines it   *)
(* finds the bytes of one message, in order, each once; the only exceptions*)
(* are the messages given up after a part was sent, and those for which no *)
(* newline could be allocated.                                             *)
LinesWhole ==
  \A i \in 1..(Len(wire) - 1) :
     LET m == wire[i][1]
         k == wire[i][2]
     IN  \/ EndsLine(m, k)
         \/ wire[i + 1] = <<m, k + 1>>
         \/ m \in torn /\ wire[i + 1][2] = 1

(* The context is freed only when no thread can use it any more.           *)
ContextOutlivesThread == ipc = "failed" => tpc \in {"none", "done", "dead"}

(* The transport is a bounded channel; what transport_thread has taken and *)
(* not yet sent is still in the channel, hence one more than the queue.    *)
Channel == INSTANCE EventChannel WITH
             Bound <- Capacity + 1,
             pending <- InHand \o queue,
             open <- (tpc # "dead")
ImplementsChannel == Channel!ChSpec

(* transport_init returns: when the connection cannot be made, the join of *)
(* the transport thread ends although running is cleared and not_empty     *)
(* signalled without the lock, between the thread's test and its wait.     *)
InitReturns == <>(ipc \in {"up", "failed"})

(* Every call of transport_send returns, the transport thread dead or not. *)
SendReturns == \A s \in Senders : pc[s] # "idle" ~> pc[s] = "idle"

QueuedMessage(s, n) == \E i \in 1..Len(queue) : queue[i].from = s /\ queue[i].seq = n
Delivered(s, n) == \E i \in 1..Len(delivered) : delivered[i].from = s /\ delivered[i].seq = n

(* Every queued message is taken off the queue unless the thread dies:     *)
(* the retry limit ends every send loop.                                   *)
QueueDrains ==
  \A s \in Senders, n \in 1..MaxSends :
     QueuedMessage(s, n) ~> (~ QueuedMessage(s, n) \/ tpc = "dead")

(* README.md:323: tracer_set_output_file sends the trace to a file.  Every *)
(* message that was queued reaches it.                                     *)
FileOutputArrives ==
  \A s \in Senders, n \in 1..MaxSends :
     type = "FILE" /\ QueuedMessage(s, n) ~> Delivered(s, n)
=============================================================================
