--------------------------- MODULE TransportProofs ---------------------------
(***************************************************************************)
(* Proofs about Transport, for any senders, capacity, message length and   *)
(* retry limit.  The inductive invariant has these parts: the types, where *)
(* the initializing thread and the transport thread are (PhaseInv,         *)
(* HandInv, MsgInv), who holds the locks (LockInv), which transports use   *)
(* the queue (RouteInv), and the order of the messages on their way        *)
(* (OrderInv).  WireInv, what is on the wire, is inductive beside them.    *)
(***************************************************************************)
EXTENDS TransportProps, TLAPS

PhaseInv ==
  /\ ipc = "create" => tpc = "none" /\ tries = 0
  /\ ipc = "setup" => tries < MaxRetries
  /\ ContextOutlivesThread

HandInv ==
  /\ hand # None <=> tpc = "send"
  /\ hand # None => total < length
  /\ hand = None => total = 0

LockInv ==
  /\ \A s \in Senders : InCall(s) <=> wlock = s
  /\ QueueInBounds

InQueuePath(s) == pc[s] \in {"copy", "qlock", "check", "waiting", "woken", "timedout"}

RouteInv ==
  /\ Queued \/ (queue = <<>> /\ hand = None /\ tpc # "dead")
  /\ \A s \in Senders : InQueuePath(s) => Queued
  /\ \A s \in Senders : pc[s] = "direct" => ~ Queued

-----------------------------------------------------------------------------
(* What no step of a thread changes. *)

\* What the steps of transport_init leave alone.
LEMMA InitFrame ==
  InitStep => UNCHANGED <<type, wlock, msg, sent, hand, total, length, blocked, retries,
                          wire, delivered, torn, pc, queue, qlock>>
BY DEF InitStep, InitGoto, SpawnFails, Spawn, SetupSucceeds, ConnectFails, SetupFails,
       StopThread, SignalThread, Join, callVars, loopVars, outVars

\* What the steps of a sender leave alone.
LEMMA SenderFrame ==
  ASSUME NEW s \in Senders, SenderStep(s)
  PROVE  /\ UNCHANGED <<type, ipc, tries, running, hand, total, length, blocked, retries,
                        wire, torn>>
         /\ Call(s) \/ UNCHANGED <<msg, sent>>
         /\ Enqueue(s) \/ UNCHANGED <<queue, tpc>>
         /\ Direct(s) \/ UNCHANGED delivered
BY DEF SenderStep, SenderRuns, SenderLocks, Goto, Moves, Call, AcquireWrite, AcquireQueue,
       GiveUp, Enqueue, Direct, CopyFails, Copy, WaitForRoom, ReleaseWrite, WaitExpires,
       WakeForNothing, initVars, callVars, loopVars, outVars

\* What the steps of the transport thread leave alone; it touches senders
\* only by waking.
LEMMA ThreadFrame ==
  ThreadStep => /\ UNCHANGED <<type, ipc, tries, running, wlock, msg, sent>>
                /\ Take \/ UNCHANGED <<pc, queue>>
                /\ \/ Take \/ SendSome \/ SendRefused \/ SendFails
                   \/ UNCHANGED <<hand, total, length, blocked, retries, wire, delivered, torn>>
BY DEF ThreadStep, ThreadRuns, ReadRunning, TestQueue, LockQueue, WaitForMessage, Exit,
       NothingQueued, ThreadWaitExpires, ThreadWakesForNothing, ThreadMoves, Unlocks,
       ThreadGoto, Take, SendSome, SendRefused, SendFails, StaySending, EndSend, Abandon,
       initVars, callVars, loopVars, outVars
-----------------------------------------------------------------------------
\* The types, and who is where, at the start.
LEMMA InitTypes == Init => TypeOK /\ PhaseInv /\ HandInv
<1> SUFFICES ASSUME Init PROVE TypeOK /\ PhaseInv /\ HandInv
  OBVIOUS
<1>1. LockTypeOK
  BY DEF Init, LockTypeOK
<1>2. ControlTypeOK
  <2>1. tries \in 0..MaxRetries
    BY BoundsAssumption DEF Init
  <2>2. QED
    BY <2>1 DEF Init, ControlTypeOK
<1>3. PcTypeOK
  BY DEF Init, PcTypeOK
<1>4. MsgTypeOK
  BY BoundsAssumption DEF Init, MsgTypeOK
<1>5. LoopTypeOK
  BY BoundsAssumption DEF Init, LoopTypeOK
<1>6. DataTypeOK
  BY DEF Init, DataTypeOK
<1>7. PhaseInv
  BY DEF Init, PhaseInv, ContextOutlivesThread
<1>8. HandInv
  BY DEF Init, HandInv
<1>9. QED
  BY <1>1, <1>2, <1>3, <1>4, <1>5, <1>6, <1>7, <1>8 DEF TypeOK

\* The control of transport_init and of the thread keeps its type.
LEMMA ControlTypePreserved ==
  ASSUME ControlTypeOK, PhaseInv, Next
  PROVE  ControlTypeOK'
<1> USE DEF ControlTypeOK
<1>1. CASE InitStep
  <2>1. CASE ConnectFails
    BY <2>1, BoundsAssumption DEF ConnectFails, InitGoto, PhaseInv
  <2>2. CASE SignalThread
    BY <2>2 DEF SignalThread, InitGoto, WakeThread
  <2>3. QED
    BY <1>1, <2>1, <2>2 DEF InitStep, InitGoto, SpawnFails, Spawn, SetupSucceeds, SetupFails,
         StopThread, Join
<1>2. ASSUME NEW s \in Senders, SenderStep(s) PROVE ControlTypeOK'
  BY <1>2, SenderFrame DEF Enqueue, WakeThread
<1>3. CASE ThreadStep
  BY <1>3, ThreadFrame
     DEF ThreadStep, ThreadRuns, ReadRunning, TestQueue, LockQueue, WaitForMessage, Exit,
         NothingQueued, ThreadWaitExpires, ThreadWakesForNothing, ThreadMoves, Unlocks,
         ThreadGoto, Take, SendSome, SendRefused, SendFails, StaySending, EndSend, Abandon
<1>4. QED
  BY <1>1, <1>2, <1>3 DEF Next

\* The locks keep their type.
LEMMA LockTypePreserved ==
  ASSUME LockTypeOK, Next
  PROVE  LockTypeOK'
<1> USE DEF LockTypeOK
<1>1. ASSUME NEW s \in Senders, SenderStep(s) PROVE LockTypeOK'
  BY <1>1 DEF SenderStep, SenderRuns, SenderLocks, Moves, Call, AcquireWrite, AcquireQueue,
       GiveUp, Enqueue, Direct, CopyFails, Copy, WaitForRoom, ReleaseWrite, WaitExpires,
       WakeForNothing, callVars
<1>2. CASE ThreadStep
  BY <1>2, ThreadFrame
     DEF ThreadStep, ThreadRuns, ReadRunning, TestQueue, LockQueue, WaitForMessage, Exit,
         NothingQueued, ThreadWaitExpires, ThreadWakesForNothing, ThreadMoves, Unlocks,
         Take, SendSome, SendRefused, SendFails, StaySending, EndSend, Abandon
<1>3. QED
  BY <1>1, <1>2, InitFrame DEF Next

\* The places of the senders keep their type.
LEMMA PcTypePreserved ==
  ASSUME PcTypeOK, Next
  PROVE  PcTypeOK'
<1> USE DEF PcTypeOK
<1>1. ASSUME NEW s \in Senders, SenderStep(s) PROVE PcTypeOK'
  BY <1>1 DEF SenderStep, SenderRuns, SenderLocks, Goto, Moves, Call, AcquireWrite,
       AcquireQueue, GiveUp, Enqueue, Direct, CopyFails, Copy, WaitForRoom, ReleaseWrite,
       WaitExpires, WakeForNothing
<1>2. CASE ThreadStep
  BY <1>2, ThreadFrame DEF Take, SignalRoom, Goto
<1>3. QED
  BY <1>1, <1>2, InitFrame DEF Next

\* The messages of the senders keep their type.
LEMMA MsgTypePreserved ==
  ASSUME MsgTypeOK, Next
  PROVE  MsgTypeOK'
<1> USE DEF MsgTypeOK
<1>1. ASSUME NEW s \in Senders, SenderStep(s) PROVE MsgTypeOK'
  BY <1>1, SenderFrame, BoundsAssumption DEF Call, Message
<1>2. QED
  BY <1>1, InitFrame, ThreadFrame DEF Next

\* What is taken off the queue is a message, and the rest a queue.
LEMMA TakenMessage ==
  ASSUME DataTypeOK, Take
  PROVE  /\ hand' \in Message
         /\ length' \in {BodyLen, BodyLen + 1}
<1>1. Head(queue) \in Message
  BY DEF Take, DataTypeOK
<1>2. QED
  BY <1>1 DEF Take

\* The counters of the send loop keep their type.
LEMMA LoopTypePreserved ==
  ASSUME LoopTypeOK, DataTypeOK, HandInv, Next
  PROVE  LoopTypeOK'
<1> USE DEF LoopTypeOK
<1>1. CASE Take
  <2>1. hand = None /\ total = 0
    BY <1>1 DEF Take, ThreadGoto, HandInv
  <2>2. UNCHANGED <<total, blocked, retries>>
    BY <1>1 DEF Take
  <2>3. QED
    BY <2>1, <2>2, <1>1, TakenMessage, BoundsAssumption
<1>2. CASE SendSome
  BY <1>2, BoundsAssumption DEF SendSome, StaySending, EndSend, HandInv
<1>3. CASE SendRefused
  BY <1>3, BoundsAssumption DEF SendRefused, StaySending, EndSend, Abandon
<1>4. CASE SendFails
  BY <1>4, BoundsAssumption DEF SendFails, EndSend, Abandon
<1>5. CASE ThreadStep
  BY <1>1, <1>2, <1>3, <1>4, <1>5, ThreadFrame
<1>6. QED
  BY <1>5, InitFrame, SenderFrame DEF Next

(* A sender beyond Call has a message of its own.                          *)
MsgInv == \A s \in Senders : pc[s] # "idle" =>
            msg[s] \in Message /\ msg[s].from = s /\ msg[s].seq = sent[s]

\* The message a sender carries stays its latest.
LEMMA MsgInvPreserved ==
  ASSUME MsgTypeOK, PcTypeOK, MsgInv, Next
  PROVE  MsgInv'
<1> USE DEF MsgInv, PcTypeOK, MsgTypeOK
<1>1. ASSUME NEW s \in Senders, SenderStep(s) PROVE MsgInv'
  <2>1. CASE Call(s)
    BY <2>1, BoundsAssumption DEF Call, Goto, Message
  <2>2. CASE ~ Call(s)
    BY <1>1, <2>2, SenderFrame
       DEF SenderStep, SenderRuns, SenderLocks, Goto, Moves, AcquireWrite, AcquireQueue,
           GiveUp, Enqueue, Direct, CopyFails, Copy, WaitForRoom, ReleaseWrite,
           WaitExpires, WakeForNothing
  <2>3. QED
    BY <2>1, <2>2
<1>2. CASE ThreadStep
  BY <1>2, ThreadFrame DEF Take, SignalRoom, Goto
<1>3. QED
  BY <1>1, <1>2, InitFrame DEF Next

\* While a send is tried there is a message in hand.
LEMMA HandIsMessage ==
  ASSUME LoopTypeOK, HandInv, SendSome \/ SendRefused \/ SendFails
  PROVE  hand \in Message
BY DEF SendSome, SendRefused, SendFails, Abandon, StaySending, EndSend, ThreadGoto, HandInv,
       LoopTypeOK

\* The queue, the wire and the delivered messages keep their type.
LEMMA DataTypePreserved ==
  ASSUME TypeOK, HandInv, MsgInv, Next
  PROVE  DataTypeOK'
<1> USE DEF DataTypeOK, TypeOK
<1>1. ASSUME NEW s \in Senders, SenderStep(s) PROVE DataTypeOK'
  <2>1. CASE Enqueue(s)
    BY <1>1, <2>1, SenderFrame DEF Enqueue, Goto, MsgInv, outVars
  <2>2. CASE Direct(s)
    BY <1>1, <2>2, SenderFrame DEF Direct, Goto, MsgInv
  <2>3. QED
    BY <1>1, <2>1, <2>2, SenderFrame
<1>2. CASE ThreadStep
  <2>1. CASE Take
    BY <2>1 DEF Take, outVars
  <2>2. CASE SendSome
    <3>1. hand \in Message
      BY <2>2, HandIsMessage
    <3>2. PICK n \in 1..(length - total) :
            wire' = wire \o [i \in 1..n |-> <<hand, total + i>>]
      BY <2>2 DEF SendSome
    <3>3. [i \in 1..n |-> <<hand, total + i>>] \in Seq(Message \X Nat)
      BY <3>1, BoundsAssumption DEF LoopTypeOK
    <3>4. wire' \in Seq(Message \X Nat)
      BY <3>2, <3>3
    <3>5. UNCHANGED queue
      BY <2>2 DEF SendSome, StaySending, EndSend
    <3>6. torn' \subseteq Message
      BY <3>1, <2>2 DEF SendSome
    <3>7. delivered' = delivered \/ delivered' = Append(delivered, hand)
      BY <2>2 DEF SendSome
    <3>8. delivered' \in Seq(Message)
      <4>1. delivered \in Seq(Message)
        OBVIOUS
      <4>2. Append(delivered, hand) \in Seq(Message)
        BY <3>1, <4>1
      <4>3. QED
        BY <3>7, <4>1, <4>2
    <3>9. QED
      BY <3>4, <3>5, <3>6, <3>8
  <2>3. CASE SendRefused \/ SendFails
    <3>1. hand \in Message
      BY <2>3, HandIsMessage
    <3>2. /\ torn' = torn \/ torn' = torn \cup {hand}
          /\ UNCHANGED <<queue, wire, delivered>>
      BY <2>3 DEF SendRefused, SendFails, Abandon, StaySending, EndSend, outVars
    <3>3. QED
      BY <3>1, <3>2
  <2>4. QED
    BY <1>2, <2>1, <2>2, <2>3, ThreadFrame
<1>3. QED
  BY <1>1, <1>2, InitFrame DEF Next

\* The phases of transport_init and of the thread stay in step.
LEMMA PhasePreserved ==
  ASSUME TypeOK, PhaseInv, Next
  PROVE  PhaseInv'
<1> USE DEF PhaseInv, ContextOutlivesThread
<1>1. CASE InitStep
  <2>1. CASE ConnectFails
    BY <2>1, BoundsAssumption DEF ConnectFails, InitGoto, TypeOK, ControlTypeOK
  <2>2. CASE Spawn
    BY <2>2, BoundsAssumption DEF Spawn, InitGoto
  <2>3. CASE SignalThread
    BY <2>3 DEF SignalThread, InitGoto, WakeThread
  <2>4. QED
    BY <1>1, <2>1, <2>2, <2>3
       DEF InitStep, InitGoto, SpawnFails, SetupSucceeds, SetupFails, StopThread, Join
<1>2. ASSUME NEW s \in Senders, SenderStep(s) PROVE PhaseInv'
  BY <1>2, SenderFrame DEF Enqueue, WakeThread
<1>3. CASE ThreadStep
  <2>1. tpc \notin {"none", "done", "dead"}
    BY <1>3 DEF ThreadStep, ThreadRuns, ReadRunning, TestQueue, LockQueue, WaitForMessage,
           Exit, NothingQueued, ThreadWaitExpires, ThreadWakesForNothing, ThreadMoves,
           Unlocks, ThreadGoto, Take, SendSome, SendRefused, SendFails, StaySending, EndSend,
           Abandon
  <2>2. QED
    BY <1>3, <2>1, ThreadFrame
<1>4. QED
  BY <1>1, <1>2, <1>3 DEF Next

\* There is a message in hand exactly while it is being sent.
LEMMA HandPreserved ==
  ASSUME TypeOK, PhaseInv, HandInv, Next
  PROVE  HandInv'
<1> USE DEF HandInv
<1>1. CASE InitStep
  BY <1>1, InitFrame
     DEF InitStep, InitGoto, SpawnFails, Spawn, SetupSucceeds, ConnectFails, SetupFails,
         StopThread, SignalThread, Join, WakeThread, PhaseInv
<1>2. ASSUME NEW s \in Senders, SenderStep(s) PROVE HandInv'
  BY <1>2, SenderFrame DEF Enqueue, WakeThread
<1>3. CASE Take
  <2>1. hand' # None /\ total' = 0 /\ 0 < length'
    BY <1>3, TakenMessage, SendersAssumption, BoundsAssumption DEF Take, ThreadGoto, TypeOK
  <2>2. QED
    BY <1>3, <2>1 DEF Take, ThreadGoto
<1>4. CASE SendSome
  BY <1>4 DEF SendSome, StaySending, EndSend, ThreadGoto, TypeOK, LoopTypeOK
<1>5. CASE SendRefused \/ SendFails
  BY <1>5 DEF SendRefused, SendFails, Abandon, StaySending, EndSend, ThreadGoto
<1>6. CASE ThreadStep /\ ~ (Take \/ SendSome \/ SendRefused \/ SendFails)
  <2>1. tpc # "send" /\ tpc' # "send"
    BY <1>6 DEF ThreadStep, ThreadRuns, ReadRunning, TestQueue, LockQueue, WaitForMessage,
           Exit, NothingQueued, ThreadWaitExpires, ThreadWakesForNothing, ThreadMoves,
           Unlocks, ThreadGoto
  <2>2. QED
    BY <1>6, <2>1, ThreadFrame
<1>7. QED
  BY <1>1, <1>2, <1>3, <1>4, <1>5, <1>6 DEF Next
-----------------------------------------------------------------------------
(* Locks. *)

\* No lock is held at the start.
LEMMA InitLocks == Init => LockInv /\ MsgInv
BY SendersAssumption, BoundsAssumption DEF Init, LockInv, MsgInv, QueueInBounds, InCall

\* A signal of not_full moves waiting senders and no others.
LEMMA SignalWakes ==
  ASSUME PcTypeOK, SignalRoom
  PROVE  \A t \in Senders : pc'[t] = pc[t] \/ (pc[t] = "waiting" /\ pc'[t] = "woken")
<1>1. CASE UNCHANGED pc
  BY <1>1
<1>2. ASSUME NEW s \in Senders, Goto(s, "waiting", "woken")
      PROVE  \A t \in Senders : pc'[t] = pc[t] \/ (pc[t] = "waiting" /\ pc'[t] = "woken")
  BY <1>2 DEF Goto, PcTypeOK
<1>3. QED
  BY <1>1, <1>2 DEF SignalRoom

\* A sender is inside transport_send's critical section when it holds
\* write_lock.
LEMMA HoldsWrite ==
  ASSUME PcTypeOK, LockTypeOK, \A s \in Senders : InCall(s) <=> wlock = s, Next
  PROVE  \A s \in Senders : (InCall(s) <=> wlock = s)'
<1> USE SendersAssumption DEF InCall, PcTypeOK, LockTypeOK
<1>1. ASSUME NEW s \in Senders, SenderStep(s) PROVE \A t \in Senders : (InCall(t) <=> wlock = t)'
  BY <1>1
     DEF SenderStep, SenderRuns, SenderLocks, Goto, Moves, Call, AcquireWrite, AcquireQueue,
         GiveUp, Enqueue, Direct, CopyFails, Copy, WaitForRoom, ReleaseWrite, WaitExpires,
         WakeForNothing, callVars
<1>2. CASE ThreadStep
  <2>1. \A t \in Senders : pc'[t] = pc[t] \/ (pc[t] = "waiting" /\ pc'[t] = "woken")
    <3>1. CASE Take
      BY <3>1, SignalWakes DEF Take
    <3>2. CASE UNCHANGED pc
      BY <3>2
    <3>3. QED
      BY <1>2, <3>1, <3>2, ThreadFrame
  <2>2. QED
    BY <1>2, <2>1, ThreadFrame
<1>3. QED
  BY <1>1, <1>2, InitFrame DEF Next

\* Appends happen under the queue lock, with room: the bound is kept.
LEMMA HoldsQueue ==
  ASSUME PcTypeOK, LockTypeOK, DataTypeOK, PhaseInv, QueueInBounds, Next
  PROVE  QueueInBounds'
<1> USE SendersAssumption, BoundsAssumption DEF PcTypeOK, LockTypeOK, QueueInBounds
<1>1. CASE InitStep
  <2>1. \/ UNCHANGED tpc
        \/ tpc \in {"none", "waiting"} /\ tpc' \in {"outer", "woken"}
    BY <1>1 DEF InitStep, InitGoto, SpawnFails, Spawn, SetupSucceeds, ConnectFails,
         SetupFails, StopThread, SignalThread, Join, WakeThread, PhaseInv
  <2>2. QED
    BY <1>1, <2>1, InitFrame
<1>2. ASSUME NEW s \in Senders, SenderStep(s) PROVE QueueInBounds'
  <2>1. CASE Enqueue(s)
    <3>1. Len(queue') <= Capacity
      BY <2>1 DEF Enqueue, Full, DataTypeOK
    <3>2. QED
      BY <2>1, <3>1 DEF Enqueue, Goto, WakeThread
  <2>2. CASE ~ Enqueue(s)
    BY <1>2, <2>2, SenderFrame
       DEF SenderStep, SenderRuns, SenderLocks, Goto, Moves, Call, AcquireWrite,
           AcquireQueue, GiveUp, Direct, CopyFails, Copy, WaitForRoom, ReleaseWrite,
           WaitExpires, WakeForNothing
  <2>3. QED
    BY <2>1, <2>2
<1>3. CASE Take
  <2>1. Len(queue') <= Capacity
    BY <1>3 DEF Take, DataTypeOK
  <2>2. QED
    BY <1>3, <2>1 DEF Take, ThreadGoto, SignalRoom, Goto
<1>4. CASE ThreadStep /\ ~ Take
  BY <1>4, ThreadFrame
     DEF ThreadStep, ThreadRuns, ReadRunning, TestQueue, LockQueue, WaitForMessage, Exit,
         NothingQueued, ThreadWaitExpires, ThreadWakesForNothing, ThreadMoves, Unlocks,
         ThreadGoto, SendSome, SendRefused, SendFails, StaySending, EndSend, Abandon
<1>5. QED
  BY <1>1, <1>2, <1>3, <1>4 DEF Next

\* Nothing is under way at the start.
LEMMA InitRoute == Init => RouteInv
BY DEF Init, RouteInv, InQueuePath

\* Only a transport without a queue writes directly.
LEMMA RoutePreserved ==
  ASSUME TypeOK, HandInv, RouteInv, Next
  PROVE  RouteInv'
<1> USE DEF RouteInv, InQueuePath, Queued, TypeOK, PcTypeOK
<1>1. CASE InitStep
  <2>1. tpc' = "dead" => tpc = "dead"
    BY <1>1 DEF InitStep, SpawnFails, Spawn, SetupSucceeds, ConnectFails, SetupFails,
         StopThread, SignalThread, Join, WakeThread
  <2>2. QED
    BY <1>1, <2>1, InitFrame
<1>2. ASSUME NEW s \in Senders, SenderStep(s) PROVE RouteInv'
  <2>1. CASE Enqueue(s)
    BY <1>2, <2>1, SenderFrame DEF Enqueue, Goto
  <2>2. CASE ~ Enqueue(s)
    BY <1>2, <2>2, SenderFrame
       DEF SenderStep, SenderRuns, SenderLocks, Goto, Moves, Call, AcquireWrite,
           AcquireQueue, GiveUp, Direct, CopyFails, Copy, WaitForRoom, ReleaseWrite,
           WaitExpires, WakeForNothing
  <2>3. QED
    BY <2>1, <2>2
<1>3. CASE Take
  <2>1. Queued
    BY <1>3 DEF Take
  <2>2. \A t \in Senders : pc'[t] = pc[t] \/ (pc[t] = "waiting" /\ pc'[t] = "woken")
    BY <1>3, SignalWakes DEF Take
  <2>3. UNCHANGED type
    BY <1>3 DEF Take, ThreadGoto, initVars
  <2>4. QED
    BY <2>1, <2>2, <2>3
<1>4. CASE SendSome \/ SendRefused \/ SendFails
  <2>1. Queued
    BY <1>4 DEF SendSome, SendRefused, SendFails, Abandon, StaySending, EndSend, ThreadGoto,
                HandInv
  <2>2. QED
    BY <1>4, <2>1, ThreadFrame DEF SendSome, SendRefused, SendFails, Abandon, StaySending, EndSend, ThreadStep, ThreadRuns
<1>5. CASE ThreadStep /\ ~ (Take \/ SendSome \/ SendRefused \/ SendFails)
  <2>1. tpc' # "dead"
    BY <1>5 DEF ThreadStep, ThreadRuns, ReadRunning, TestQueue, LockQueue, WaitForMessage,
           Exit, NothingQueued, ThreadWaitExpires, ThreadWakesForNothing, ThreadMoves,
           Unlocks, ThreadGoto
  <2>2. QED
    BY <1>5, <2>1, ThreadFrame
<1>6. QED
  BY <1>1, <1>2, <1>3, <1>4, <1>5 DEF Next
-----------------------------------------------------------------------------
(* Order. *)

Earlier(a, b) == a.from = b.from => a.seq < b.seq

Ordered(q) == \A i, j \in 1..Len(q) : i < j => Earlier(q[i], q[j])

\* Sender s has a message that it has not handed over yet.
Holding(s) == pc[s] \notin {"idle", "unlock"}

\* m was sent before anything its sender has yet to hand over.
Past(m) == m.seq <= sent[m.from] /\ (Holding(m.from) => m.seq < sent[m.from])

DeliveredPast == \A i \in 1..Len(delivered) : Past(delivered[i])
QueuedPast    == \A i \in 1..Len(queue) : Past(queue[i])

OrderInv ==
  /\ Ordered(delivered)
  /\ Ordered(queue)
  /\ \A i \in 1..Len(delivered), j \in 1..Len(queue) : Earlier(delivered[i], queue[j])
  /\ hand # None => /\ \A i \in 1..Len(delivered) : Earlier(delivered[i], hand)
                    /\ \A j \in 1..Len(queue) : Earlier(hand, queue[j])
                    /\ Past(hand)
  /\ DeliveredPast
  /\ QueuedPast

\* The empty pipeline is in order.
LEMMA InitOrder == Init => OrderInv
BY DEF Init, OrderInv, Ordered, DeliveredPast, QueuedPast

\* Past in the next state, of a message of this one.
PastNext(m) ==
  m.seq <= sent'[m.from] /\ (pc'[m.from] \notin {"idle", "unlock"} => m.seq < sent'[m.from])

(* Past is for ever: a new call of the sender has a greater number.        *)
LEMMA PastPreserved ==
  ASSUME TypeOK, Next, NEW m \in Message, Past(m)
  PROVE  PastNext(m)
<1> USE DEF Past, PastNext, Holding, TypeOK, PcTypeOK, MsgTypeOK
<1>1. m.from \in Senders /\ m.seq \in Nat
  BY BoundsAssumption DEF Message
<1>2. ASSUME NEW s \in Senders, SenderStep(s) PROVE PastNext(m)
  <2>1. CASE Call(s)
    BY <1>1, <2>1, BoundsAssumption DEF Call, Goto
  <2>2. CASE ~ Call(s)
    <3>1. UNCHANGED sent
      BY <1>2, <2>2, SenderFrame
    <3>2. pc'[m.from] \in {"idle", "unlock"} \/ Holding(m.from)
      BY <1>1, <1>2, <2>2
         DEF SenderStep, SenderRuns, SenderLocks, Goto, Moves, AcquireWrite, AcquireQueue,
             GiveUp, Enqueue, Direct, CopyFails, Copy, WaitForRoom, ReleaseWrite,
             WaitExpires, WakeForNothing
    <3>3. QED
      BY <3>1, <3>2
  <2>3. QED
    BY <2>1, <2>2
<1>3. CASE ThreadStep
  <2>1. UNCHANGED sent
    BY <1>3, ThreadFrame
  <2>2. pc'[m.from] \in {"idle", "unlock"} \/ Holding(m.from)
    BY <1>1, <1>3, ThreadFrame, SignalWakes DEF Take
  <2>3. QED
    BY <2>1, <2>2
<1>4. CASE InitStep
  BY <1>4, InitFrame
<1>5. QED
  BY <1>2, <1>3, <1>4 DEF Next

\* Every step keeps the pipeline in the order of the sends.
LEMMA OrderPreserved ==
  ASSUME TypeOK, HandInv, MsgInv, RouteInv, OrderInv, Next
  PROVE  OrderInv'
<1> USE DEF OrderInv, DeliveredPast, QueuedPast
<1>1. /\ delivered \in Seq(Message) /\ queue \in Seq(Message)
      /\ hand # None => hand \in Message
  BY DEF TypeOK, DataTypeOK, LoopTypeOK
<1>2. /\ \A i \in 1..Len(delivered) : PastNext(delivered[i])
      /\ \A j \in 1..Len(queue) : PastNext(queue[j])
      /\ hand # None => PastNext(hand)
  <2>1. \A i \in 1..Len(delivered) : PastNext(delivered[i])
    BY <1>1, PastPreserved
  <2>2. \A j \in 1..Len(queue) : PastNext(queue[j])
    BY <1>1, PastPreserved
  <2>3. hand # None => PastNext(hand)
    BY <1>1, PastPreserved
  <2>4. QED
    BY <2>1, <2>2, <2>3
<1>3. CASE UNCHANGED <<delivered, queue, hand>>
  BY <1>2, <1>3 DEF Past, PastNext, Holding, Ordered, Earlier
<1>4. ASSUME NEW s \in Senders, Enqueue(s) PROVE OrderInv'
  <2>1. /\ msg[s] \in Message /\ msg[s].from = s /\ msg[s].seq = sent[s]
        /\ queue' = Append(queue, msg[s])
        /\ UNCHANGED <<delivered, hand, sent>>
    BY <1>4 DEF Enqueue, Goto, MsgInv, callVars, loopVars, outVars
  <2>2. Holding(s) /\ pc'[s] = "unlock"
    BY <1>4 DEF Enqueue, Goto, Holding, TypeOK, PcTypeOK
  <2>3. \A m \in Message : Past(m) => Earlier(m, msg[s])
    BY <2>1, <2>2 DEF Past, Earlier, Message
  <2>4. PastNext(msg[s])
    BY <2>1, <2>2, BoundsAssumption DEF PastNext, TypeOK, MsgTypeOK
  <2>5. Len(queue') = Len(queue) + 1 /\ queue'[Len(queue')] = msg[s]
        /\ \A j \in 1..Len(queue) : queue'[j] = queue[j]
    BY <1>1, <2>1
  <2>6. Ordered(queue') /\ Ordered(delivered')
    <3>1. \A i \in 1..Len(queue) : Earlier(queue[i], msg[s])
      BY <1>1, <2>3
    <3>2. QED
      BY <1>1, <2>1, <2>5, <3>1 DEF Ordered
  <2>7. \A i \in 1..Len(delivered'), j \in 1..Len(queue') : Earlier(delivered'[i], queue'[j])
    BY <1>1, <2>1, <2>3, <2>5
  <2>8. hand' # None => /\ \A i \in 1..Len(delivered') : Earlier(delivered'[i], hand')
                        /\ \A j \in 1..Len(queue') : Earlier(hand', queue'[j])
                        /\ PastNext(hand')
    BY <1>1, <1>2, <2>1, <2>3, <2>5
  <2>9. \A j \in 1..Len(queue') : PastNext(queue'[j])
    BY <1>1, <1>2, <2>4, <2>5
  <2>10. QED
    BY <1>2, <2>1, <2>6, <2>7, <2>8, <2>9 DEF Past, PastNext, Holding, Ordered
<1>5. ASSUME NEW s \in Senders, Direct(s) PROVE OrderInv'
  <2>1. /\ msg[s] \in Message /\ msg[s].from = s /\ msg[s].seq = sent[s]
        /\ delivered' = Append(delivered, msg[s])
        /\ UNCHANGED <<queue, hand, sent>>
        /\ queue = <<>> /\ hand = None
    BY <1>5 DEF Direct, Goto, MsgInv, callVars, loopVars, RouteInv
  <2>2. Holding(s) /\ pc'[s] = "unlock"
    BY <1>5 DEF Direct, Goto, Holding, TypeOK, PcTypeOK
  <2>3. \A m \in Message : Past(m) => Earlier(m, msg[s])
    BY <2>1, <2>2 DEF Past, Earlier, Message
  <2>4. PastNext(msg[s])
    BY <2>1, <2>2, BoundsAssumption DEF PastNext, TypeOK, MsgTypeOK
  <2>5. Len(delivered') = Len(delivered) + 1 /\ delivered'[Len(delivered')] = msg[s]
        /\ \A j \in 1..Len(delivered) : delivered'[j] = delivered[j]
    BY <1>1, <2>1
  <2>6. Ordered(delivered')
    BY <1>1, <2>1, <2>3, <2>5 DEF Ordered
  <2>7. \A j \in 1..Len(delivered') : PastNext(delivered'[j])
    BY <1>1, <1>2, <2>4, <2>5
  <2>8. QED
    BY <2>1, <2>6, <2>7 DEF Past, PastNext, Holding, Ordered
<1>6. CASE Take
  <2>1. /\ hand' = queue[1] /\ queue' = Tail(queue) /\ queue # <<>>
        /\ UNCHANGED <<delivered, sent>>
    BY <1>1, <1>6 DEF Take, ThreadGoto, callVars, outVars
  <2>2. /\ Len(queue') = Len(queue) - 1 /\ Len(queue) >= 1
        /\ \A j \in 1..Len(queue') : queue'[j] = queue[j + 1]
    BY <1>1, <2>1
  <2>3. Ordered(queue') /\ Ordered(delivered')
    BY <1>1, <2>1, <2>2 DEF Ordered
  <2>4. \A i \in 1..Len(delivered'), j \in 1..Len(queue') : Earlier(delivered'[i], queue'[j])
    BY <1>1, <2>1, <2>2
  <2>5. /\ \A i \in 1..Len(delivered') : Earlier(delivered'[i], hand')
        /\ \A j \in 1..Len(queue') : Earlier(hand', queue'[j])
        /\ PastNext(hand')
    BY <1>1, <1>2, <2>1, <2>2 DEF Ordered
  <2>6. \A j \in 1..Len(queue') : PastNext(queue'[j])
    BY <1>1, <1>2, <2>2
  <2>7. QED
    BY <1>2, <2>1, <2>3, <2>4, <2>5, <2>6 DEF Past, PastNext, Holding, Ordered
<1>7. CASE (SendSome \/ SendRefused \/ SendFails) /\ ~ UNCHANGED <<delivered, queue, hand>>
  <2>1. /\ hand # None /\ hand' = None
        /\ UNCHANGED queue
        /\ UNCHANGED delivered \/ delivered' = Append(delivered, hand)
    BY <1>7 DEF SendSome, SendRefused, SendFails, StaySending, Abandon, EndSend, ThreadGoto,
                outVars, HandInv
  <2>2. CASE UNCHANGED delivered
    BY <1>2, <2>1, <2>2 DEF Past, PastNext, Holding, Ordered
  <2>3. CASE delivered' = Append(delivered, hand)
    <3>1. Len(delivered') = Len(delivered) + 1 /\ delivered'[Len(delivered')] = hand
          /\ \A j \in 1..Len(delivered) : delivered'[j] = delivered[j]
      BY <1>1, <2>1, <2>3
    <3>2. Ordered(delivered')
      BY <1>1, <2>1, <3>1 DEF Ordered
    <3>3. \A i \in 1..Len(delivered'), j \in 1..Len(queue') : Earlier(delivered'[i], queue'[j])
      BY <1>1, <2>1, <3>1
    <3>4. \A i \in 1..Len(delivered') : PastNext(delivered'[i])
      BY <1>1, <1>2, <2>1, <3>1
    <3>5. QED
      BY <1>2, <2>1, <3>2, <3>3, <3>4 DEF Past, PastNext, Holding, Ordered
  <2>4. QED
    BY <2>1, <2>2, <2>3
<1>8. QED
  <2>1. ASSUME NEW s \in Senders, SenderStep(s), ~ Enqueue(s), ~ Direct(s)
        PROVE  UNCHANGED <<delivered, queue, hand>>
    BY <2>1, SenderFrame
  <2>2. ASSUME ThreadStep, ~ Take, ~ (SendSome \/ SendRefused \/ SendFails)
        PROVE  UNCHANGED <<delivered, queue, hand>>
    BY <2>2, ThreadFrame
  <2>3. QED
    BY <1>3, <1>4, <1>5, <1>6, <1>7, <2>1, <2>2, InitFrame DEF Next
-----------------------------------------------------------------------------
IInv == /\ TypeOK /\ PhaseInv /\ HandInv /\ MsgInv
        /\ LockInv /\ RouteInv /\ OrderInv

\* Every step keeps the invariant.
LEMMA NextPreserves == IInv /\ Next => IInv'
<1> SUFFICES ASSUME IInv, Next PROVE IInv'
  OBVIOUS
<1> USE DEF IInv
<1>1. TypeOK'
  BY ControlTypePreserved, LockTypePreserved, PcTypePreserved, MsgTypePreserved,
     LoopTypePreserved, DataTypePreserved DEF TypeOK
<1>2. PhaseInv' /\ HandInv' /\ MsgInv'
  BY PhasePreserved, HandPreserved, MsgInvPreserved DEF TypeOK
<1>3. LockInv'
  BY HoldsWrite, HoldsQueue DEF LockInv, TypeOK
<1>4. RouteInv' /\ OrderInv'
  BY RoutePreserved, OrderPreserved
<1>5. QED
  BY <1>1, <1>2, <1>3, <1>4

\* A step that changes nothing keeps the invariant.
LEMMA StutterPreserves == IInv /\ UNCHANGED vars => IInv'
<1> SUFFICES ASSUME IInv, UNCHANGED vars PROVE IInv'
  OBVIOUS
<1> USE DEF IInv, vars, initVars, callVars, loopVars, outVars
<1>1. TypeOK'
  BY DEF TypeOK, ControlTypeOK, LockTypeOK, PcTypeOK, MsgTypeOK, LoopTypeOK, DataTypeOK
<1>2. PhaseInv' /\ HandInv' /\ MsgInv'
  BY DEF PhaseInv, ContextOutlivesThread, HandInv, MsgInv
<1>3. LockInv' /\ RouteInv'
  BY DEF LockInv, QueueInBounds, InCall, RouteInv, InQueuePath, Queued
<1>4. OrderInv'
  BY DEF OrderInv, Ordered, DeliveredPast, QueuedPast, Past, Holding
<1>5. QED
  BY <1>1, <1>2, <1>3, <1>4

(* The invariant every result below rests on.                              *)
THEOREM Invariance == Spec => []IInv
<1>1. Init => IInv
  BY InitTypes, InitLocks, InitRoute, InitOrder DEF IInv
<1>2. IInv /\ [Next]_vars => IInv'
  BY NextPreserves, StutterPreserves
<1>3. QED
  BY <1>1, <1>2, PTL DEF Spec

(* Every variable keeps to its type; attempts and retries stay bounded.    *)
THEOREM TypeCorrect == Spec => []TypeOK
<1>1. IInv => TypeOK
  BY DEF IInv
<1>2. QED
  BY <1>1, Invariance, PTL

(* write_lock serializes transport_send, its wait for room included.       *)
THEOREM SendersExclude == Spec => []OneSenderAtATime
<1>1. IInv => OneSenderAtATime
  BY DEF IInv, LockInv, OneSenderAtATime
<1>2. QED
  BY <1>1, Invariance, PTL

(* The queue never outgrows its array, and only its lock's holder tests it. *)
THEOREM QueueBounded == Spec => []QueueInBounds
<1>1. IInv => QueueInBounds
  BY DEF IInv, LockInv
<1>2. QED
  BY <1>1, Invariance, PTL

(* A failed transport_init frees the context after the thread has ended.   *)
THEOREM NoUseAfterFree == Spec => []ContextOutlivesThread
<1>1. IInv => ContextOutlivesThread
  BY DEF IInv, PhaseInv
<1>2. QED
  BY <1>1, Invariance, PTL

\* Two ordered sequences, the first before the second, are ordered together.
LEMMA OrderedConcat ==
  ASSUME NEW p \in Seq(Message), NEW q \in Seq(Message), Ordered(p), Ordered(q),
         \A i \in 1..Len(p), j \in 1..Len(q) : Earlier(p[i], q[j])
  PROVE  Ordered(p \o q)
<1>1. /\ Len(p \o q) = Len(p) + Len(q)
      /\ \A i \in 1..Len(p \o q) : (p \o q)[i] = IF i <= Len(p) THEN p[i] ELSE q[i - Len(p)]
  OBVIOUS
<1>2. SUFFICES ASSUME NEW i \in 1..Len(p \o q), NEW j \in 1..Len(p \o q), i < j
               PROVE  Earlier((p \o q)[i], (p \o q)[j])
  BY DEF Ordered
<1>3. CASE j <= Len(p)
  BY <1>1, <1>2, <1>3 DEF Ordered
<1>4. CASE i <= Len(p) /\ ~ (j <= Len(p))
  BY <1>1, <1>2, <1>4
<1>5. CASE ~ (i <= Len(p))
  BY <1>1, <1>2, <1>5 DEF Ordered
<1>6. QED
  BY <1>3, <1>4, <1>5

(* Each sender's messages are delivered in the order of its calls and none *)
(* twice, whatever times out, fails or is given up.                        *)
THEOREM Fifo == Spec => []SenderOrder
<1>1. IInv => SenderOrder
  <2> SUFFICES ASSUME IInv PROVE SenderOrder
    OBVIOUS
  <2>1. delivered \in Seq(Message) /\ queue \in Seq(Message) /\ InHand \in Seq(Message)
    BY DEF IInv, TypeOK, DataTypeOK, LoopTypeOK, InHand
  <2>2. Ordered(delivered \o InHand)
    <3>1. Ordered(InHand) /\ \A i \in 1..Len(delivered), j \in 1..Len(InHand) :
                               Earlier(delivered[i], InHand[j])
      BY DEF IInv, OrderInv, InHand, Ordered
    <3>2. QED
      BY <2>1, <3>1, OrderedConcat DEF IInv, OrderInv
  <2>3. \A i \in 1..Len(delivered \o InHand), j \in 1..Len(queue) :
           Earlier((delivered \o InHand)[i], queue[j])
    <3>1. CASE hand = None
      <4>1. delivered \o InHand = delivered
        BY <2>1, <3>1 DEF InHand
      <4>2. QED
        BY <4>1 DEF IInv, OrderInv
    <3>2. CASE hand # None
      <4>1. /\ Len(delivered \o InHand) = Len(delivered) + 1
            /\ \A i \in 1..Len(delivered \o InHand) :
                  (delivered \o InHand)[i] = IF i <= Len(delivered) THEN delivered[i] ELSE hand
        BY <2>1, <3>2 DEF InHand
      <4>2. SUFFICES ASSUME NEW i \in 1..Len(delivered \o InHand), NEW j \in 1..Len(queue)
                     PROVE  Earlier((delivered \o InHand)[i], queue[j])
        OBVIOUS
      <4>3. CASE i <= Len(delivered)
        <5>1. i \in 1..Len(delivered) /\ (delivered \o InHand)[i] = delivered[i]
          BY <2>1, <4>1, <4>3
        <5>2. QED
          BY <5>1 DEF IInv, OrderInv
      <4>4. CASE ~ (i <= Len(delivered))
        <5>1. (delivered \o InHand)[i] = hand
          BY <4>1, <4>4
        <5>2. QED
          BY <3>2, <5>1 DEF IInv, OrderInv
      <4>5. QED
        BY <4>3, <4>4
    <3>3. QED
      BY <3>1, <3>2
  <2>4. Ordered((delivered \o InHand) \o queue)
    <3>1. delivered \o InHand \in Seq(Message)
      BY <2>1
    <3>2. Ordered(queue)
      BY DEF IInv, OrderInv
    <3>3. QED
      BY <2>1, <2>2, <2>3, <3>1, <3>2, OrderedConcat
  <2>5. QED
    BY <2>1, <2>4 DEF SenderOrder, Pipeline, Ordered, Earlier
<1>2. QED
  BY <1>1, Invariance, PTL
-----------------------------------------------------------------------------
(* Refinement. *)

\* The initial states map to initial states of the channel.
LEMMA InitMaps == Init => Channel!ChInit
BY DEF Init, InHand, Channel!ChInit

\* What the channel sees of a step: nothing, unless one of these is its step.
Visible == \/ \E s \in Senders : Enqueue(s) \/ Direct(s)
           \/ SendSome \/ SendRefused \/ SendFails

\* A step that neither accepts, ends, nor delivers a message is a stuttering
\* step.
LEMMA QuietMaps ==
  ASSUME TypeOK, PhaseInv, HandInv, Next, ~ Visible
  PROVE  UNCHANGED Channel!chVars
<1> USE DEF Visible, Channel!chVars
<1>1. CASE InitStep
  <2>1. (tpc' = "dead") <=> (tpc = "dead")
    BY <1>1 DEF InitStep, SpawnFails, Spawn, SetupSucceeds, ConnectFails, SetupFails,
         StopThread, SignalThread, Join, WakeThread, InitGoto, PhaseInv
  <2>2. QED
    BY <1>1, <2>1, InitFrame DEF InHand
<1>2. ASSUME NEW s \in Senders, SenderStep(s) PROVE UNCHANGED Channel!chVars
  BY <1>2, SenderFrame DEF InHand
<1>3. CASE Take
  <2>1. hand = None /\ queue \in Seq(Message) /\ queue # <<>>
    BY <1>3 DEF Take, ThreadGoto, HandInv, TypeOK, DataTypeOK
  <2>2. hand' = Head(queue) /\ queue' = Tail(queue) /\ Head(queue) # None
    BY <1>3, <2>1, TakenMessage, SendersAssumption DEF Take, TypeOK
  <2>3. InHand' = <<Head(queue)>> /\ InHand = <<>>
    BY <2>1, <2>2 DEF InHand
  <2>4. <<Head(queue)>> \o Tail(queue) = queue /\ <<>> \o queue = queue
    BY <2>1
  <2>5. QED
    BY <1>3, <2>2, <2>3, <2>4 DEF Take, ThreadGoto, outVars
<1>4. CASE ThreadStep /\ ~ Take
  <2>1. (tpc' = "dead") <=> (tpc = "dead")
    BY <1>4 DEF ThreadStep, ThreadRuns, ReadRunning, TestQueue, LockQueue, WaitForMessage,
           Exit, NothingQueued, ThreadWaitExpires, ThreadWakesForNothing, ThreadMoves,
           Unlocks, ThreadGoto
  <2>2. QED
    BY <1>4, <2>1, ThreadFrame DEF InHand
<1>5. QED
  BY <1>1, <1>2, <1>3, <1>4 DEF Next

\* Appending to the queue is accepting.
LEMMA EnqueueMaps ==
  ASSUME IInv, NEW s \in Senders, Enqueue(s)
  PROVE  Channel!Accept(msg[s]) /\ msg[s] \in Message
<1>1. msg[s] \in Message
  BY DEF IInv, MsgInv, Enqueue, Goto
<1>2. queue \in Seq(Message) /\ InHand \in Seq(Message) /\ Len(InHand) <= 1
  BY DEF IInv, TypeOK, DataTypeOK, LoopTypeOK, InHand
<1>3. Len(InHand \o queue) < Capacity + 1
  BY <1>2, BoundsAssumption DEF Enqueue, Full
<1>4. InHand \o Append(queue, msg[s]) = Append(InHand \o queue, msg[s])
  BY <1>1, <1>2
<1>5. UNCHANGED <<InHand, delivered>> /\ queue' = Append(queue, msg[s])
  BY DEF Enqueue, InHand, loopVars, outVars
<1>6. (tpc' # "dead") = (tpc # "dead")
  BY DEF Enqueue, WakeThread
<1>7. QED
  BY <1>1, <1>3, <1>4, <1>5, <1>6 DEF Channel!Accept

\* A direct write is passing through.
LEMMA DirectMaps ==
  ASSUME IInv, NEW s \in Senders, Direct(s)
  PROVE  Channel!PassThrough(msg[s]) /\ msg[s] \in Message
<1>1. msg[s] \in Message
  BY DEF IInv, MsgInv, Direct, Goto
<1>2. queue = <<>> /\ hand = None /\ tpc # "dead"
  BY DEF IInv, RouteInv, Direct, Goto
<1>3. UNCHANGED <<hand, queue, tpc>> /\ delivered' = Append(delivered, msg[s])
  BY DEF Direct, loopVars
<1>4. QED
  BY <1>1, <1>2, <1>3 DEF Channel!PassThrough, InHand

\* The message in hand is the oldest pending one.
LEMMA HeadOfChannel ==
  ASSUME IInv, SendSome \/ SendRefused \/ SendFails
  PROVE  /\ tpc = "send"
         /\ InHand \o queue # <<>>
         /\ Head(InHand \o queue) = hand
         /\ Tail(InHand \o queue) = queue
         /\ <<>> \o queue = queue
<1>1. tpc = "send" /\ hand # None
  BY DEF SendSome, SendRefused, SendFails, Abandon, StaySending, EndSend, ThreadGoto, IInv,
         HandInv
<1>2. queue \in Seq(Message) /\ hand \in Message
  BY <1>1 DEF IInv, TypeOK, DataTypeOK, LoopTypeOK
<1>3. QED
  BY <1>1, <1>2 DEF InHand

\* The outcomes of send complete a message, give it up, end the consumer, or
\* stutter.
LEMMA SendMaps ==
  ASSUME IInv, SendSome \/ SendRefused \/ SendFails
  PROVE  Channel!ChNext \/ UNCHANGED Channel!chVars
<1>1. CASE UNCHANGED <<hand, queue, delivered>> /\ tpc' = "send"
  BY <1>1, HeadOfChannel DEF Channel!chVars, InHand
<1>2. CASE EndSend("outer") /\ delivered' = Append(delivered, hand)
  <2>1. Channel!Deliver
    BY <1>2, HeadOfChannel DEF Channel!Deliver, EndSend, ThreadGoto, InHand
  <2>2. QED
    BY <2>1 DEF Channel!ChNext
<1>3. CASE EndSend("outer") /\ UNCHANGED delivered
  <2>1. Channel!Lose
    BY <1>3, HeadOfChannel DEF Channel!Lose, EndSend, ThreadGoto, InHand
  <2>2. QED
    BY <2>1 DEF Channel!ChNext
<1>4. CASE EndSend("dead") /\ UNCHANGED delivered
  <2>1. Channel!Die
    BY <1>4, HeadOfChannel DEF Channel!Die, EndSend, ThreadGoto, InHand
  <2>2. QED
    BY <2>1 DEF Channel!ChNext
<1>5. QED
  BY <1>1, <1>2, <1>3, <1>4
     DEF SendSome, SendRefused, SendFails, Abandon, StaySending, ThreadGoto, outVars

(* The transport implements the bounded lossy FIFO channel of EventChannel:*)
(* whatever times out or fails, messages leave in the order of acceptance, *)
(* at most Capacity + 1 are in flight, and a dead thread delivers nothing. *)
THEOREM Implements == Spec => ImplementsChannel
<1>1. Init => Channel!ChInit
  BY InitMaps
<1>2. IInv /\ [Next]_vars => [Channel!ChNext]_(Channel!chVars)
  <2> SUFFICES ASSUME IInv, [Next]_vars PROVE [Channel!ChNext]_(Channel!chVars)
    OBVIOUS
  <2>1. CASE UNCHANGED vars
    BY <2>1 DEF vars, loopVars, outVars, Channel!chVars, InHand
  <2>2. CASE Next /\ ~ Visible
    BY <2>2, QuietMaps DEF IInv
  <2>3. ASSUME NEW s \in Senders, Enqueue(s) PROVE Channel!ChNext
    BY <2>3, EnqueueMaps DEF Channel!ChNext
  <2>4. ASSUME NEW s \in Senders, Direct(s) PROVE Channel!ChNext
    BY <2>4, DirectMaps DEF Channel!ChNext
  <2>5. CASE SendSome \/ SendRefused \/ SendFails
    BY <2>5, SendMaps
  <2>6. QED
    BY <2>1, <2>2, <2>3, <2>4, <2>5 DEF Visible
<1>3. QED
  BY <1>1, <1>2, Invariance, PTL DEF Spec, ImplementsChannel, Channel!ChSpec
-----------------------------------------------------------------------------
(* The lines on the wire. *)

(* What is on the wire ends where the send loop is: at the byte sent last  *)
(* of the message in hand, or else at the end of a line or of a message    *)
(* that is given up.                                                       *)
WireInv ==
  /\ LinesWhole
  /\ total > 0 => wire # <<>> /\ wire[Len(wire)] = <<hand, total>>
  /\ total = 0 /\ wire # <<>> => \/ EndsLine(wire[Len(wire)][1], wire[Len(wire)][2])
                                \/ wire[Len(wire)][1] \in torn

\* A step that puts nothing on the wire and stays where it is in a message.
LEMMA WireUntouched ==
  ASSUME WireInv, wire' = wire, torn \subseteq torn', total' = total,
         hand' = hand \/ total = 0, LoopTypeOK
  PROVE  WireInv'
BY DEF WireInv, LinesWhole, EndsLine, LoopTypeOK

\* A message is given up: it is torn if a part of it was sent.
LEMMA WireAbandoned ==
  ASSUME WireInv, LoopTypeOK, NEW to, Abandon(to)
  PROVE  WireInv'
<1>1. wire' = wire /\ total' = 0 /\ torn \subseteq torn' /\ (total > 0 => hand \in torn')
  BY DEF Abandon, EndSend
<1>2. total = 0 \/ total > 0
  BY BoundsAssumption DEF LoopTypeOK
<1>3. LinesWhole'
  BY <1>1 DEF WireInv, LinesWhole, EndsLine
<1>4. wire # <<>> => \/ EndsLine(wire[Len(wire)][1], wire[Len(wire)][2])
                    \/ wire[Len(wire)][1] \in torn'
  BY <1>1, <1>2 DEF WireInv
<1>5. QED
  BY <1>1, <1>3, <1>4 DEF WireInv, EndsLine

\* The wire after n more bytes of the message in hand.
LEMMA WireAfter ==
  ASSUME LoopTypeOK, DataTypeOK, hand \in Message, NEW n \in Nat \ {0},
         wire' = wire \o [i \in 1..n |-> <<hand, total + i>>]
  PROVE  /\ Len(wire) \in Nat /\ total \in Nat
         /\ Len(wire') = Len(wire) + n
         /\ \A i \in 1..Len(wire) : wire'[i] = wire[i]
         /\ \A i \in 1..n : wire'[Len(wire) + i] = <<hand, total + i>>
         /\ wire = <<>> <=> Len(wire) = 0
<1>1. wire \in Seq(Message \X Nat)
  BY DEF DataTypeOK
<1>2. total \in Nat
  BY BoundsAssumption DEF LoopTypeOK
<1> DEFINE chunk == [i \in 1..n |-> <<hand, total + i>>]
<1>3. \A i \in 1..n : total + i \in Nat
  BY <1>2
<1>4. chunk \in Seq(Message \X Nat)
  BY <1>3
<1>5. Len(chunk) = n
  OBVIOUS
<1>6. wire' = wire \o chunk
  BY Zenon DEF chunk
<1> HIDE DEF chunk
<1>7. Len(wire') = Len(wire) + n /\ Len(wire) \in Nat
  BY <1>1, <1>4, <1>5, <1>6
<1>8. \A i \in 1..Len(wire) : wire'[i] = wire[i]
  BY <1>1, <1>4, <1>6
<1>9. \A i \in 1..n : wire'[Len(wire) + i] = chunk[i]
  <2> SUFFICES ASSUME NEW i \in 1..n PROVE wire'[Len(wire) + i] = chunk[i]
    OBVIOUS
  <2> DEFINE j == Len(wire) + i
  <2>1. j \in (Len(wire) + 1)..(Len(wire) + Len(chunk)) /\ j - Len(wire) = i
    BY <1>5, <1>7
  <2> HIDE DEF j
  <2>2. (wire \o chunk)[j] = chunk[j - Len(wire)]
    BY <1>1, <1>4, <1>7, <2>1
  <2>3. QED
    BY <1>6, <2>1, <2>2 DEF j
<1>10. \A i \in 1..n : chunk[i] = <<hand, total + i>>
  BY DEF chunk
<1>11. wire = <<>> <=> Len(wire) = 0
  BY <1>1
<1>12. QED
  BY <1>2, <1>7, <1>8, <1>9, <1>10, <1>11

\* A socket takes some bytes: they go on where the wire ended.
LEMMA WireExtended ==
  ASSUME WireInv, LoopTypeOK, DataTypeOK, HandInv, SendSome
  PROVE  WireInv'
<1>1. hand \in Message
  BY HandIsMessage
<1>2. length \in Nat /\ total \in Nat /\ total < length
  BY <1>1, SendersAssumption, BoundsAssumption DEF LoopTypeOK, HandInv
<1>3. PICK n \in 1..(length - total) :
        /\ wire' = wire \o [i \in 1..n |-> <<hand, total + i>>]
        /\ \/ /\ total' = total + n
              /\ hand' = hand /\ torn' = torn
           \/ /\ total + n = length
              /\ torn' = IF EndsLine(hand, length) THEN torn ELSE torn \cup {hand}
              /\ total' = 0
  BY DEF SendSome, StaySending, EndSend
<1>4. n \in Nat \ {0}
  BY <1>2
<1> DEFINE L == Len(wire)
<1>5. /\ L \in Nat
      /\ Len(wire') = L + n
      /\ \A i \in 1..L : wire'[i] = wire[i]
      /\ \A i \in 1..n : wire'[L + i] = <<hand, total + i>>
      /\ wire = <<>> <=> L = 0
  BY <1>1, <1>3, <1>4, WireAfter
<1> HIDE DEF L
<1>6. torn \subseteq torn'
  BY <1>3
<1>7. wire'[Len(wire')] = <<hand, total + n>>
  BY <1>4, <1>5
<1>8. wire' # <<>>
  BY <1>4, <1>5
<1>9. L > 0 => \/ EndsLine(wire[L][1], wire[L][2])
               \/ wire'[L + 1] = <<wire[L][1], wire[L][2] + 1>>
               \/ wire[L][1] \in torn' /\ wire'[L + 1][2] = 1
  <2>1. wire'[L + 1] = <<hand, total + 1>>
    BY <1>4, <1>5
  <2>2. CASE total = 0
    BY <2>1, <2>2, <1>5, <1>6 DEF WireInv, L
  <2>3. CASE total > 0
    BY <2>1, <2>3 DEF WireInv, L
  <2>4. QED
    BY <2>2, <2>3, <1>2
<1>10. ASSUME NEW i \in 1..(Len(wire') - 1)
       PROVE  \/ EndsLine(wire'[i][1], wire'[i][2])
              \/ wire'[i + 1] = <<wire'[i][1], wire'[i][2] + 1>>
              \/ wire'[i][1] \in torn' /\ wire'[i + 1][2] = 1
  <2>1. CASE i < L
    <3>1. i \in 1..(L - 1) /\ wire'[i] = wire[i] /\ wire'[i + 1] = wire[i + 1]
      BY <2>1, <1>4, <1>5
    <3>2. QED
      BY <3>1, <1>6 DEF WireInv, LinesWhole, L
  <2>2. CASE i = L
    BY <2>2, <1>5, <1>9
  <2>3. CASE i > L
    <3> DEFINE k == i - L
    <3>1. k \in 1..n /\ k + 1 \in 1..n /\ L + k = i /\ L + (k + 1) = i + 1
      BY <2>3, <1>4, <1>5
    <3> HIDE DEF k
    <3>2. wire'[L + k] = <<hand, total + k>> /\ wire'[L + (k + 1)] = <<hand, total + (k + 1)>>
      BY <3>1, <1>5
    <3>3. wire'[i] = <<hand, total + k>> /\ wire'[i + 1] = <<hand, total + (k + 1)>>
      BY <3>1, <3>2
    <3>4. total + (k + 1) = (total + k) + 1
      BY <3>1, <1>2
    <3>5. QED
      BY <3>3, <3>4
  <2>4. QED
    BY <2>1, <2>2, <2>3, <1>4, <1>5
<1>11. LinesWhole'
  BY <1>10 DEF LinesWhole, EndsLine
<1>12. CASE total' = total + n /\ hand' = hand
  <2>1. total' > 0 /\ total' # 0
    BY <1>12, <1>2, <1>4
  <2>2. wire'[Len(wire')] = <<hand', total'>>
    BY <1>12, <1>7
  <2>3. QED
    BY <2>1, <2>2, <1>8, <1>11 DEF WireInv
<1>13. CASE total' = 0 /\ total + n = length /\ (EndsLine(hand, length) \/ hand \in torn')
  BY <1>13, <1>7, <1>11 DEF WireInv, EndsLine
<1>14. QED
  BY <1>3, <1>12, <1>13

\* Every step keeps the lines whole.
LEMMA WirePreserved ==
  ASSUME IInv, WireInv, [Next]_vars
  PROVE  WireInv'
<1> USE DEF IInv, TypeOK
<1>1. CASE Take
  <2>1. hand = None
    BY <1>1 DEF Take, ThreadGoto, HandInv
  <2>2. total = 0 /\ UNCHANGED <<wire, torn, total>>
    BY <1>1, <2>1 DEF Take, outVars, HandInv
  <2>3. QED
    BY <2>2, WireUntouched
<1>2. CASE SendSome
  BY <1>2, WireExtended
<1>3. CASE SendRefused
  <2>1. Abandon("outer") \/ UNCHANGED <<wire, torn, total, hand>>
    BY <1>3 DEF SendRefused, StaySending, outVars
  <2>2. QED
    BY <2>1, WireAbandoned, WireUntouched
<1>4. CASE SendFails
  BY <1>4, WireAbandoned DEF SendFails
<1>5. CASE UNCHANGED <<wire, torn, total, hand>>
  BY <1>5, WireUntouched
<1>6. QED
  BY <1>1, <1>2, <1>3, <1>4, <1>5, InitFrame, SenderFrame, ThreadFrame
     DEF Next, vars, loopVars, outVars

(* What the reader of the socket finds between two newlines is one message,*)
(* whole and in order, for any message length and any way the socket cuts  *)
(* and refuses it, but for the messages given up half sent and those whose *)
(* newline could not be allocated.                                         *)
THEOREM WholeLines == Spec => []LinesWhole
<1>1. Init => WireInv
  BY DEF Init, WireInv, LinesWhole
<1>2. IInv /\ WireInv /\ [Next]_vars => WireInv'
  BY WirePreserved
<1>3. WireInv => LinesWhole
  BY DEF WireInv
<1>4. QED
  BY <1>1, <1>2, <1>3, Invariance, PTL DEF Spec

-----------------------------------------------------------------------------
(* Waits and loops that end: what fairness has to add is only that a       *)
(* thread goes on.                                                         *)

\* Whoever waits has reason to: a sender while the queue is full, the thread while it
\* is empty.  So no wake-up for a message or for room is lost.
WaitsForReason ==
  /\ \A s \in Senders : pc[s] = "waiting" => Full
  /\ tpc \in {"towait", "waiting"} => queue = <<>>

\* A turn of the send loop sends some, or counts a retry, or is one of Patience
\* refusals in a row.
SendLoopAdvances ==
  tpc = "send" =>
    \/ tpc' # "send"
    \/ UNCHANGED <<tpc, hand, total, retries, blocked>>
    \/ total' > total /\ total' < length
    \/ total' = total /\ retries' > retries /\ retries' < MaxRetries
    \/ total' = total /\ retries' = retries /\ blocked' = blocked + 1 /\ blocked' <= Patience

\* Where transport_init is, in order.
Stage ==
  CASE ipc = "create" -> 0 [] ipc = "setup" -> 1 [] ipc = "stop" -> 2 [] ipc = "signal" -> 3
    [] ipc = "join" -> 4 [] OTHER -> 5

\* A step of it leads one place further, or is one more of MAX_RETRIES attempts.
InitAdvances ==
  \/ UNCHANGED <<ipc, tries>>
  \/ ipc' = ipc /\ tries' > tries /\ tries' < MaxRetries
  \/ Stage' > Stage

LEMMA WaitsKeep == IInv /\ WaitsForReason /\ [Next]_vars => WaitsForReason'
<1> SUFFICES ASSUME IInv, WaitsForReason, [Next]_vars PROVE WaitsForReason'
  OBVIOUS
<1>1. /\ pc \in [Senders -> {"idle", "wlock", "copy", "direct", "qlock", "check",
                            "waiting", "woken", "timedout", "unlock"}]
      /\ queue \in Seq(Message) /\ Thread \notin Senders
      /\ PcTypeOK
  BY SendersAssumption DEF IInv, TypeOK, PcTypeOK, DataTypeOK
<1>2. /\ \A s, t \in Senders : InCall(s) /\ InCall(t) => s = t
      /\ \A s \in Senders : pc[s] = "check" => qlock = s
      /\ tpc = "towait" => qlock = Thread
  BY DEF IInv, LockInv, QueueInBounds
<1>3. /\ \A s \in Senders : pc[s] = "waiting" => Full
      /\ tpc \in {"towait", "waiting"} => queue = <<>>
  BY DEF WaitsForReason
<1>4. CASE InitStep
  <2>1. UNCHANGED <<pc, queue>>
    BY <1>4, InitFrame
  <2>2. tpc' \in {"towait", "waiting"} => tpc' = tpc
    BY <1>4 DEF InitStep, SpawnFails, Spawn, SetupSucceeds, ConnectFails, SetupFails,
         StopThread, SignalThread, WakeThread, Join
  <2>3. QED
    BY <1>3, <2>1, <2>2 DEF WaitsForReason, Full
<1>5. ASSUME NEW s \in Senders, SenderStep(s) PROVE WaitsForReason'
  <2>1. CASE Enqueue(s)
    <3>1. /\ pc[s] = "check" /\ pc' = [pc EXCEPT ![s] = "unlock"]
          /\ tpc' = IF tpc = "waiting" THEN "woken" ELSE tpc
      BY <2>1 DEF Enqueue, Goto, WakeThread
    <3>2. \A t \in Senders : pc'[t] # "waiting"
      BY <1>1, <1>2, <3>1 DEF InCall
    <3>3. tpc' \notin {"towait", "waiting"}
      BY <1>1, <1>2, <3>1
    <3>4. QED
      BY <3>2, <3>3 DEF WaitsForReason
  <2>2. CASE WaitForRoom(s)
    <3>1. Full /\ UNCHANGED <<queue, tpc>>
      BY <2>2 DEF WaitForRoom
    <3>2. QED
      BY <1>3, <3>1 DEF WaitsForReason, Full
  <2>3. CASE ~ Enqueue(s) /\ ~ WaitForRoom(s)
    <3>1. UNCHANGED <<queue, tpc>>
      BY <1>5, <2>3, SenderFrame
    <3>2. \A t \in Senders : pc'[t] = "waiting" => pc[t] = "waiting"
      BY <1>1, <1>5, <2>3 DEF SenderStep, SenderRuns, SenderLocks, Goto, Moves, Call,
           AcquireWrite, AcquireQueue, GiveUp, Direct, CopyFails, Copy, ReleaseWrite,
           WaitExpires, WakeForNothing
    <3>3. QED
      BY <1>3, <3>1, <3>2 DEF WaitsForReason, Full
  <2>4. QED
    BY <2>1, <2>2, <2>3
<1>6. CASE ThreadStep
  <2>1. CASE Take
    <3>1. SignalRoom /\ tpc' = "send"
      BY <2>1 DEF Take, ThreadGoto
    <3>2. \A t \in Senders : pc'[t] # "waiting"
      <4>1. ASSUME NEW s \in Senders, Goto(s, "waiting", "woken")
            PROVE  \A t \in Senders : pc'[t] # "waiting"
        BY <1>1, <1>2, <4>1 DEF Goto, InCall
      <4>2. QED
        BY <3>1, <4>1 DEF SignalRoom
    <3>3. QED
      BY <3>1, <3>2 DEF WaitsForReason
  <2>2. CASE ~ Take
    <3>1. UNCHANGED <<pc, queue>>
      BY <1>6, <2>2, ThreadFrame
    <3>2. tpc' \in {"towait", "waiting"} => queue = <<>>
      BY <1>3, <1>6, <2>2 DEF ThreadStep, ThreadRuns, ReadRunning, TestQueue, LockQueue,
           WaitForMessage, Exit, NothingQueued, ThreadWaitExpires, ThreadWakesForNothing,
           ThreadMoves, Unlocks, ThreadGoto, SendSome, SendRefused, SendFails, StaySending,
           EndSend, Abandon
    <3>3. QED
      BY <1>3, <3>1, <3>2 DEF WaitsForReason, Full
  <2>3. QED
    BY <2>1, <2>2
<1>7. CASE UNCHANGED vars
  BY <1>3, <1>7 DEF vars, WaitsForReason, Full
<1>8. QED
  BY <1>4, <1>5, <1>6, <1>7 DEF Next

\* A sender waits for room only while the queue is full, although one signal wakes one
\* sender; the thread waits for a message only while there is none; and so they never
\* wait for each other (transport_send, transport_thread).
THEOREM NoWakeupLost ==
  Spec => [](WaitsForReason /\ ~ (tpc = "waiting" /\ \E s \in Senders : pc[s] = "waiting"))
<1>1. Init => WaitsForReason
  BY DEF Init, WaitsForReason
<1>2. WaitsForReason => ~ (tpc = "waiting" /\ \E s \in Senders : pc[s] = "waiting")
  <2> SUFFICES ASSUME WaitsForReason, tpc = "waiting", NEW s \in Senders, pc[s] = "waiting"
               PROVE  FALSE
    OBVIOUS
  <2>1. queue = <<>> /\ Len(queue) >= Capacity
    BY DEF WaitsForReason, Full
  <2>2. Len(queue) = 0
    BY <2>1
  <2>3. QED
    BY <2>1, <2>2, BoundsAssumption
<1>3. QED
  BY <1>1, <1>2, WaitsKeep, Invariance, PTL DEF Spec

\* The send loop of a message ends, whatever the socket answers: what is sent of it
\* grows up to its length, its retries up to MAX_RETRIES, and between two of these it is
\* refused Patience times at most (transport_thread).
THEOREM SendLoopEnds == Spec => [][SendLoopAdvances]_vars
<1>1. ASSUME IInv, Next, tpc = "send", tpc' = "send"
      PROVE  \/ UNCHANGED <<tpc, hand, total, retries, blocked>>
             \/ total' > total /\ total' < length
             \/ total' = total /\ retries' > retries /\ retries' < MaxRetries
             \/ total' = total /\ retries' = retries /\ blocked' = blocked + 1 /\ blocked' <= Patience
  <2>1. total \in Nat /\ length \in Nat /\ retries \in Nat /\ blocked \in Nat
    BY <1>1, BoundsAssumption DEF IInv, TypeOK, LoopTypeOK
  <2>2. CASE InitStep \/ \E s \in Senders : SenderStep(s)
    BY <1>1, <2>2, InitFrame, SenderFrame
  <2>3. CASE SendSome
    BY <1>1, <2>1, <2>3 DEF SendSome, EndSend, ThreadGoto
  <2>4. CASE SendRefused
    <3> DEFINE b == blocked + 1
               r == IF b > Patience THEN retries + 1 ELSE retries
    <3>1. r < MaxRetries /\ total' = total /\ blocked' = b /\ retries' = r
      BY <1>1, <2>4 DEF SendRefused, Abandon, EndSend, ThreadGoto
    <3>2. CASE b > Patience
      BY <2>1, <3>1, <3>2
    <3>3. CASE ~ b > Patience
      BY <2>1, <3>1, <3>3, BoundsAssumption
    <3>4. QED
      BY <3>2, <3>3
  <2>5. CASE ThreadStep /\ ~ SendSome /\ ~ SendRefused
    BY <1>1, <2>5 DEF ThreadStep, ThreadRuns, ReadRunning, TestQueue, LockQueue, WaitForMessage,
         Exit, NothingQueued, Take, SendFails, ThreadWaitExpires, ThreadWakesForNothing,
         ThreadMoves, Unlocks, ThreadGoto, EndSend, Abandon
  <2>6. QED
    BY <1>1, <2>2, <2>3, <2>4, <2>5 DEF Next
<1>2. IInv /\ [Next]_vars => [SendLoopAdvances]_vars
  BY <1>1 DEF SendLoopAdvances
<1>3. QED
  BY <1>2, Invariance, PTL DEF Spec

\* transport_init has an end: every step of it is one of MAX_RETRIES attempts to connect
\* or leads further, to its return or to the join of the thread.
THEOREM InitEnds == Spec => [][InitAdvances]_vars
<1>1. ASSUME IInv, Next
      PROVE  InitAdvances
  <2>1. tries \in Nat /\ tries <= MaxRetries /\ MaxRetries \in Nat
    BY <1>1, BoundsAssumption DEF IInv, TypeOK, ControlTypeOK
  <2>2. CASE (\E s \in Senders : SenderStep(s)) \/ ThreadStep
    BY <2>2, SenderFrame, ThreadFrame DEF InitAdvances
  <2>3. CASE ConnectFails
    <3>1. /\ ipc = "setup" /\ tries' = tries + 1 /\ tries < MaxRetries
          /\ ipc' = IF tries' = MaxRetries THEN "stop" ELSE "setup"
      BY <1>1, <2>3 DEF ConnectFails, InitGoto, IInv, PhaseInv
    <3>2. CASE tries' = MaxRetries
      BY <3>1, <3>2 DEF InitAdvances, Stage
    <3>3. CASE tries' # MaxRetries
      BY <2>1, <3>1, <3>3 DEF InitAdvances
    <3>4. QED
      BY <3>2, <3>3
  <2>4. CASE InitStep /\ ~ ConnectFails
    BY <2>4 DEF InitStep, InitGoto, SpawnFails, Spawn, SetupSucceeds, SetupFails,
         StopThread, SignalThread, Join, InitAdvances, Stage
  <2>5. QED
    BY <1>1, <2>2, <2>3, <2>4 DEF Next
<1>2. IInv /\ [Next]_vars => [InitAdvances]_vars
  BY <1>1
<1>3. QED
  BY <1>2, Invariance, PTL DEF Spec
=============================================================================
