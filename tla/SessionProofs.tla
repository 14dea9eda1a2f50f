----------------------------- MODULE SessionProofs -----------------------------
(* Theorems about Session, for a receive buffer of any size and any number  *)
(* of bytes.                                                                *)
EXTENDS SessionProps, TLAPS

PlaceTypeOK == route \in Routes /\ cli \in Places /\ pid \in Processes \cup {Nobody}
FlagTypeOK == running \in BOOLEAN /\ asked \in BOOLEAN /\ survived \in BOOLEAN
ProcessTypeOK ==
  /\ alive \subseteq Processes /\ ran \subseteq Processes /\ seenPids \subseteq ran
  /\ host \in Processes \cup {Nobody}
CountTypeOK ==
  /\ client \in {"none", "trying", "connected", "refused"}
  /\ sem \in Nat /\ tries \in 0..MaxRetries

LaunchTypeOK == PlaceTypeOK /\ FlagTypeOK /\ ProcessTypeOK /\ CountTypeOK

PrintedLines == [after : Nat, last : Nat]

StreamTypeOK ==
  /\ sent \in 0..MaxBytes /\ newlines \subseteq 1..sent
  /\ base \in Nat /\ buffer_pos \in 0..(Size - 1) /\ base + buffer_pos <= sent
  /\ json_start \in base..(base + buffer_pos)
  /\ printed \in Seq(PrintedLines)

\* Which way a place is reached by.
Flow ==
  /\ cli \in {"terminate", "opened"} => route = "launch"
  /\ cli \in {"monitor", "open", "wait", "check"} => route \in {"launch", "simulator"}
  /\ cli = "inject" => route = "attach"
  /\ cli \in {"head", "recv", "split", "disconnected"} => client = "connected"

\* Nothing is reported before the handler is set, and no process twice.
Unwatched == cli \in {"terminate", "monitor"} \/ (cli = "open" /\ route = "simulator")
Reports ==
  /\ Unwatched => ran = {} /\ seenPids = {} /\ sem = 0
  /\ sem <= (IF Old \in seenPids THEN 1 ELSE 0) + (IF New \in seenPids THEN 1 ELSE 0)

\* The library is in a process once it is asked for and got; the client in it
\* has attempts left as long as it tries.
Library ==
  /\ cli \in {"terminate", "open", "inject"} \/ (cli = "monitor" /\ route = "launch") =>
       ~ asked /\ host = Nobody
  /\ asked => host = Nobody
  /\ host = Nobody <=> client = "none"
  /\ client = "none" => tries = 0
  /\ client = "trying" => tries < MaxRetries
  /\ New \in alive \cup ran => host = New

\* What a launch follows.
Follows ==
  route = "launch" =>
    /\ pid \in seenPids \cup {Nobody}
    /\ cli = "setup" \/ Listening => pid # Nobody
    /\ cli # "terminate" /\ ~ survived => Old \notin alive \cup ran

LaunchInv == LaunchTypeOK /\ Flow /\ Reports /\ Library /\ Follows

\* The buffer begins with a line, and only between receipt and splitting may it
\* hold a whole one.
Buffer ==
  /\ base \in newlines \cup {0} /\ json_start \in newlines \cup {0}
  /\ cli # "split" =>
       json_start = base /\ \A n \in newlines : ~ (base < n /\ n <= base + buffer_pos)
  /\ \A i \in 1..Len(printed) : printed[i].last <= json_start

StreamInv == StreamTypeOK /\ EachLineOnce /\ Buffer

IInv == LaunchInv /\ StreamInv /\ DisconnectIsTheEnd

-----------------------------------------------------------------------------
USE SessionAssumption DEF Processes

\* The places are told apart.
LEMMA Start == Init => IInv
<1> SUFFICES ASSUME Init PROVE IInv
  OBVIOUS
<1>1. cli \in {"terminate", "inject", "open", "setup"}
      /\ (cli = "terminate" <=> route = "launch") /\ (cli = "inject" <=> route = "attach")
      /\ (cli = "open" <=> route = "simulator") /\ route \in Routes
  BY DEF Init, Routes
<1>2. LaunchTypeOK
  <2>1. PlaceTypeOK /\ FlagTypeOK
    BY <1>1 DEF Init, PlaceTypeOK, FlagTypeOK, Places
  <2>2. ProcessTypeOK
    BY DEF Init, ProcessTypeOK
  <2>3. CountTypeOK
    BY DEF Init, CountTypeOK
  <2> QED BY <2>1, <2>2, <2>3 DEF LaunchTypeOK
<1>3. Flow /\ Reports
  BY <1>1 DEF Init, Flow, Reports, Unwatched
<1>4. Library /\ Follows
  BY <1>1 DEF Init, Library, Follows, Listening, Routes
<1>5. StreamInv
  BY <1>1 DEF Init, StreamInv, StreamTypeOK, EachLineOnce, Buffer
<1>6. DisconnectIsTheEnd
  BY <1>1 DEF DisconnectIsTheEnd
<1> QED BY <1>2, <1>3, <1>4, <1>5, <1>6 DEF IInv, LaunchInv

LEMMA FirstOfRange == ASSUME NEW first \in Nat, NEW length \in Nat PROVE first \in first..(first + length)
OBVIOUS

\* What is known of a printed line.
LEMMA PrintedLine ==
  ASSUME StreamInv, NEW i \in 1..Len(printed)
  PROVE  printed[i].last \in Nat /\ printed[i].after \in Nat /\ printed[i].last <= json_start
<1>1. printed \in Seq(PrintedLines)
  BY DEF StreamInv, StreamTypeOK
<1>2. printed[i] \in PrintedLines
  BY <1>1
<1>3. printed[i].last <= json_start
  BY DEF StreamInv, Buffer
<1> QED BY <1>2, <1>3 DEF PrintedLines

\* A step that leaves the stream and the buffer alone.
LEMMA Quiet ==
  ASSUME StreamInv, UNCHANGED <<streamVars, bufferVars>>, cli = "split" => cli' = "split"
  PROVE  StreamInv'
BY DEF StreamInv, StreamTypeOK, EachLineOnce, Buffer, streamVars, bufferVars

-----------------------------------------------------------------------------
(* Getting a process with the library *)

Onward == {"accept", "blocked", "head", "recv", "split"} \cup Ended

\* A step that only moves the command on.
LEMMA Moves ==
  ASSUME LaunchInv, UNCHANGED <<route, pid, alive, launchVars, clientVars>>, running' \in BOOLEAN,
         cli' = cli \/ (cli' \in Onward /\ cli # "terminate"),
         cli' \in {"head", "recv", "split", "disconnected"} => client = "connected",
         Listening' => cli = "setup" \/ Listening
  PROVE  LaunchInv'
<1> USE DEF LaunchInv, launchVars, clientVars, Ended, Listening, Onward
<1>1. LaunchTypeOK'
  <2>1. PlaceTypeOK'
    BY DEF LaunchTypeOK, PlaceTypeOK, Places
  <2>2. FlagTypeOK' /\ ProcessTypeOK' /\ CountTypeOK'
    BY DEF LaunchTypeOK, FlagTypeOK, ProcessTypeOK, CountTypeOK
  <2> QED BY <2>1, <2>2 DEF LaunchTypeOK
<1>2. Flow' /\ Reports'
  BY DEF Flow, Reports, Unwatched
<1>3. Library'
  BY DEF Library
<1>4. Follows'
  BY DEF Follows
<1> QED BY <1>1, <1>2, <1>3, <1>4

\* main's own steps up to the server.
Main ==
  \/ Terminate \/ OnProcessLaunch \/ Open \/ Opened \/ OpenFails
  \/ Reported \/ WaitExpires \/ Check \/ Inject \/ InjectFails \/ SetupSocket \/ SetupFails

\* They leave the stream alone.
LEMMA MainFrame ==
  ASSUME Main
  PROVE  UNCHANGED <<streamVars, bufferVars>> /\ cli' \notin {"split", "disconnected"}
BY DEF Main, Terminate, OnProcessLaunch, Open, Opened, OpenFails, Reported, WaitExpires,
       Check, Inject, InjectFails, SetupSocket, SetupFails, Goto

\* They lead to the invariant again, one by one.
LEMMA MainKeeps ==
  ASSUME LaunchInv, Main
  PROVE  LaunchInv'
<1> USE DEF LaunchInv, LaunchTypeOK, Listening, Goto, Ended, Routes, launchVars, clientVars
<1>1. CASE Terminate
  <2>1. PlaceTypeOK'
    BY <1>1 DEF Terminate, PlaceTypeOK, ProcessTypeOK, Places
  <2>2. FlagTypeOK'
    BY <1>1 DEF Terminate, FlagTypeOK
  <2>3. ProcessTypeOK'
    BY <1>1 DEF Terminate, ProcessTypeOK, Reports, Unwatched
  <2>4. CountTypeOK'
    BY <1>1 DEF Terminate, CountTypeOK, Library
  <2>5. Flow'
    BY <1>1 DEF Terminate, Flow, PlaceTypeOK
  <2>6. Reports'
    BY <1>1 DEF Terminate, PlaceTypeOK, ProcessTypeOK, CountTypeOK, Flow, Reports, Unwatched
  <2>7. Library'
    BY <1>1 DEF Terminate, PlaceTypeOK, ProcessTypeOK, CountTypeOK, Flow, Reports, Unwatched, Library
  <2>8. Follows'
    BY <1>1 DEF Terminate, PlaceTypeOK, ProcessTypeOK, Flow, Reports, Unwatched, Library, Follows
  <2> QED BY <2>1, <2>2, <2>3, <2>4, <2>5, <2>6, <2>7, <2>8
<1>2. CASE OnProcessLaunch
  <2>1. PlaceTypeOK'
    BY <1>2 DEF OnProcessLaunch, PlaceTypeOK, ProcessTypeOK, Places
  <2>2. FlagTypeOK'
    BY <1>2 DEF OnProcessLaunch, FlagTypeOK
  <2>3. ProcessTypeOK'
    BY <1>2 DEF OnProcessLaunch, ProcessTypeOK, Reports, Unwatched
  <2>4. CountTypeOK'
    BY <1>2 DEF OnProcessLaunch, CountTypeOK, Library
  <2>5. Flow'
    BY <1>2 DEF OnProcessLaunch, Flow, PlaceTypeOK
  <2>6. Reports'
    BY <1>2 DEF OnProcessLaunch, PlaceTypeOK, ProcessTypeOK, CountTypeOK, Flow, Reports, Unwatched
  <2>7. Library'
    BY <1>2 DEF OnProcessLaunch, PlaceTypeOK, ProcessTypeOK, CountTypeOK, Flow, Reports, Unwatched, Library
  <2>8. Follows'
    BY <1>2 DEF OnProcessLaunch, PlaceTypeOK, ProcessTypeOK, Flow, Reports, Unwatched, Library, Follows
  <2> QED BY <2>1, <2>2, <2>3, <2>4, <2>5, <2>6, <2>7, <2>8
<1>3. CASE Open
  <2>1. PlaceTypeOK'
    BY <1>3 DEF Open, PlaceTypeOK, ProcessTypeOK, Places
  <2>2. FlagTypeOK'
    BY <1>3 DEF Open, FlagTypeOK
  <2>3. ProcessTypeOK'
    BY <1>3 DEF Open, ProcessTypeOK, Reports, Unwatched
  <2>4. CountTypeOK'
    BY <1>3 DEF Open, CountTypeOK, Library
  <2>5. Flow'
    BY <1>3 DEF Open, Flow, PlaceTypeOK
  <2>6. Reports'
    BY <1>3 DEF Open, PlaceTypeOK, ProcessTypeOK, CountTypeOK, Flow, Reports, Unwatched
  <2>7. Library'
    BY <1>3 DEF Open, PlaceTypeOK, ProcessTypeOK, CountTypeOK, Flow, Reports, Unwatched, Library
  <2>8. Follows'
    BY <1>3 DEF Open, PlaceTypeOK, ProcessTypeOK, Flow, Reports, Unwatched, Library, Follows
  <2> QED BY <2>1, <2>2, <2>3, <2>4, <2>5, <2>6, <2>7, <2>8
<1>4. CASE Opened
  <2>1. PlaceTypeOK'
    BY <1>4 DEF Opened, PlaceTypeOK, ProcessTypeOK, Places
  <2>2. FlagTypeOK'
    BY <1>4 DEF Opened, FlagTypeOK
  <2>3. ProcessTypeOK'
    BY <1>4 DEF Opened, ProcessTypeOK, Reports, Unwatched
  <2>4. CountTypeOK'
    BY <1>4 DEF Opened, CountTypeOK, Library
  <2>5. Flow'
    BY <1>4 DEF Opened, Flow, PlaceTypeOK
  <2>6. Reports'
    BY <1>4 DEF Opened, PlaceTypeOK, ProcessTypeOK, CountTypeOK, Flow, Reports, Unwatched
  <2>7. Library'
    BY <1>4 DEF Opened, PlaceTypeOK, ProcessTypeOK, CountTypeOK, Flow, Reports, Unwatched, Library
  <2>8. Follows'
    BY <1>4 DEF Opened, PlaceTypeOK, ProcessTypeOK, Flow, Reports, Unwatched, Library, Follows
  <2> QED BY <2>1, <2>2, <2>3, <2>4, <2>5, <2>6, <2>7, <2>8
<1>5. CASE Reported
  <2>1. PlaceTypeOK'
    BY <1>5 DEF Reported, PlaceTypeOK, ProcessTypeOK, Places
  <2>2. FlagTypeOK'
    BY <1>5 DEF Reported, FlagTypeOK
  <2>3. ProcessTypeOK'
    BY <1>5 DEF Reported, ProcessTypeOK, Reports, Unwatched
  <2>4. CountTypeOK'
    BY <1>5 DEF Reported, CountTypeOK, Library
  <2>5. Flow'
    BY <1>5 DEF Reported, Flow, PlaceTypeOK
  <2>6. Reports'
    BY <1>5 DEF Reported, PlaceTypeOK, ProcessTypeOK, CountTypeOK, Flow, Reports, Unwatched
  <2>7. Library'
    BY <1>5 DEF Reported, PlaceTypeOK, ProcessTypeOK, CountTypeOK, Flow, Reports, Unwatched, Library
  <2>8. Follows'
    BY <1>5 DEF Reported, PlaceTypeOK, ProcessTypeOK, Flow, Reports, Unwatched, Library, Follows
  <2> QED BY <2>1, <2>2, <2>3, <2>4, <2>5, <2>6, <2>7, <2>8
<1>6. CASE WaitExpires
  <2>1. PlaceTypeOK'
    BY <1>6 DEF WaitExpires, PlaceTypeOK, ProcessTypeOK, Places
  <2>2. FlagTypeOK'
    BY <1>6 DEF WaitExpires, FlagTypeOK
  <2>3. ProcessTypeOK'
    BY <1>6 DEF WaitExpires, ProcessTypeOK, Reports, Unwatched
  <2>4. CountTypeOK'
    BY <1>6 DEF WaitExpires, CountTypeOK, Library
  <2>5. Flow'
    BY <1>6 DEF WaitExpires, Flow, PlaceTypeOK
  <2>6. Reports'
    BY <1>6 DEF WaitExpires, PlaceTypeOK, ProcessTypeOK, CountTypeOK, Flow, Reports, Unwatched
  <2>7. Library'
    BY <1>6 DEF WaitExpires, PlaceTypeOK, ProcessTypeOK, CountTypeOK, Flow, Reports, Unwatched, Library
  <2>8. Follows'
    BY <1>6 DEF WaitExpires, PlaceTypeOK, ProcessTypeOK, Flow, Reports, Unwatched, Library, Follows
  <2> QED BY <2>1, <2>2, <2>3, <2>4, <2>5, <2>6, <2>7, <2>8
<1>7. CASE Check
  <2>1. PlaceTypeOK'
    BY <1>7 DEF Check, PlaceTypeOK, ProcessTypeOK, Places
  <2>2. FlagTypeOK'
    BY <1>7 DEF Check, FlagTypeOK
  <2>3. ProcessTypeOK'
    BY <1>7 DEF Check, ProcessTypeOK, Reports, Unwatched
  <2>4. CountTypeOK'
    BY <1>7 DEF Check, CountTypeOK, Library
  <2>5. Flow'
    BY <1>7 DEF Check, Flow, PlaceTypeOK
  <2>6. Reports'
    BY <1>7 DEF Check, PlaceTypeOK, ProcessTypeOK, CountTypeOK, Flow, Reports, Unwatched
  <2>7. Library'
    BY <1>7 DEF Check, PlaceTypeOK, ProcessTypeOK, CountTypeOK, Flow, Reports, Unwatched, Library
  <2>8. Follows'
    BY <1>7 DEF Check, PlaceTypeOK, ProcessTypeOK, Flow, Reports, Unwatched, Library, Follows
  <2> QED BY <2>1, <2>2, <2>3, <2>4, <2>5, <2>6, <2>7, <2>8
<1>8. CASE Inject
  <2>1. PlaceTypeOK'
    BY <1>8 DEF Inject, PlaceTypeOK, ProcessTypeOK, Places
  <2>2. FlagTypeOK'
    BY <1>8 DEF Inject, FlagTypeOK
  <2>3. ProcessTypeOK'
    BY <1>8 DEF Inject, ProcessTypeOK, Reports, Unwatched
  <2>4. CountTypeOK'
    BY <1>8 DEF Inject, CountTypeOK, Library
  <2>5. Flow'
    BY <1>8 DEF Inject, Flow, PlaceTypeOK
  <2>6. Reports'
    BY <1>8 DEF Inject, PlaceTypeOK, ProcessTypeOK, CountTypeOK, Flow, Reports, Unwatched
  <2>7. Library'
    BY <1>8 DEF Inject, PlaceTypeOK, ProcessTypeOK, CountTypeOK, Flow, Reports, Unwatched, Library
  <2>8. Follows'
    BY <1>8 DEF Inject, PlaceTypeOK, ProcessTypeOK, Flow, Reports, Unwatched, Library, Follows
  <2> QED BY <2>1, <2>2, <2>3, <2>4, <2>5, <2>6, <2>7, <2>8
<1>9. CASE OpenFails \/ InjectFails \/ SetupSocket \/ SetupFails
  <2>1. /\ cli \in {"open", "opened", "inject", "setup"} /\ cli' \in {"accept", "failed"}
        /\ cli' = "accept" => cli = "setup"
        /\ UNCHANGED <<route, pid, running, alive, launchVars, clientVars>>
    BY <1>9 DEF OpenFails, InjectFails, SetupSocket, SetupFails
  <2>2. running' \in BOOLEAN
    BY <2>1 DEF FlagTypeOK
  <2> HIDE DEF LaunchInv, LaunchTypeOK
  <2> QED BY <2>1, <2>2, Moves DEF Onward, FlagTypeOK
<1> QED BY <1>1, <1>2, <1>3, <1>4, <1>5, <1>6, <1>7, <1>8, <1>9 DEF Main

\* The other actors, but for what the transport writes.
System == Spawn \/ Activate \/ Connect \/ Interrupt \/ \E p \in Processes : Report(p) \/ Die(p)

\* They leave the stream alone, and at most end the command.
LEMMA SystemFrame ==
  ASSUME System
  PROVE  UNCHANGED <<streamVars, bufferVars>> /\ (cli' = cli \/ cli' = "failed")
BY DEF System, Spawn, Activate, Connect, Interrupt, Report, Die

\* They keep the invariant.
LEMMA SystemKeeps ==
  ASSUME LaunchInv, System
  PROVE  LaunchInv'
<1> USE DEF LaunchInv, LaunchTypeOK, Listening, Ended, Routes, launchVars, clientVars
<1>1. CASE Spawn
  <2>1. PlaceTypeOK'
    BY <1>1 DEF Spawn, PlaceTypeOK, ProcessTypeOK, Places
  <2>2. FlagTypeOK'
    BY <1>1 DEF Spawn, FlagTypeOK
  <2>3. ProcessTypeOK'
    BY <1>1 DEF Spawn, ProcessTypeOK, Reports, Unwatched
  <2>4. CountTypeOK'
    BY <1>1 DEF Spawn, CountTypeOK, Library
  <2>5. Flow'
    BY <1>1 DEF Spawn, Flow, PlaceTypeOK, Library
  <2>6. Reports'
    BY <1>1 DEF Spawn, PlaceTypeOK, ProcessTypeOK, CountTypeOK, Flow, Reports, Unwatched, Library
  <2>7. Library'
    BY <1>1 DEF Spawn, PlaceTypeOK, ProcessTypeOK, CountTypeOK, Flow, Reports, Unwatched, Library
  <2>8. Follows'
    BY <1>1 DEF Spawn, PlaceTypeOK, ProcessTypeOK, Flow, Reports, Unwatched, Library, Follows
  <2> QED BY <2>1, <2>2, <2>3, <2>4, <2>5, <2>6, <2>7, <2>8
<1>2. CASE Activate
  <2>1. PlaceTypeOK'
    BY <1>2 DEF Activate, PlaceTypeOK, ProcessTypeOK, Places
  <2>2. FlagTypeOK'
    BY <1>2 DEF Activate, FlagTypeOK
  <2>3. ProcessTypeOK'
    BY <1>2 DEF Activate, ProcessTypeOK, Reports, Unwatched
  <2>4. CountTypeOK'
    BY <1>2 DEF Activate, CountTypeOK, Library
  <2>5. Flow'
    BY <1>2 DEF Activate, Flow, PlaceTypeOK
  <2>6. Reports'
    BY <1>2 DEF Activate, PlaceTypeOK, ProcessTypeOK, CountTypeOK, Flow, Reports, Unwatched
  <2>7. Library'
    BY <1>2 DEF Activate, PlaceTypeOK, ProcessTypeOK, CountTypeOK, Flow, Reports, Unwatched, Library
  <2>8. Follows'
    BY <1>2 DEF Activate, PlaceTypeOK, ProcessTypeOK, Flow, Reports, Unwatched, Library, Follows
  <2> QED BY <2>1, <2>2, <2>3, <2>4, <2>5, <2>6, <2>7, <2>8
<1>3. CASE Connect
  <2>1. PlaceTypeOK'
    BY <1>3 DEF Connect, PlaceTypeOK, ProcessTypeOK, Places
  <2>2. FlagTypeOK'
    BY <1>3 DEF Connect, FlagTypeOK
  <2>3. ProcessTypeOK'
    BY <1>3 DEF Connect, ProcessTypeOK, Reports, Unwatched
  <2>4. CountTypeOK'
    BY <1>3 DEF Connect, CountTypeOK, Library
  <2>5. Flow'
    BY <1>3 DEF Connect, Flow, PlaceTypeOK
  <2>6. Reports'
    BY <1>3 DEF Connect, PlaceTypeOK, ProcessTypeOK, CountTypeOK, Flow, Reports, Unwatched
  <2>7. Library'
    BY <1>3 DEF Connect, PlaceTypeOK, ProcessTypeOK, CountTypeOK, Flow, Reports, Unwatched, Library
  <2>8. Follows'
    BY <1>3 DEF Connect, PlaceTypeOK, ProcessTypeOK, Flow, Reports, Unwatched, Library, Follows
  <2> QED BY <2>1, <2>2, <2>3, <2>4, <2>5, <2>6, <2>7, <2>8
<1>4. CASE Interrupt
  <2>1. /\ running' \in BOOLEAN /\ Listening /\ (cli' = cli \/ cli' = "failed")
        /\ UNCHANGED <<route, pid, alive, launchVars, clientVars>>
    BY <1>4 DEF Interrupt
  <2>2. cli' \in {"head", "recv", "split", "disconnected"} => client = "connected"
    BY <2>1 DEF Flow
  <2> QED BY <2>1, <2>2, Moves DEF Onward
<1>5. CASE \E p \in Processes : Report(p)
  <2>1. PlaceTypeOK'
    BY <1>5 DEF Report, PlaceTypeOK, ProcessTypeOK, Places
  <2>2. FlagTypeOK'
    BY <1>5 DEF Report, FlagTypeOK
  <2>3. ProcessTypeOK'
    BY <1>5 DEF Report, ProcessTypeOK, Reports, Unwatched
  <2>4. CountTypeOK'
    BY <1>5 DEF Report, CountTypeOK, Library
  <2>5. Flow'
    BY <1>5 DEF Report, Flow, PlaceTypeOK
  <2>6. Reports'
    BY <1>5 DEF Report, PlaceTypeOK, ProcessTypeOK, CountTypeOK, Flow, Reports, Unwatched
  <2>7. Library'
    BY <1>5 DEF Report, PlaceTypeOK, ProcessTypeOK, CountTypeOK, Flow, Reports, Unwatched, Library
  <2>8. Follows'
    BY <1>5 DEF Report, PlaceTypeOK, ProcessTypeOK, Flow, Reports, Unwatched, Library, Follows
  <2> QED BY <2>1, <2>2, <2>3, <2>4, <2>5, <2>6, <2>7, <2>8
<1>6. CASE \E p \in Processes : Die(p)
  <2>1. PlaceTypeOK'
    BY <1>6 DEF Die, PlaceTypeOK, ProcessTypeOK, Places
  <2>2. FlagTypeOK'
    BY <1>6 DEF Die, FlagTypeOK
  <2>3. ProcessTypeOK'
    BY <1>6 DEF Die, ProcessTypeOK, Reports, Unwatched
  <2>4. CountTypeOK'
    BY <1>6 DEF Die, CountTypeOK, Library
  <2>5. Flow'
    BY <1>6 DEF Die, Flow, PlaceTypeOK
  <2>6. Reports'
    BY <1>6 DEF Die, PlaceTypeOK, ProcessTypeOK, CountTypeOK, Flow, Reports, Unwatched
  <2>7. Library'
    BY <1>6 DEF Die, PlaceTypeOK, ProcessTypeOK, CountTypeOK, Flow, Reports, Unwatched, Library
  <2>8. Follows'
    BY <1>6 DEF Die, PlaceTypeOK, ProcessTypeOK, Flow, Reports, Unwatched, Library, Follows
  <2> QED BY <2>1, <2>2, <2>3, <2>4, <2>5, <2>6, <2>7, <2>8
<1> QED BY <1>1, <1>2, <1>3, <1>4, <1>5, <1>6 DEF System

\* An ended connection stays ended: nobody gets the library after it.
LEMMA StaysClosed ==
  ASSUME LaunchInv, System, cli = "disconnected", host \notin alive
  PROVE  host' \notin alive'
<1>1. host # Nobody /\ ~ asked
  BY DEF LaunchInv, Flow, Library
<1> QED BY <1>1 DEF System, Spawn, Activate, Connect, Interrupt, Report, Die, clientVars, Listening

-----------------------------------------------------------------------------
(* Receiving and splitting *)

Server ==
  \/ Accept \/ Accepted \/ Loop \/ Receive \/ ReceiveNothing \/ WouldBlock
  \/ Fails \/ Line \/ Compact \/ Send

\* A step of the server, or of the peer, leaves the launch alone.
LEMMA ServerKeeps ==
  ASSUME LaunchInv, Server
  PROVE  LaunchInv'
<1>1. /\ Listening /\ UNCHANGED <<route, pid, running, alive, launchVars, clientVars>>
      /\ cli' \in {"blocked", "head", "recv", "split"} \cup Ended \cup {cli}
  BY DEF Server, Accept, Accepted, Loop, Receive, ReceiveNothing, WouldBlock, Fails, Line,
         Compact, Send, Listening, Goto, Ended
<1>2. cli' \in {"head", "recv", "split", "disconnected"} => client = "connected"
  <2>1. cli \in {"head", "recv", "split"} => client = "connected"
    BY DEF LaunchInv, Flow
  <2> QED BY <2>1 DEF Server, Accept, Accepted, Loop, Receive, ReceiveNothing, WouldBlock, Fails, Line,
                     Compact, Send, Goto, Connected
<1>3. running' \in BOOLEAN
  BY <1>1 DEF LaunchInv, LaunchTypeOK, FlagTypeOK
<1>4. cli' = cli \/ (cli' \in Onward /\ cli # "terminate")
  BY <1>1 DEF Listening, Onward, Ended
<1>5. UNCHANGED <<route, pid, alive, launchVars, clientVars>>
  BY <1>1
<1> QED BY <1>1, <1>2, <1>3, <1>4, <1>5, Moves

\* A byte is behind everything that was received.
LEMMA SendKeeps ==
  ASSUME StreamInv, Send
  PROVE  StreamInv' /\ cli' # "disconnected"
<1>1. /\ sent' = sent + 1 /\ sent' \in 0..MaxBytes
      /\ newlines \subseteq newlines' /\ newlines' \subseteq newlines \cup {sent + 1}
      /\ UNCHANGED <<cli, base, buffer_pos, json_start, printed>> /\ cli # "disconnected"
  BY DEF Send, bufferVars, StreamInv, StreamTypeOK, Listening
<1>2. StreamTypeOK'
  BY <1>1 DEF StreamInv, StreamTypeOK
<1>3. \A i \in 1..Len(printed) : printed[i].last \in Nat /\ printed[i].last <= json_start
  BY PrintedLine
<1>4. EachLineOnce'
  <2>1. json_start <= sent /\ \A n \in newlines' : n \in newlines \/ n = sent + 1
    BY <1>1 DEF StreamInv, StreamTypeOK
  <2>2. \A i \in 1..Len(printed) :
          /\ printed[i].last \in newlines' /\ printed[i].after \in newlines' \cup {0}
          /\ \A n \in newlines' : ~ (printed[i].after < n /\ n < printed[i].last)
    <3> SUFFICES ASSUME NEW i \in 1..Len(printed)
                 PROVE  /\ printed[i].last \in newlines' /\ printed[i].after \in newlines' \cup {0}
                        /\ \A n \in newlines' : ~ (printed[i].after < n /\ n < printed[i].last)
      OBVIOUS
    <3>1. /\ printed[i].last \in newlines /\ printed[i].after \in newlines \cup {0}
          /\ \A n \in newlines : ~ (printed[i].after < n /\ n < printed[i].last)
      BY DEF StreamInv, EachLineOnce
    <3>2. json_start \in Nat /\ sent \in Nat
      BY DEF StreamInv, StreamTypeOK
    <3>3. ~ (sent + 1 < printed[i].last)
      BY <1>3, <2>1, <3>2
    <3>4. printed[i].last \in newlines' /\ printed[i].after \in newlines' \cup {0}
      BY <1>1, <3>1
    <3>5. ASSUME NEW n \in newlines' PROVE ~ (printed[i].after < n /\ n < printed[i].last)
      <4>1. n \in newlines \/ n = sent + 1
        BY <2>1
      <4> QED BY <3>1, <3>3, <4>1
    <3> QED BY <3>4, <3>5
  <2>3. \A n \in newlines' : n <= json_start =>
          n - 1 \in newlines' \cup {0} \/ \E i \in 1..Len(printed) : printed[i].last = n
    <3> SUFFICES ASSUME NEW n \in newlines', n <= json_start
                 PROVE  n - 1 \in newlines' \cup {0} \/ \E i \in 1..Len(printed) : printed[i].last = n
      OBVIOUS
    <3>1. n \in newlines
      BY <2>1 DEF StreamInv, StreamTypeOK
    <3> QED BY <1>1, <3>1 DEF StreamInv, EachLineOnce
  <2>4. \A i, j \in 1..Len(printed) : i < j => printed[i].last <= printed[j].after
    BY DEF StreamInv, EachLineOnce
  <2> QED BY <1>1, <2>2, <2>3, <2>4 DEF EachLineOnce
<1>5. Buffer'
  BY <1>1 DEF StreamInv, StreamTypeOK, Buffer
<1> QED BY <1>1, <1>2, <1>4, <1>5 DEF StreamInv

\* Received bytes are split from the first on.
LEMMA ReceiveKeeps ==
  ASSUME StreamInv, Receive
  PROVE  StreamInv'
<1>1. /\ cli = "recv" /\ cli' = "split" /\ json_start' = base /\ json_start = base
      /\ UNCHANGED <<sent, newlines, base, printed>>
  BY DEF Receive, Goto, streamVars, StreamInv, Buffer
<1>2. buffer_pos' \in 0..(Size - 1) /\ base + buffer_pos' <= sent
  BY DEF Receive, Room, Unread, StreamInv, StreamTypeOK
<1>3. StreamTypeOK'
  <2>1. /\ sent' \in 0..MaxBytes /\ newlines' \subseteq 1..sent' /\ base' \in Nat
    BY <1>1 DEF StreamInv, StreamTypeOK
  <2>2. buffer_pos' \in 0..(Size - 1) /\ base' + buffer_pos' <= sent'
    BY <1>1, <1>2
  <2>3. json_start' = base' /\ base' \in Nat
    BY <1>1, <2>1
  <2>4. json_start' \in base'..(base' + buffer_pos')
    <3>1. buffer_pos' \in Nat
      BY <2>2
    <3> QED BY <2>3, <3>1, FirstOfRange
  <2>5. printed' \in Seq(PrintedLines)
    <3>1. printed \in Seq(PrintedLines)
      BY DEF StreamInv, StreamTypeOK
    <3> QED BY <1>1, <3>1
  <2> QED BY <2>1, <2>2, <2>4, <2>5 DEF StreamTypeOK
<1>4. EachLineOnce' /\ Buffer'
  BY <1>1 DEF StreamInv, EachLineOnce, Buffer
<1> QED BY <1>3, <1>4 DEF StreamInv

\* The next line is printed behind the others, up to the next newline.
LEMMA LineKeeps ==
  ASSUME StreamInv, Line
  PROVE  StreamInv' /\ cli' = "split"
<1>1. PICK n \in Ahead :
        /\ \A k \in Ahead : n <= k
        /\ printed' = IF n > json_start + 1 THEN Append(printed, [after |-> json_start, last |-> n])
                      ELSE printed
        /\ json_start' = n
        /\ cli = "split" /\ UNCHANGED <<cli, sent, newlines, base, buffer_pos>>
  BY DEF Line, streamVars
<1>2. /\ n \in newlines /\ n \in Nat /\ json_start \in Nat /\ json_start < n /\ n <= base + buffer_pos
      /\ \A k \in newlines : ~ (json_start < k /\ k < n)
  BY <1>1 DEF Ahead, StreamInv, StreamTypeOK
<1>3. StreamTypeOK'
  <2> DEFINE line == [after |-> json_start, last |-> n]
  <2>1. line \in PrintedLines
    BY <1>2 DEF PrintedLines
  <2>2. printed' \in Seq(PrintedLines)
    <3>1. printed \in Seq(PrintedLines) /\ (printed' = printed \/ printed' = Append(printed, line))
      BY <1>1 DEF StreamInv, StreamTypeOK
    <3> HIDE DEF line
    <3> QED BY <2>1, <3>1
  <2>3. n \in base..(base + buffer_pos)
    BY <1>2 DEF StreamInv, StreamTypeOK
  <2> QED BY <1>1, <2>2, <2>3 DEF StreamInv, StreamTypeOK
<1>4. \A k \in newlines : k <= n => k <= json_start \/ k = n
  BY <1>2 DEF StreamInv, StreamTypeOK
<1>5. CASE n > json_start + 1
  <2> DEFINE line == [after |-> json_start, last |-> n]
  <2>1. printed' = Append(printed, line) /\ printed \in Seq(PrintedLines)
    BY <1>1, <1>5 DEF StreamInv, StreamTypeOK
  <2>2. /\ Len(printed') = Len(printed) + 1 /\ Len(printed) \in Nat
        /\ printed'[Len(printed) + 1] = line
        /\ \A i \in 1..Len(printed) : printed'[i] = printed[i]
    BY <1>2, <2>1
  <2>3. \A i \in 1..Len(printed) : printed[i].last \in Nat /\ printed[i].last <= json_start
    BY PrintedLine
  <2>4. json_start \in newlines \cup {0} /\ line.after = json_start /\ line.last = n
    BY DEF StreamInv, Buffer
  <2> HIDE DEF line
  <2>5. EachLineOnce'
    <3>1. \A i \in 1..Len(printed') :
            /\ printed'[i].last \in newlines /\ printed'[i].after \in newlines \cup {0}
            /\ \A k \in newlines : ~ (printed'[i].after < k /\ k < printed'[i].last)
      <4> SUFFICES ASSUME NEW i \in 1..Len(printed')
                   PROVE  /\ printed'[i].last \in newlines /\ printed'[i].after \in newlines \cup {0}
                          /\ \A k \in newlines : ~ (printed'[i].after < k /\ k < printed'[i].last)
        OBVIOUS
      <4>1. CASE i = Len(printed) + 1
        BY <1>2, <2>2, <2>4, <4>1
      <4>2. CASE i \in 1..Len(printed)
        BY <2>2, <4>2 DEF StreamInv, EachLineOnce
      <4> QED BY <2>2, <4>1, <4>2
    <3>2. \A i, j \in 1..Len(printed') : i < j => printed'[i].last <= printed'[j].after
      BY <2>2, <2>3, <2>4 DEF StreamInv, EachLineOnce
    <3>3. \A k \in newlines : k <= n =>
            k - 1 \in newlines \cup {0} \/ \E i \in 1..Len(printed') : printed'[i].last = k
      <4> SUFFICES ASSUME NEW k \in newlines, k <= n
                   PROVE  k - 1 \in newlines \cup {0} \/ \E i \in 1..Len(printed') : printed'[i].last = k
        OBVIOUS
      <4>1. CASE k = n
        BY <4>1, <2>2, <2>4
      <4>2. CASE k <= json_start
        BY <4>2, <2>2 DEF StreamInv, EachLineOnce
      <4> QED BY <1>4, <4>1, <4>2
    <3> QED BY <1>1, <3>1, <3>2, <3>3 DEF EachLineOnce
  <2>6. Buffer'
    BY <1>1, <1>2, <2>2, <2>3, <2>4 DEF StreamInv, Buffer
  <2> QED BY <1>1, <1>3, <2>5, <2>6 DEF StreamInv
<1>6. CASE ~ (n > json_start + 1)
  <2>1. n = json_start + 1 /\ n - 1 = json_start /\ printed' = printed
    BY <1>1, <1>2, <1>6
  <2>2. EachLineOnce'
    BY <1>1, <1>4, <2>1 DEF StreamInv, EachLineOnce, Buffer
  <2>3. Buffer'
    <3>1. \A i \in 1..Len(printed) : printed[i].last \in Nat /\ printed[i].last <= json_start
      BY PrintedLine
    <3>2. \A i \in 1..Len(printed) : printed[i].last <= n
      BY <1>2, <2>1, <3>1
    <3> QED BY <1>1, <1>2, <2>1, <3>2 DEF StreamInv, Buffer
  <2> QED BY <1>1, <1>3, <2>2, <2>3 DEF StreamInv
<1> QED BY <1>5, <1>6

\* The rest, the beginning of a line, moves to the front.
LEMMA CompactKeeps ==
  ASSUME StreamInv, Compact
  PROVE  StreamInv' /\ cli' # "disconnected"
<1>1. /\ cli = "split" /\ cli' = "head"
      /\ base' = json_start /\ buffer_pos' = base + buffer_pos - json_start
      /\ \A n \in newlines : ~ (json_start < n /\ n <= base + buffer_pos)
      /\ UNCHANGED <<sent, newlines, json_start, printed>>
  BY DEF Compact, Goto, Ahead, streamVars
<1>2. base' + buffer_pos' = base + buffer_pos /\ buffer_pos' \in 0..(Size - 1) /\ base' \in Nat
  BY <1>1 DEF StreamInv, StreamTypeOK
<1>3. StreamTypeOK'
  BY <1>1, <1>2 DEF StreamInv, StreamTypeOK
<1>4. EachLineOnce' /\ Buffer'
  BY <1>1, <1>2 DEF StreamInv, EachLineOnce, Buffer
<1> QED BY <1>1, <1>3, <1>4 DEF StreamInv

\* When recv returns 0, all lines have been split off.
LEMMA EndKeeps ==
  ASSUME StreamInv, ReceiveNothing
  PROVE  DisconnectIsTheEnd'
<1>1. /\ Room = 0 \/ (Unread = 0 /\ host \notin alive)
      /\ UNCHANGED <<host, alive, sent, newlines, base, buffer_pos, json_start>>
  BY DEF ReceiveNothing, Goto, clientVars, streamVars, bufferVars
<1>2. json_start = base /\ \A n \in newlines : ~ (base < n /\ n <= base + buffer_pos)
  BY DEF ReceiveNothing, Goto, StreamInv, Buffer
<1>3. /\ base \in Nat /\ buffer_pos \in Nat /\ sent \in Nat
      /\ \A n \in newlines : n \in Nat /\ n <= sent
  BY DEF StreamInv, StreamTypeOK
<1>4. CASE Room = 0
  <2>1. buffer_pos = Size - 1
    BY <1>3, <1>4 DEF Room
  <2> QED BY <1>1, <1>2, <2>1 DEF DisconnectIsTheEnd
<1>5. CASE Unread = 0 /\ host \notin alive
  <2>1. base + buffer_pos = sent
    BY <1>3, <1>5 DEF Unread
  <2>2. \A n \in newlines : n <= json_start
    BY <1>2, <1>3, <2>1
  <2> QED BY <1>1, <1>5, <2>1, <2>2 DEF DisconnectIsTheEnd
<1> QED BY <1>1, <1>4, <1>5 DEF ReceiveNothing
-----------------------------------------------------------------------------
\* The invariant holds at the start and survives every step.
THEOREM SessionInvariance == Spec => []IInv
<1>1. Init => IInv
  BY Start
<1>2. IInv /\ [Next]_vars => IInv'
  <2> SUFFICES ASSUME IInv, [Next]_vars PROVE IInv'
    OBVIOUS
  <2>1. LaunchInv /\ StreamInv /\ DisconnectIsTheEnd
    BY DEF IInv
  <2>2. CASE Main
    <3>1. LaunchInv'
      BY <2>1, <2>2, MainKeeps
    <3>2. UNCHANGED <<streamVars, bufferVars>> /\ cli' \notin {"split", "disconnected"}
      BY <2>2, MainFrame
    <3>3. cli # "split"
      BY <2>2 DEF Main, Terminate, OnProcessLaunch, Open, Opened, OpenFails, Reported, WaitExpires,
                  Check, Inject, InjectFails, SetupSocket, SetupFails, Goto
    <3>4. StreamInv'
      BY <2>1, <3>2, <3>3, Quiet
    <3> QED BY <3>1, <3>2, <3>4 DEF IInv, DisconnectIsTheEnd
  <2>3. CASE System
    <3>1. LaunchInv'
      BY <2>1, <2>3, SystemKeeps
    <3>2. UNCHANGED <<streamVars, bufferVars>> /\ (cli' = cli \/ cli' = "failed")
      BY <2>3, SystemFrame
    <3>3. cli = "split" => cli' = "split"
      BY <2>3 DEF System, Spawn, Activate, Connect, Interrupt, Report, Die
    <3>4. StreamInv'
      BY <2>1, <3>2, <3>3, Quiet
    <3>5. DisconnectIsTheEnd'
      BY <2>1, <2>3, <3>2, StaysClosed DEF DisconnectIsTheEnd, streamVars, bufferVars
    <3> QED BY <3>1, <3>4, <3>5 DEF IInv
  <2>4. CASE Server
    <3>1. LaunchInv'
      BY <2>1, <2>4, ServerKeeps
    <3>2. CASE Accept \/ Accepted \/ Loop \/ WouldBlock \/ Fails
      <4>1. /\ UNCHANGED <<streamVars, bufferVars>> /\ cli # "split"
            /\ cli' \notin {"split", "disconnected"}
        BY <3>2 DEF Accept, Accepted, Loop, WouldBlock, Fails, Goto
      <4>2. StreamInv'
        BY <2>1, <4>1, Quiet
      <4> QED BY <3>1, <4>1, <4>2 DEF IInv, DisconnectIsTheEnd
    <3>3. CASE ReceiveNothing
      <4>1. UNCHANGED <<streamVars, bufferVars>> /\ cli # "split"
        BY <3>3 DEF ReceiveNothing, Goto
      <4>2. StreamInv'
        BY <2>1, <4>1, Quiet
      <4> QED BY <2>1, <3>1, <3>3, <4>2, EndKeeps DEF IInv
    <3>4. CASE Receive
      <4>1. cli' # "disconnected"
        BY <3>4 DEF Receive, Goto
      <4> QED BY <2>1, <3>1, <3>4, <4>1, ReceiveKeeps DEF IInv, DisconnectIsTheEnd
    <3>5. CASE Line
      BY <2>1, <3>1, <3>5, LineKeeps DEF IInv, DisconnectIsTheEnd
    <3>6. CASE Compact
      BY <2>1, <3>1, <3>6, CompactKeeps DEF IInv, DisconnectIsTheEnd
    <3>7. CASE Send
      BY <2>1, <3>1, <3>7, SendKeeps DEF IInv, DisconnectIsTheEnd
    <3> QED BY <2>4, <3>2, <3>3, <3>4, <3>5, <3>6, <3>7 DEF Server
  <2>5. CASE UNCHANGED vars
    <3>1. UNCHANGED <<route, cli, pid, running, alive, launchVars, clientVars, streamVars, bufferVars>>
      BY <2>5 DEF vars
    <3>2. LaunchInv'
      BY <2>1, <3>1 DEF LaunchInv, LaunchTypeOK, PlaceTypeOK, FlagTypeOK, ProcessTypeOK, CountTypeOK,
            Flow, Reports, Unwatched, Library, Follows, Listening, launchVars, clientVars
    <3>3. StreamInv'
      BY <2>1, <3>1, Quiet
    <3>4. DisconnectIsTheEnd'
      BY <2>1, <3>1 DEF DisconnectIsTheEnd, clientVars, streamVars, bufferVars
    <3> QED BY <3>2, <3>3, <3>4 DEF IInv
  <2> QED BY <2>2, <2>3, <2>4, <2>5 DEF Next, Cli, Environment, Main, System, Server
<1> QED BY <1>1, <1>2, PTL DEF Spec

\* Every variable keeps its type; in particular the buffer keeps room for its NUL.
THEOREM SessionTypeCorrect == Spec => []TypeOK
<1>1. IInv => TypeOK
  <2> SUFFICES ASSUME IInv PROVE TypeOK
    OBVIOUS
  <2>1. LaunchTypeOK /\ StreamTypeOK /\ Reports
    BY DEF IInv, LaunchInv, StreamInv
  <2>2. sem \in 0..2
    BY <2>1 DEF LaunchTypeOK, CountTypeOK, Reports
  <2>3. /\ route \in Routes /\ cli \in Places /\ pid \in Processes \cup {Nobody}
        /\ running \in BOOLEAN /\ asked \in BOOLEAN /\ survived \in BOOLEAN
    BY <2>1 DEF LaunchTypeOK, PlaceTypeOK, FlagTypeOK
  <2>4. /\ alive \subseteq Processes /\ ran \subseteq Processes /\ seenPids \subseteq ran
        /\ host \in Processes \cup {Nobody}
        /\ client \in {"none", "trying", "connected", "refused"} /\ tries \in 0..MaxRetries
    BY <2>1 DEF LaunchTypeOK, ProcessTypeOK, CountTypeOK
  <2>5. /\ sent \in 0..MaxBytes /\ newlines \subseteq 1..sent
        /\ base \in Nat /\ buffer_pos \in 0..(Size - 1) /\ base + buffer_pos <= sent
        /\ json_start \in base..(base + buffer_pos)
    BY <2>1 DEF StreamTypeOK
  <2>6. printed \in Seq([after : Nat, last : Nat])
    BY <2>1 DEF StreamTypeOK, PrintedLines
  <2> QED BY <2>2, <2>3, <2>4, <2>5, <2>6 DEF TypeOK
<1> QED BY <1>1, SessionInvariance, PTL

\* The server prints every line it has gone past, whole, once and in order.
THEOREM LinesOnce == Spec => []EachLineOnce
<1>1. IInv => EachLineOnce
  BY DEF IInv, StreamInv
<1> QED BY <1>1, SessionInvariance, PTL

\* The end of a connection is its end, or that of a line that is too long.
THEOREM DisconnectTruthful == Spec => []DisconnectIsTheEnd
<1>1. IInv => DisconnectIsTheEnd
  BY DEF IInv
<1> QED BY <1>1, SessionInvariance, PTL

\* The server follows the launched process if the old one could be terminated.
THEOREM LaunchFollowed == Spec => []FollowsTheLaunched
<1>1. IInv => FollowsTheLaunched
  BY DEF IInv, LaunchInv, LaunchTypeOK, PlaceTypeOK, ProcessTypeOK, Library, Follows,
         FollowsTheLaunched, Listening
<1> QED BY <1>1, SessionInvariance, PTL

-----------------------------------------------------------------------------
(* How receiving ends, which ReceivingEnds leaves to fairness. *)

\* A client is accepted, and the session has reason to end.
Doomed == cli \in {"head", "recv", "split"} /\ (~ running \/ pid \notin alive)

\* Where run_trace_server is, in the order in which it comes to its end.
Place == CASE cli = "recv" -> 0 [] cli = "split" -> 1 [] cli = "head" -> 2 [] OTHER -> 3

\* From then on the reason stays, and the command has only to go on: each of its steps
\* leads to the end or one place further, or past one more of the received lines.
WindsDown ==
  Doomed =>
    \/ cli' \in Ended
    \/ /\ Doomed'
       /\ \/ Place' > Place
          \/ cli' = cli /\ UNCHANGED bufferVars
          \/ /\ cli' = cli /\ UNCHANGED <<base, buffer_pos>>
             /\ json_start' > json_start /\ json_start' <= base + buffer_pos

\* An interrupt or the death of the target, once noticed, is never taken back or missed:
\* at most the bytes in the buffer are between it and the end of the session.
THEOREM ReceivingWindsDown == Spec => [][WindsDown]_vars
<1>1. IInv /\ [Next]_vars => [WindsDown]_vars
  <2> SUFFICES ASSUME IInv, Next, Doomed PROVE WindsDown
    BY DEF WindsDown
  <2>1. /\ cli \in {"head", "recv", "split"} /\ (~ running \/ pid \notin alive)
        /\ ~ asked
    BY DEF Doomed, IInv, LaunchInv, Flow, Library
  <2>2. ~ Main
    BY <2>1 DEF Main, Terminate, OnProcessLaunch, Open, Opened, OpenFails, Reported, WaitExpires,
                Check, Inject, InjectFails, SetupSocket, SetupFails, Goto
  <2>3. CASE System
    <3>1. cli' = cli /\ UNCHANGED bufferVars
      BY <2>1, <2>3 DEF System, Spawn, Activate, Connect, Interrupt, Report, Die
    <3>2. ~ running' \/ pid' \notin alive'
      BY <2>1, <2>3 DEF System, Spawn, Activate, Connect, Interrupt, Report, Die
    <3> QED BY <2>1, <3>1, <3>2 DEF WindsDown, Doomed
  <2>4. CASE Server
    <3>1. CASE Accept \/ Accepted \/ Loop \/ ReceiveNothing \/ Fails
      BY <2>1, <3>1 DEF Accept, Accepted, Loop, ReceiveNothing, Fails, Goto, WindsDown, Ended
    <3>2. CASE Receive \/ WouldBlock \/ Compact
      <4>1. Place' > Place /\ cli' \in {"head", "recv", "split"}
        BY <3>2 DEF Receive, WouldBlock, Compact, Goto, Place
      <4>2. UNCHANGED <<running, pid, alive>>
        BY <3>2 DEF Receive, WouldBlock, Compact
      <4> QED BY <2>1, <4>1, <4>2 DEF WindsDown, Doomed
    <3>3. CASE Send
      BY <2>1, <3>3 DEF Send, WindsDown, Doomed
    <3>4. CASE Line
      <4>1. PICK n \in Ahead : json_start' = n
        BY <3>4 DEF Line
      <4>2. json_start < n /\ n <= base + buffer_pos
        BY <4>1 DEF Ahead
      <4>3. json_start \in Nat /\ n \in Nat
        BY DEF IInv, StreamInv, StreamTypeOK, Ahead
      <4>4. UNCHANGED <<cli, running, pid, alive, base, buffer_pos>>
        BY <3>4 DEF Line
      <4> QED BY <2>1, <4>1, <4>2, <4>3, <4>4 DEF WindsDown, Doomed
    <3> QED BY <2>4, <3>1, <3>2, <3>3, <3>4 DEF Server
  <2> QED BY <2>2, <2>3, <2>4 DEF Next, Cli, Environment, Main, System, Server
<1> QED BY <1>1, SessionInvariance, PTL DEF Spec
=============================================================================
