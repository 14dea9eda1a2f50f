-------------------------------- MODULE Tui --------------------------------
(***************************************************************************)
(* The terminal interface of the command, tui_trace_server.c: a view per   *)
(* traced thread, filled from the connection, moved about by keys.  One    *)
(* thread runs it; signals come at any time.                               *)
(***************************************************************************)
EXTENDS Integers, SequencesExt

CONSTANTS
  Traced,       \* the thread ids in the events
  NoThread,     \* an event without a thread id, or no JSON at all
  MaxViews,     \* views there is room for: MAX_COLUMNS, or fewer by the width
  Rows,         \* max_lines, the lines of a window
  Capacity,     \* buffer_capacity, 2000
  Early,        \* lines of a view for each of which its window is redrawn, 25
  Threshold,    \* UPDATE_THRESHOLD_EVENT_COUNT, 20
  Size,         \* bytes in the receive buffer, 8192
  Events,       \* what the target may send
  MaxEvents     \* bound of the model: lines that are sent

ASSUME TuiAssumption ==
  /\ {Rows, Capacity, Size, Threshold} \subseteq Nat \ {0} /\ Rows <= Capacity
  /\ Early \in Nat \ {0} /\ {MaxViews, MaxEvents} \subseteq Nat /\ NoThread \notin Traced
  \* The thread, whether there is a formatted text, the bytes of the line.
  /\ Events \subseteq [thread : Traced \cup {NoThread}, text : BOOLEAN, length : Nat \ {0}]

VARIABLES
  at,         \* setup, accept, and in the loop keys, receive, lines; ended
  running,    \* g_ui->running
  open,       \* the target holds its end of the connection
  sent,       \* the events the target has sent
  pending,    \* bytes of them that have not been received
  buffer_pos, \* bytes kept in the buffer
  parsed,     \* events that have been parsed
  views,      \* g_ui->threads
  screen,     \* of each view, the lines that the terminal was last given
  active,     \* active_thread, from 1
  update_counter

serverVars == <<at, running, open, sent, pending, buffer_pos, parsed>>
uiVars == <<views, screen, active, update_counter>>
tuiVars == <<serverVars, uiVars>>

\* buffer is numbers of events; current_line counts the lines recorded, staged
\* those of them that the window had when it was last redrawn.
View == [thread : Traced, buffer : Seq(1..MaxEvents), scroll : 0..Capacity,
         current_line : 0..MaxEvents, staged : 0..MaxEvents]

TuiInit ==
  /\ at = "setup" /\ running = TRUE /\ open = FALSE
  /\ sent = <<>> /\ pending = 0 /\ buffer_pos = 0 /\ parsed = 0
  /\ views = <<>> /\ screen = <<>> /\ active = 1 /\ update_counter = 0

-----------------------------------------------------------------------------
\* socket, bind, listen, once the signals are handled.
SetUp ==
  /\ at = "setup" /\ at' \in {"accept", "ended"}
  /\ UNCHANGED <<running, open, sent, pending, buffer_pos, parsed, uiVars>>

\* The target, and the user.
Connect ==
  /\ at = "accept" /\ at' = "keys" /\ open' = TRUE
  /\ UNCHANGED <<running, sent, pending, buffer_pos, parsed, uiVars>>

Emit ==
  /\ open /\ Len(sent) < MaxEvents
  /\ \E e \in Events : sent' = Append(sent, e) /\ pending' = pending + e.length
  /\ UNCHANGED <<at, running, open, buffer_pos, parsed, uiVars>>

Disconnect ==
  /\ open /\ open' = FALSE
  /\ UNCHANGED <<at, running, sent, pending, buffer_pos, parsed, uiVars>>

\* handle_signal.  A signal ends accept, which nothing restarts; one that comes
\* before is not noticed until a client has come.
Interrupt ==
  /\ running /\ at # "ended" /\ running' = FALSE
  /\ at' = IF at = "accept" THEN "ended" ELSE at
  /\ UNCHANGED <<open, sent, pending, buffer_pos, parsed, uiVars>>

-----------------------------------------------------------------------------
\* The keys.
AfterKeys ==
  at' = "receive" /\ UNCHANGED <<open, sent, pending, buffer_pos, parsed, screen, update_counter>>

Key == at = "keys" /\ running

\* redraw_thread_window of every view, which ends in wnoutrefresh: what is drawn is
\* staged, and the terminal gets it with the next doupdate, which wrefresh has too.
RedrawAll(vs) == [i \in DOMAIN vs |-> [vs[i] EXCEPT !.staged = vs[i].current_line]]

DoUpdate(vs) == [i \in DOMAIN vs |-> vs[i].staged]

NoKey == Key /\ AfterKeys /\ UNCHANGED <<running, views, active>>

Quit == Key /\ AfterKeys /\ running' = FALSE /\ UNCHANGED <<views, active>>

Right ==
  /\ Key /\ AfterKeys /\ active < Len(views)
  /\ active' = active + 1 /\ views' = RedrawAll(views) /\ UNCHANGED running

Left ==
  /\ Key /\ AfterKeys /\ active > 1
  /\ active' = active - 1 /\ views' = RedrawAll(views) /\ UNCHANGED running

ScrollTo(line) ==
  views' = RedrawAll([views EXCEPT ![active].scroll = line]) /\ UNCHANGED <<running, active>>

Below(v) == Len(v.buffer) - Rows

Down ==
  /\ Key /\ AfterKeys /\ views # <<>> /\ views[active].scroll < Below(views[active])
  /\ ScrollTo(Min({views[active].scroll + Rows \div 2, Below(views[active])}))

Up ==
  /\ Key /\ AfterKeys /\ views # <<>> /\ views[active].scroll > 0
  /\ ScrollTo(Max({views[active].scroll - Rows \div 2, 0}))

-----------------------------------------------------------------------------
\* record_line_for_thread
Follows(v) == v.scroll >= Below(v)

\* Mutant: whether the end was in view is asked when the line is in.
Record_AsksAfter(v, n) ==
  LET kept == IF Len(v.buffer) >= Capacity THEN Tail(v.buffer) ELSE v.buffer
      w == [v EXCEPT !.buffer = Append(kept, n), !.current_line = @ + 1]
  IN [w EXCEPT !.scroll = IF Follows(w) /\ Below(w) > 0 THEN Below(w) ELSE @]

Record(v, n) ==
  LET kept == IF Len(v.buffer) >= Capacity THEN Tail(v.buffer) ELSE v.buffer
      w == [v EXCEPT !.buffer = Append(kept, n), !.current_line = @ + 1]
  IN [w EXCEPT !.scroll = IF Follows(v) /\ Below(w) > 0 THEN Below(w) ELSE @]

ViewOf(vs, t) == {i \in DOMAIN vs : vs[i].thread = t}

\* get_or_create_thread_view, where resize_all_windows redraws every window.
Opened(vs, t) ==
  RedrawAll(Append(vs, [thread |-> t, buffer |-> <<>>, scroll |-> 0, current_line |-> 0, staged |-> 0]))

\* Mutant: the windows are all redrawn, but the terminal is not updated.
Shown_Staged(vs, scr, i, n, created) ==
  LET ws == [vs EXCEPT ![i] = Record(@, n)]
      early == created \/ ws[i].current_line <= Early
      due == ~ early /\ update_counter + 1 >= Threshold
  IN /\ views' = IF early THEN [ws EXCEPT ![i].staged = ws[i].current_line]
                 ELSE IF due THEN RedrawAll(ws) ELSE ws
     /\ screen' = scr
     /\ update_counter' = IF due THEN 0 ELSE update_counter + 1

\* The n-th event gives view i a line.  It is staged at once, brought to the terminal
\* with all that is staged, or left for later; scr is the screen before.
Shown(vs, scr, i, n, created) ==
  LET ws == [vs EXCEPT ![i] = Record(@, n)]
      early == created \/ ws[i].current_line <= Early
      due == ~ early /\ update_counter + 1 >= Threshold
  IN /\ views' = IF early THEN [ws EXCEPT ![i].staged = ws[i].current_line]
                 ELSE IF due THEN RedrawAll(ws) ELSE ws
     /\ screen' = IF due THEN DoUpdate(views') ELSE scr
     /\ update_counter' = IF due THEN 0 ELSE update_counter + 1

\* recv with what room there is.
Receive ==
  /\ at = "receive" /\ at' = "lines"
  /\ \E bytes \in 1..Min({pending, Size - buffer_pos}) :
       pending' = pending - bytes /\ buffer_pos' = buffer_pos + bytes
  /\ UNCHANGED <<running, open, sent, parsed, uiVars>>

\* The buffer holds the end of the line that is parsed next.
HoldsLine == parsed < Len(sent) /\ sent[parsed + 1].length <= buffer_pos

\* process_trace with the next line.
ProcessTrace ==
  /\ at = "lines" /\ HoldsLine
  /\ parsed' = parsed + 1 /\ buffer_pos' = buffer_pos - sent[parsed'].length
  /\ LET e == sent[parsed']
         known == ViewOf(views, e.thread)
         created == e.thread # NoThread /\ known = {} /\ Len(views) < MaxViews
         opened == IF created THEN Opened(views, e.thread) ELSE views
         scr == IF created THEN DoUpdate(opened) ELSE screen
     IN IF e.text /\ ViewOf(opened, e.thread) # {}
        THEN Shown(opened, scr, Max(ViewOf(opened, e.thread)), parsed', created)
        ELSE views' = opened /\ screen' = scr /\ UNCHANGED update_counter
  /\ UNCHANGED <<at, running, open, sent, pending, active>>

\* No line is complete: the rest of the buffer is kept.
KeepRest ==
  /\ at = "lines" /\ ~ HoldsLine /\ at' = "keys"
  /\ UNCHANGED <<running, open, sent, pending, buffer_pos, parsed, uiVars>>

\* A full buffer leaves recv no room, which looks like the end of the connection;
\* the header says so, and the terminal is updated.
ReceiveNothing ==
  /\ at = "receive" /\ at' = "keys"
  /\ (pending = 0 /\ ~ open) \/ buffer_pos = Size
  /\ screen' = DoUpdate(views)
  /\ UNCHANGED <<running, open, sent, pending, buffer_pos, parsed, views, active, update_counter>>

WouldBlock ==
  /\ at = "receive" /\ at' = "keys" /\ open /\ pending = 0 /\ buffer_pos < Size
  /\ UNCHANGED <<running, open, sent, pending, buffer_pos, parsed, uiVars>>

\* Mutant: the loop goes on for as long as the target is there.
Finish_Alone ==
  /\ at = "keys" /\ ~ running /\ ~ open /\ at' = "ended" /\ views' = <<>> /\ screen' = <<>>
  /\ UNCHANGED <<running, open, sent, pending, buffer_pos, parsed, active, update_counter>>

\* The loop ends, cleanup_ui.
Finish ==
  /\ at = "keys" /\ ~ running /\ at' = "ended" /\ views' = <<>> /\ screen' = <<>>
  /\ UNCHANGED <<running, open, sent, pending, buffer_pos, parsed, active, update_counter>>

Loop == NoKey \/ Quit \/ Right \/ Left \/ Down \/ Up
          \/ Receive \/ ProcessTrace \/ KeepRest \/ ReceiveNothing \/ WouldBlock \/ Finish

TuiNext == SetUp \/ Connect \/ Emit \/ Disconnect \/ Interrupt \/ Loop

TuiSpec == TuiInit /\ [][TuiNext]_tuiVars /\ WF_tuiVars(Loop)

-----------------------------------------------------------------------------
\* Types; no more views than fit, one per thread, one of them active, and a
\* window never looks beyond the lines its thread has.
TuiTypeOK ==
  /\ at \in {"setup", "accept", "keys", "receive", "lines", "ended"}
  /\ {running, open} \subseteq BOOLEAN
  /\ parsed \in 0..Len(sent) /\ pending \in Nat /\ buffer_pos \in 0..Size
  /\ update_counter \in 0..MaxEvents
  /\ views \in Seq(View) /\ Len(views) <= MaxViews /\ screen \in [DOMAIN views -> 0..MaxEvents]
  /\ \A i, j \in DOMAIN views : i # j => views[i].thread # views[j].thread
  /\ active = 1 \/ active \in DOMAIN views \/ at = "ended"
  /\ \A i \in DOMAIN views : views[i].scroll <= Max({0, Below(views[i])})

\* The lines of thread t that have been parsed.
Own(t) == {n \in 1..parsed : sent[n].thread = t /\ sent[n].text}

\* A buffer has the latest of these lines: they go up, all are of them, and one
\* that is not there is from before the first of a full buffer.
HoldsLatest(buffer, lines) ==
  /\ Len(buffer) <= Capacity
  /\ \A i, j \in DOMAIN buffer : i < j => buffer[i] < buffer[j]
  /\ \A i \in DOMAIN buffer : buffer[i] \in lines
  /\ \A n \in lines : (\E i \in DOMAIN buffer : buffer[i] = n)
                        \/ (Len(buffer) = Capacity /\ n < buffer[1])

\* However the connection cuts the stream, a view holds the latest lines of its
\* thread, in order and none twice; a thread of which something has been read
\* has no view only while the screen is full; and what the terminal shows of a view
\* that has had more than Early lines is never Threshold lines behind.  Of the first
\* Early lines of a view the terminal may show none: they are staged, no more.
ViewsKeepUp ==
  at # "ended" =>
    /\ \A i \in DOMAIN views : HoldsLatest(views[i].buffer, Own(views[i].thread))
    /\ \A n \in 1..parsed :
         sent[n].thread # NoThread /\ ViewOf(views, sent[n].thread) = {} => Len(views) = MaxViews
    /\ \A i \in DOMAIN views : 
         views[i].current_line > Early => views[i].current_line - screen[i] < Threshold

\* Whoever looks at the last line goes on seeing the last line as lines come in;
\* whoever looks at earlier ones keeps them, until the buffer drops lines.
KeepsPlace ==
  [][at = "lines" => \A i \in DOMAIN views :
       IF Follows(views[i]) THEN Follows(views'[i])
       ELSE /\ views'[i].scroll = views[i].scroll
            /\ views'[i].current_line <= Capacity =>
                 views'[i].buffer[views'[i].scroll + 1] = views[i].buffer[views[i].scroll + 1]]_tuiVars

Behind ==
  at # "ended" /\ parsed < Len(sent) /\ \A i \in DOMAIN sent : sent[i].length <= Size

\* As long as every line fits the buffer, the interface catches up with what has
\* been sent; and once it has a client, 'q' or a signal ends it.
LinesArrive ==
  /\ Behind ~> ~ Behind
  /\ (at \notin {"setup", "accept"} /\ ~ running) ~> at = "ended"
=============================================================================
