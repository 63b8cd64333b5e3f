----------------------------- MODULE ClientShell -----------------------------
(***************************************************************************)
(* The Dart side (src/app/lib): the session cubit, which takes the events  *)
(* of CorePort off its port one at a time and hands them to the rail and   *)
(* flow cubits, the composer, and the create/edit dialog.                  *)
(*                                                                         *)
(* The isolate runs one event at a time and drains its microtasks before   *)
(* the next, so a tap or a dispatched event is one step together with what *)
(* the listeners of the rail's stream do about it.  It waits in a call of  *)
(* the core, and in nothing else.  The core posts between any two steps.   *)
(***************************************************************************)
EXTENDS CorePort

CONSTANTS
    NoRoom,      \* no selection
    MaxTaps,     \* bound: selections in a behaviour
    MaxDialogs,  \* bound: dialogs opened in a behaviour
    MaxActs,     \* bound: both together
    MaxPort      \* bound: events waiting on the port

ASSUME ClientAssumption ==
    /\ NoRoom \notin Room
    /\ {MaxTaps, MaxDialogs, MaxActs, MaxPort} \subseteq Nat

VARIABLES
    shell,        \* "new", "failed", "shown", "closing" or "disposed"
    handle,       \* SessionCubit._handle is not null
    isReady,
    rail,         \* RailState: rooms, spaces and standaloneRooms (as the catalog pushed)
    activeRoom,   \* RailState.activeRoom
    lastSeen,     \* SessionCubit._lastSeenActiveRoom
    flow,         \* MessageFlowCubit: the bubbles
    composer,     \* ComposerState: activeRoom, and whether a draft is held
    form,         \* the dialog, _DialogForm
    refused,      \* the replay of the last selection failed
    taps, dialogs

session == <<shell, handle, isReady>>
selection == <<activeRoom, lastSeen>>
bounds == <<taps, dialogs>>
vars == <<core, session, rail, selection, flow, composer, form, refused, bounds>>

Modes == {"createFromHeader", "createRoomInSpace", "editSpace"}

NoRail == [rooms |-> {}, space |-> "none", parent |-> [r \in Room |-> "none"]]

NoComposer == [room |-> NoRoom, draft |-> FALSE]

Closed == [mode |-> "closed", type |-> "space", auto |-> "none", touched |-> FALSE,
           stale |-> FALSE, handled |-> FALSE, published |-> 0]

TypeOK ==
    /\ CoreOK
    /\ shell \in {"new", "failed", "shown", "closing", "disposed"}
    /\ {handle, isReady, refused} \subseteq BOOLEAN
    /\ rail \in [rooms : SUBSET Room, space : Spaces, parent : Parents]
    /\ activeRoom \in rail.rooms \cup {NoRoom} /\ lastSeen \in Room \cup {NoRoom}
    /\ flow \in Seq([id : Message, state : States])
    /\ composer \in [room : Room \cup {NoRoom}, draft : BOOLEAN]
    /\ form \in [mode : Modes \cup {"closed"}, type : {"space", "room"}, auto : Spaces,
                 touched : BOOLEAN, stale : BOOLEAN, handled : BOOLEAN, published : Nat]
    /\ taps \in 0..MaxTaps /\ dialogs \in 0..MaxDialogs

Init ==
    /\ CoreInit
    /\ shell = "new" /\ handle = FALSE /\ isReady = FALSE
    /\ rail = NoRail
    /\ activeRoom = NoRoom /\ lastSeen = NoRoom
    /\ flow = <<>>
    /\ composer = NoComposer
    /\ form = Closed /\ refused = FALSE
    /\ taps = 0 /\ dialogs = 0

-----------------------------------------------------------------------------
(* The session.                                                            *)

\* _closeNativeOnce: the port, the handle, gcs_shutdown.
CloseNativeOnce == open' = FALSE /\ handle' = FALSE

Gone ==
    /\ derived' = {} /\ explicit' = {} /\ listening' = {}
    /\ port' = <<>>
    /\ UNCHANGED catalog /\ UNCHANGED messages /\ UNCHANGED late

\* start.
Start ==
    /\ shell = "new" /\ shell' = "shown"
    /\ Open /\ handle' = TRUE
    /\ UNCHANGED <<isReady, rail, selection, flow, composer, form, refused, bounds>>

Unstarted == UNCHANGED <<core, handle, isReady, rail, selection, flow, composer, form, refused, bounds>>

\* openDefault found no library, or one it cannot use: the session is inert, and
\* its start does nothing.
openDefaultFails == shell = "new" /\ shell' = "failed" /\ Unstarted

\* No database path, or gcs_init returned null: nothing to close.
StartFails == shell = "new" /\ shell' = "failed" /\ Unstarted

\* gcs_subscribe was refused.
StartRefused ==
    /\ shell = "new" /\ shell' = "failed"
    /\ CloseNativeOnce /\ Gone
    /\ UNCHANGED <<isReady, rail, selection, flow, composer, form, refused, bounds>>

\* The isolate is not in gcs_publish.
Idle == sending = {}

\* dispose: the cubits are closed, and what they hold is not seen again; the
\* session's only up to its first await, which is before the native close.
Dispose ==
    /\ shell \in {"shown", "failed"} /\ Idle /\ shell' = "closing"
    /\ activeRoom' = NoRoom /\ lastSeen' = NoRoom
    /\ flow' = <<>> /\ composer' = NoComposer /\ form' = Closed /\ refused' = FALSE
    /\ UNCHANGED <<core, handle, isReady, rail, bounds>>

\* close, after the await: a microtask, so no event is dispatched in between.  What
\* is still on the port is lost.
close ==
    /\ shell = "closing" /\ shell' = "disposed"
    /\ CloseNativeOnce /\ Gone
    /\ isReady' = FALSE /\ rail' = NoRail
    /\ UNCHANGED <<selection, flow, composer, form, refused, bounds>>

-----------------------------------------------------------------------------
(* _dispatchEvent.                                                         *)

\* A push onto the flow or the rail is only taken off while the session lives.
Take(kind) ==
    /\ shell = "shown" /\ Idle /\ port # <<>> /\ Head(port).kind = kind
    /\ port' = Tail(port)
    /\ UNCHANGED <<open, late, catalog, membership, messages>>
    /\ UNCHANGED <<shell, handle, form, refused, bounds>>

setTree ==
    /\ Take("spaceTree")
    /\ rail' = [rail EXCEPT !.space = Head(port).space, !.parent = Head(port).parent]
    /\ UNCHANGED <<isReady, selection, flow, composer>>

\* Mutant: the session does not notice that the selection went.
KeepLastSeen == UNCHANGED lastSeen

ForgetLastSeen == lastSeen' = NoRoom

\* ComposerCubit._onRailStateChanged.
FollowRail(r) == composer' = [composer EXCEPT !.room = r]

\* Mutant: a selection is kept whatever the list says.
AlwaysListed(rooms) == TRUE

Listed(rooms) == activeRoom \in rooms \cup {NoRoom}

\* setRooms: a selection that is no longer in the list is cleared; the session
\* and the composer follow, the flow is left as it is.
setRooms ==
    /\ Take("roomList")
    /\ rail' = [rail EXCEPT !.rooms = Head(port).rooms]
    /\ \/ /\ Listed(Head(port).rooms)
          /\ UNCHANGED <<selection, composer>>
       \/ /\ ~Listed(Head(port).rooms)
          /\ activeRoom' = NoRoom /\ ForgetLastSeen /\ FollowRail(NoRoom)
    /\ UNCHANGED <<isReady, flow>>

Readied ==
    /\ Take("readiness") /\ isReady' = TRUE
    /\ UNCHANGED <<rail, selection, flow, composer>>

Bubble(m, state) == [id |-> m, state |-> state]

Shown(m) == \E i \in 1..Len(flow) : flow[i].id = m

\* Mutant: every push is a new bubble.
append(bubble) == flow' = Append(flow, bubble)

\* upsert: in place of the bubble of the same id.
upsert(bubble) ==
    flow' = IF Shown(bubble.id)
            THEN [i \in 1..Len(flow) |-> IF flow[i].id = bubble.id THEN bubble ELSE flow[i]]
            ELSE Append(flow, bubble)

\* Mutant: any room's traffic is rendered.
AnyRoom(r) == TRUE

\* The active-room gate (CR-01).
Active(r) == activeRoom = r

MessageEvent ==
    /\ Take("message")
    /\ IF Active(Head(port).room) THEN upsert(Bubble(Head(port).id, Head(port).state))
       ELSE UNCHANGED flow
    /\ UNCHANGED <<isReady, rail, selection, composer>>

\* The batch is the whole flow (D-06).
replaceAll(batch) == flow' = [i \in 1..Len(batch) |-> Bubble(batch[i], "complete")]

HistoryEvent ==
    /\ Take("messageHistory")
    /\ IF activeRoom = Head(port).room THEN replaceAll(Head(port).messages) ELSE UNCHANGED flow
    /\ UNCHANGED <<isReady, rail, selection, composer>>

ErrorEvent ==
    /\ Take("error")
    /\ UNCHANGED <<isReady, rail, selection, flow, composer>>

Dispatch ==
    setTree \/ setRooms \/ Readied \/ MessageEvent \/ HistoryEvent \/ ErrorEvent

-----------------------------------------------------------------------------
(* What the user does.                                                     *)

\* A shell whose session failed has no row and a disabled composer, but dialogs.
Interactive == shell \in {"shown", "failed"} /\ Idle /\ Len(port) < MaxPort

Act == Interactive /\ form.mode = "closed" /\ taps + dialogs < MaxActs

\* publishCommand: without a session nothing is sent.
CanPublish == handle

clear == flow' = <<>>

\* _SpaceNode, with its edit and "+" buttons.  A collapsed node opens at a tap.
SpaceNode == rail.space # "none"

NestedRow(r) == SpaceNode /\ rail.parent[r] = "space"

StandaloneRow(r) == rail.parent[r] = "standalone"

\* The rail has a row for each room of the catalog, and for no other topic.
Row(r) == NestedRow(r) \/ StandaloneRow(r)

\* A row is inert until its room is listed (T-02-11).
Enabled(r) == Row(r) /\ r \in rail.rooms

\* SessionCubit._onRailStateChanged: the flow is cleared and the room joined
\* again for its history.
Rejoin(r) ==
    \/ r = lastSeen /\ UNCHANGED <<core, lastSeen, flow, refused>>
    \/ /\ r # lastSeen /\ lastSeen' = r
       /\ clear
       /\ \E replayed \in BOOLEAN : join_topic(r, replayed) /\ refused' = ~replayed

\* A tap on a row.
selectRoom(r) ==
    /\ Act /\ taps < MaxTaps /\ taps' = taps + 1
    /\ Enabled(r) /\ r # activeRoom
    /\ activeRoom' = r /\ FollowRail(r) /\ Rejoin(r)
    /\ UNCHANGED <<session, rail, form, dialogs>>

\* send: the held draft goes to the composer's room, if there is one.
send(m, held) ==
    /\ composer' = [composer EXCEPT !.draft = held]
    /\ \/ ~(held /\ composer.room # NoRoom) /\ UNCHANGED core
       \/ held /\ composer.room # NoRoom /\ (send_text(m, composer.room) \/ Rejected)

\* The call returns: the draft is cleared if it was sent.
Sent ==
    /\ \E m \in Own, ok \in BOOLEAN :
          SendReturns(m, ok) /\ composer' = [composer EXCEPT !.draft = ~ok]
    /\ UNCHANGED <<session, rail, selection, flow, form, refused, bounds>>

CanSubmit(m) == Interactive /\ isReady /\ form.mode = "closed" /\ m \notin pushed

\* The field's onSubmit: what it holds, a blank text too, takes the place of the
\* draft.  The send button does the same while the field has the focus.
onSubmit(m) ==
    /\ CanSubmit(m)
    /\ \E blank \in BOOLEAN : send(m, ~blank)
    /\ UNCHANGED <<session, rail, selection, flow, form, refused, bounds>>

\* The send button, without a focused field: the draft as it is held.
onPressed(m) ==
    /\ CanSubmit(m)
    /\ send(m, composer.draft)
    /\ UNCHANGED <<session, rail, selection, flow, form, refused, bounds>>

\* Mutant: the edit dialog starts from the defaults.
Defaults(mode) == "manual"

\* The space's settings as the rail shows them, or the defaults of a new one.
Prefill(mode) == IF mode = "editSpace" THEN rail.space ELSE "manual"

\* The header's button and the empty rail's, the others are on the space's node.
Offered(mode) == mode = "createFromHeader" \/ SpaceNode

\* showSpaceRoomDialog.
OpenDialog(mode) ==
    /\ Act /\ dialogs < MaxDialogs /\ dialogs' = dialogs + 1
    /\ Offered(mode)
    /\ form' = [Closed EXCEPT !.mode = mode, !.auto = Prefill(mode),
                               !.stale = mode = "editSpace" /\ rail.space # space]
    /\ UNCHANGED <<core, session, rail, selection, flow, composer, refused, taps>>

\* The dialog's name field is not modelled: a blank name is not confirmed.
ShowsTypeSelector == form.mode = "createFromHeader"

ShowsSpaceConfig == form.mode = "editSpace" \/ (ShowsTypeSelector /\ form.type = "space")

selectSpaceType ==
    /\ ShowsTypeSelector
    /\ form' = [form EXCEPT !.type = IF @ = "space" THEN "room" ELSE "space"]
    /\ UNCHANGED <<core, session, rail, selection, flow, composer, refused, bounds>>

setAutoJoinRooms ==
    /\ ShowsSpaceConfig
    /\ form' = [form EXCEPT !.auto = IF @ = "auto" THEN "manual" ELSE "auto",
                            !.touched = form.mode = "editSpace"]
    /\ UNCHANGED <<core, session, rail, selection, flow, composer, refused, bounds>>

\* _buildCommand, and the core's answer to it.
Publish ==
    \/ form.mode = "createFromHeader" /\ form.type = "space" /\ create_space(form.auto)
    \/ \E r \in Room :
          \/ form.mode = "createFromHeader" /\ form.type = "room" /\ create_room(r, "standalone")
          \/ form.mode = "createRoomInSpace" /\ create_room(r, "space")
    \/ form.mode = "editSpace" /\ update_space(form.auto)

\* Mutant: nothing remembers that the command was sent.
Unguarded == form.mode # "closed"

\* WR-04: Enter held down, or Enter and then a tap, confirm once.
Confirmable == form.mode # "closed" /\ ~form.handled

\* submit: published and closing, or refused, by the core or for want of a session,
\* and open for another try.
submit ==
    /\ Interactive /\ Confirmable
    /\ \/ /\ CanPublish /\ Publish
          /\ form' = [form EXCEPT !.handled = TRUE, !.published = @ + 1]
       \/ CanPublish /\ Rejected /\ UNCHANGED form
       \/ ~CanPublish /\ UNCHANGED <<core, form>>
    /\ UNCHANGED <<session, rail, selection, flow, composer, refused, bounds>>

\* The route is gone: cancelled, or popped after a confirm.
CloseDialog ==
    /\ form.mode # "closed" /\ form' = Closed
    /\ UNCHANGED <<core, session, rail, selection, flow, composer, refused, bounds>>

Peers ==
    /\ Len(port) < MaxPort
    /\ \/ \E m \in Peer, r \in Room : PushMessage(m, r)
       \/ \E m \in Message, r \in Room : ArchiveMessage(m, r)
    /\ UNCHANGED <<session, rail, selection, flow, composer, form, refused, bounds>>

User ==
    \/ \E r \in Room : selectRoom(r)
    \/ \E m \in Own : onSubmit(m) \/ onPressed(m)
    \/ \E mode \in Modes : OpenDialog(mode)
    \/ selectSpaceType \/ setAutoJoinRooms \/ submit \/ CloseDialog

Next ==
    \/ Start \/ openDefaultFails \/ StartFails \/ StartRefused \/ Dispose \/ close
    \/ Dispatch \/ User \/ Sent \/ Peers

\* The isolate comes to every event that is posted to it, and SendMessage returns.
Spec == Init /\ [][Next]_vars /\ WF_vars(Dispatch) /\ WF_vars(Sent)

-----------------------------------------------------------------------------
(* Properties.                                                             *)

Settled == shell = "shown" /\ port = <<>>

\* The room on screen shows its own messages only, whatever order selections,
\* replays and live messages of several rooms came in (CR-01).
RoomsApart ==
    activeRoom # NoRoom => \A i \in 1..Len(flow) : where[flow[i].id] = activeRoom

\* Once every event is dispatched, the room on screen shows each of its messages
\* that was pushed, unless the last replay failed or came between the push and the
\* archiving.
FlowComplete ==
    Settled /\ activeRoom # NoRoom /\ ~refused =>
        \A m \in pushed \ late : where[m] = activeRoom => Shown(m)

\* One bubble for a message, however often it is echoed, replayed or healed (D-07).
OneBubble == \A i, j \in 1..Len(flow) : flow[i].id = flow[j].id => i = j

\* Once every event is dispatched, the rail shows the core's catalog and membership.
RailMirrorsCore ==
    Settled => rail = [rooms |-> joined, space |-> space, parent |-> parent]

\* A room that is listed as joined has its row: catalog before membership (D-02).
RowBeforeMembership == \A r \in rail.rooms : rail.parent[r] # "none"

\* A dialog publishes one command, however often it is confirmed (WR-04).
OneCommandPerDialog == form.published <= 1

\* Saving an edit dialog leaves auto-join alone when the user did not touch it,
\* unless the dialog was opened before an earlier change had reached the rail.
EditKeepsSettings ==
    [][ form.mode = "editSpace" /\ ~form.touched /\ ~form.stale => UNCHANGED space ]_vars

\* A message shown as pending is settled, or leaves the screen (D-07).
PendingSettles ==
    \A m \in Own :
        (\E i \in 1..Len(flow) : flow[i] = Bubble(m, "pending"))
            ~> (shell # "shown" \/ ~\E i \in 1..Len(flow) : flow[i] = Bubble(m, "pending"))

\* The answer the flow will take for a bubble of m in room r.
Answers(e, m, r) == e.kind = "message" /\ e.id = m /\ e.room = r /\ e.state # "pending"

\* A bubble on screen as pending has its terminal state on the way, for the room
\* on screen: no selection, replay or echo leaves it waiting for nothing.
PendingAnswered ==
    \A i \in 1..Len(flow) : flow[i].state = "pending" =>
        \E j \in 1..Len(port) : Answers(port[j], flow[i].id, activeRoom)

-----------------------------------------------------------------------------
(* The inductive invariant.                                                *)

\* A shown shell has its native session, which is closed after it.  Without one
\* there is nothing to show, nothing on the way and no call.
ClosedInv ==
    /\ open = handle
    /\ shell = "shown" => open
    /\ open => shell \in {"shown", "closing"}
    /\ shell = "closing" => sending = {} /\ activeRoom = NoRoom /\ flow = <<>>
    /\ ~open => /\ port = <<>> /\ sending = {}
                /\ activeRoom = NoRoom /\ joined = {} /\ rail.rooms = {}

\* The session and the composer remember the selection.
FollowedInv == lastSeen = activeRoom /\ composer.room = activeRoom

\* A message that was pushed or archived has its room, this user's others have none.
WhereInv ==
    /\ \A m \in pushed \cup archived : where[m] \in Room
    /\ \A m \in Own \ pushed : where[m] = Nowhere
    /\ sending \subseteq pushed

\* What is on the port names messages with their rooms, and a history each one once.
PortInv ==
    \A i \in 1..Len(port) :
        /\ port[i].kind = "message" => where[port[i].id] = port[i].room
        /\ port[i].kind = "messageHistory" =>
              LET batch == port[i].messages
              IN  /\ \A k \in 1..Len(batch) : where[batch[k]] = port[i].room
                  /\ \A k, l \in 1..Len(batch) : batch[k] = batch[l] => k = l

Exists(par, r) == par[r] # "none"

TreeBefore(events, n, r) ==
    \E j \in 1..n : events[j].kind = "spaceTree" /\ Exists(events[j].parent, r)

\* Rooms are never removed, from one tree to the next.
GrowingInv ==
    /\ \A r \in Room : Exists(rail.parent, r) =>
          Exists(parent, r) /\ \A i \in 1..Len(port) :
                                  port[i].kind = "spaceTree" => Exists(port[i].parent, r)
    /\ \A i \in 1..Len(port), r \in Room : port[i].kind = "spaceTree" /\ Exists(port[i].parent, r) =>
          Exists(parent, r) /\ \A j \in i..Len(port) :
                                  port[j].kind = "spaceTree" => Exists(port[j].parent, r)

\* A room that is joined, or about to be listed, is in an earlier tree.
ListedInv ==
    /\ \A i \in 1..Len(port), r \in Room : port[i].kind = "roomList" /\ r \in port[i].rooms =>
          Exists(rail.parent, r) \/ TreeBefore(port, i, r)
    /\ \A r \in joined : Exists(rail.parent, r) \/ TreeBefore(port, Len(port), r)

NoneAfter(events, n, kind) == \A k \in (n + 1)..Len(events) : events[k].kind # kind

\* The last tree, and the last list, on the port is the core's present one, or the
\* rail has it already.
MirrorInv ==
    shell = "shown" =>
        /\ \/ NoneAfter(port, 0, "spaceTree") /\ rail.space = space /\ rail.parent = parent
           \/ \E i \in 1..Len(port) :
                 /\ port[i].kind = "spaceTree" /\ port[i].space = space /\ port[i].parent = parent
                 /\ NoneAfter(port, i, "spaceTree")
        /\ \/ NoneAfter(port, 0, "roomList") /\ rail.rooms = joined
           \/ \E i \in 1..Len(port) :
                 port[i].kind = "roomList" /\ port[i].rooms = joined /\ NoneAfter(port, i, "roomList")

Shows(e, m) ==
    \/ e.kind = "message" /\ e.id = m
    \/ e.kind = "messageHistory" /\ \E k \in 1..Len(e.messages) : e.messages[k] = m

\* A history of its room without the message comes before an event that shows it,
\* and a message of the room on screen is shown or on its way.
FlowInv ==
    \A m \in pushed \ late :
        /\ \A i \in 1..Len(port) :
              port[i].kind = "messageHistory" /\ port[i].room = where[m] /\ ~Shows(port[i], m) =>
                  \E j \in i..Len(port) : Shows(port[j], m)
        /\ activeRoom = where[m] /\ ~refused =>
              Shown(m) \/ \E j \in 1..Len(port) : Shows(port[j], m)

\* The events before n, from i on, are messages: they take no room from the rail
\* and no bubble from the flow.
Undisturbed(i, n) == \A k \in i..(n - 1) : port[k].kind = "message"

\* Only peers' messages come between a pending echo on the port and its answer,
\* or after it while it is being sent.
PairsInv ==
    \A i \in 1..Len(port) : port[i].kind = "message" /\ port[i].state = "pending" =>
        \/ port[i].id \in sending /\ Undisturbed(i, Len(port) + 1)
        \/ \E j \in i..Len(port) :
              Answers(port[j], port[i].id, port[i].room) /\ Undisturbed(i, j)

\* A bubble that is pending on screen has its answer on the port, before any list
\* or history that could take it away.
NextInv ==
    \A i \in 1..Len(flow) : flow[i].state = "pending" =>
        \E j \in 1..Len(port) :
            Answers(port[j], flow[i].id, activeRoom) /\ Undisturbed(1, j)

EchoInv == PairsInv /\ NextInv

\* The settings an untouched edit dialog shows are those of the space.
FormInv ==
    /\ form.mode = "editSpace" /\ ~form.touched /\ ~form.stale => form.auto = space
    /\ form.published = IF form.handled THEN 1 ELSE 0

IInv ==
    /\ TypeOK /\ ClosedInv /\ FollowedInv /\ WhereInv /\ PortInv /\ GrowingInv /\ ListedInv
    /\ MirrorInv /\ FlowInv /\ FormInv
    /\ RoomsApart /\ OneBubble /\ RowBeforeMembership
=============================================================================
