------------------------------- MODULE Pages -------------------------------
(***************************************************************************)
(* The pages of the web UI in one browser: the lists of agents, jobs and   *)
(* snapshots they share, how announcements of the server and the user's    *)
(* own edits refresh them, the Dashboard's running backups, and the wait   *)
(* of the Agents page for an update it has pushed.                         *)
(*                                                                         *)
(* The contents of a list are the number of its last change (version). The *)
(* query cache is that of the library: data is fresh until it is marked or *)
(* 30 seconds old; marking a list that a page shows starts a fetch anew,   *)
(* unless the first one is still under way, which goes on. Announcements   *)
(* travel on the provider's socket, which reconnects, and, for the         *)
(* Dashboard, on its own, which does not. One agent is updated.            *)
(*                                                                         *)
(* Bounds: MaxEvents changes and messages of server and agents; MaxMoves   *)
(* changes of the page, edits and pushes by the user; MaxFaults lost       *)
(* sockets and failed requests.                                            *)
(***************************************************************************)
EXTENDS Integers, Sequences

CONSTANTS Lists, Snaps, NoSnap, MaxEvents, MaxMoves, MaxFaults

ASSUME PagesAssumption ==
  /\ Lists \subseteq {"agents", "jobs", "snapshots"}
  /\ NoSnap \notin Snaps
  /\ MaxEvents \in Nat /\ MaxMoves \in Nat /\ MaxFaults \in Nat

VARIABLES
  version,   \* server: number of the last change of each list
  backup,    \* agents: what has become of each backup
  page,      \* the page shown
  socket, inbox,   \* the provider's WebSocket, and what is on its way to it
  own, ownInbox,   \* the Dashboard's
  list,      \* the cached lists
  edit,      \* lists that the answer to the user's edit will mark
  running,   \* Dashboard: backups with a progress bar
  update,    \* Agents: the text about the pushed update, and what is waited for
  told,      \* history: what each list was when the page was told to refresh it
  failed,    \* history: lists whose last fetch failed
  events, moves, faults

server   == <<version, backup>>
wires    == <<socket, inbox, own, ownInbox>>
cache    == <<list, told, failed>>
counters == <<events, moves, faults>>
pageVars == <<server, page, wires, cache, edit, running, update, counters>>

Versions == 0..(MaxEvents + MaxMoves)
None     == -1                        \* a list that was never loaded

\* Which lists a page shows.
Shown == [dashboard |-> Lists, agents |-> Lists, jobs |-> {"agents", "jobs"} \cap Lists,
          snapshots |-> Lists, other |-> {}]

\* Which announcements make a page mark their list, and which list it is.
Refreshes == [dashboard |-> {"agent_online", "agent_offline", "snapshot_done"},
              agents    |-> {"agent_online", "agent_offline"},
              jobs      |-> {"job_result", "snapshot_done"},
              snapshots |-> {"snapshot_done", "check_result"},
              other     |-> {}]
ListOf == [agent_online |-> "agents", agent_offline |-> "agents", job_result |-> "jobs",
           snapshot_done |-> "snapshots", check_result |-> "snapshots"]

\* What an edit on a page changes, rows that go with others included, and marks.
Edit(changes, marks) == [changes |-> changes \cap Lists, marks |-> marks \cap Lists]
RemoveAgent == Edit(Lists, {"agents"})
Edits == [dashboard |-> {RemoveAgent},
          agents    |-> {RemoveAgent, Edit({"agents"}, {"agents"})},
          jobs      |-> {Edit({"jobs"}, {"jobs"}),                             \* save
                         Edit({"jobs", "snapshots"}, {"jobs"}),                \* delete
                         Edit({"agents", "snapshots"}, {"snapshots"}),         \* run
                         Edit({"jobs", "snapshots"}, {"jobs", "snapshots"})},  \* reset
          snapshots |-> {Edit({"snapshots"}, {"snapshots"})},
          other     |-> {}]

Types   == {"agent_online", "agent_offline", "job_result", "snapshot_done", "check_result",
            "progress", "checking", "already_current"}
OfSnap  == {"snapshot_done", "check_result", "progress"}
Message == [type : Types \ OfSnap, snap : {NoSnap}] \cup [type : OfSnap, snap : Snaps]
EndOf(s) == [type |-> "snapshot_done", snap |-> s]
Fetch   == [phase : {"none", "asked", "answered"}, v : Versions]
List    == [data : Versions \cup {None}, stale : BOOLEAN, fetch : Fetch]
Update  == [text : {"none", "sent", "downloading", "ended"}, pending : BOOLEAN, asked : BOOLEAN]

NoFetch  == [phase |-> "none", v |-> 0]
Asked    == [phase |-> "asked", v |-> 0]
NoUpdate == [text |-> "none", pending |-> FALSE, asked |-> FALSE]

PagesInit ==
  /\ version = [k \in Lists |-> 0]
  /\ backup = [s \in Snaps |-> "none"]
  /\ page = "other"
  /\ socket = "up" /\ own = "none" /\ inbox = <<>> /\ ownInbox = <<>>
  /\ list = [k \in Lists |-> [data |-> None, stale |-> FALSE, fetch |-> NoFetch]]
  /\ edit = {} /\ running = {} /\ update = NoUpdate
  /\ told = [k \in Lists |-> 0] /\ failed = {}
  /\ events = 0 /\ moves = 0 /\ faults = 0

Event == events < MaxEvents /\ events' = events + 1 /\ UNCHANGED <<moves, faults>>
Move  == moves < MaxMoves /\ moves' = moves + 1 /\ UNCHANGED <<events, faults>>
Fault == faults < MaxFaults /\ faults' = faults + 1 /\ UNCHANGED <<events, moves>>

-----------------------------------------------------------------------------
(* Server and agents.                                                      *)

browser == <<page, socket, own, cache, edit, running, update>>

\* broadcastToUi: to every socket that has said ui_connect and is open.
Broadcast(type, s) ==
  LET m == [type |-> type, snap |-> s]
  IN  /\ inbox'    = IF socket = "up" THEN Append(inbox, m) ELSE inbox
      /\ ownInbox' = IF own = "up" THEN Append(ownInbox, m) ELSE ownInbox

\* The rows are written, then the change is announced.
Changes(ks) == version' = [k \in Lists |-> IF k \in ks THEN version[k] + 1 ELSE version[k]]

\* Another user's edit, a heartbeat, an agent that is busy: announced to nobody.
ChangeQuietly(k) ==
  /\ Event
  /\ Changes({k})
  /\ UNCHANGED <<backup, inbox, ownInbox, browser>>

AgentStatus ==
  /\ Event
  /\ Changes({"agents"})
  /\ Broadcast("agent_online", NoSnap) \/ Broadcast("agent_offline", NoSnap)
  /\ UNCHANGED <<backup, browser>>

\* snapshot_start is announced too, but no page listens to it.
SnapshotStart(s) ==
  /\ Event
  /\ backup[s] = "none" /\ backup' = [backup EXCEPT ![s] = "running"]
  /\ Changes({"snapshots"})
  /\ UNCHANGED <<inbox, ownInbox, browser>>

Progress(s) ==
  /\ Event
  /\ backup[s] = "running"
  /\ Broadcast("progress", s)
  /\ UNCHANGED <<server, browser>>

SnapshotDone(s) ==
  /\ Event
  /\ backup[s] = "running" /\ backup' = [backup EXCEPT ![s] = "done"]
  /\ Changes({"snapshots"})
  /\ Broadcast("snapshot_done", s)
  /\ UNCHANGED browser

CheckResult(s) ==
  /\ Event
  /\ backup[s] = "done"
  /\ Changes({"snapshots"})
  /\ Broadcast("check_result", s)
  /\ UNCHANGED <<backup, browser>>

\* verify_result and rotate_key_result.
JobResult ==
  /\ Event
  /\ Changes({"jobs"})
  /\ Broadcast("job_result", NoSnap)
  /\ UNCHANGED <<backup, browser>>

\* An agent answers a push, whoever's it was.
UpdateAck ==
  /\ Event
  /\ \E type \in {"checking", "already_current"} : Broadcast(type, NoSnap)
  /\ UNCHANGED <<server, browser>>

-----------------------------------------------------------------------------
(* The query cache.                                                        *)

\* A list that a page mounts, or looks at again, is fetched if it is missing or old.
Wanted(l) == l.fetch.phase = "none" /\ (l.stale \/ l.data = None)
Mount(ks) == [k \in Lists |-> IF k \in ks /\ Wanted(list[k]) THEN [list[k] EXCEPT !.fetch = Asked]
                                                             ELSE list[k]]

\* invalidateQueries: a list that is shown is fetched anew, but for a first load.
Loading(l) == l.data = None /\ l.fetch.phase # "none"
\* mutant: a fetch that is under way is left to go on
MarkedOnce(l, shown) ==
  [l EXCEPT !.stale = TRUE, !.fetch = IF shown /\ @.phase = "none" THEN Asked ELSE @]
\* mutant: the list is only marked
MarkedOnly(l, shown) == [l EXCEPT !.stale = TRUE]
Marked(l, shown) ==
  [l EXCEPT !.stale = TRUE, !.fetch = IF shown /\ ~Loading(l) THEN Asked ELSE @]
Invalidate(ks) ==
  /\ list' = [k \in Lists |-> IF k \in ks THEN Marked(list[k], k \in Shown[page]) ELSE list[k]]
  /\ told' = [k \in Lists |-> IF k \in ks \cap Shown[page] /\ list[k].data # None
                             THEN version[k] ELSE told[k]]
  /\ UNCHANGED failed

\* staleTime has passed.
Age(k) ==
  /\ list[k].data # None /\ ~list[k].stale
  /\ list' = [list EXCEPT ![k].stale = TRUE]
  /\ UNCHANGED <<server, page, wires, told, failed, edit, running, update, counters>>

\* The window is looked at again.
Focus ==
  /\ list' = Mount(Shown[page])
  /\ UNCHANGED <<server, page, wires, told, failed, edit, running, update, counters>>

\* GET /agents, /jobs, /snapshots.
ServerReads(k) ==
  /\ list[k].fetch.phase = "asked"
  /\ list' = [list EXCEPT ![k].fetch = [phase |-> "answered", v |-> version[k]]]
  /\ UNCHANGED <<server, page, wires, told, failed, edit, running, update, counters>>

AnswerArrives(k) ==
  /\ list[k].fetch.phase = "answered"
  /\ list' = [list EXCEPT ![k] = [data |-> @.fetch.v, stale |-> FALSE, fetch |-> NoFetch]]
  /\ failed' = failed \ {k}
  /\ UNCHANGED <<server, page, wires, told, edit, running, update, counters>>

\* The second attempt has failed too.
FetchFails(k) ==
  /\ Fault
  /\ list[k].fetch.phase # "none"
  /\ list' = [list EXCEPT ![k].stale = TRUE, ![k].fetch = NoFetch]
  /\ failed' = failed \cup {k}
  /\ UNCHANGED <<server, page, wires, told, edit, running, update>>

-----------------------------------------------------------------------------
(* The user.                                                               *)

\* The state of a page ends with it; what it has asked for does not.
GoTo(p) ==
  /\ Move
  /\ p # page /\ page' = p
  /\ list' = Mount(Shown[p])
  /\ own' = IF p = "dashboard" THEN "opening" ELSE "none"
  /\ ownInbox' = <<>> /\ running' = {} /\ update' = NoUpdate
  /\ UNCHANGED <<server, socket, inbox, told, failed, edit>>

\* One edit at a time: the request is sent and the server handles it.
Save(e) ==
  /\ Move
  /\ edit = {} /\ edit' = e.marks
  /\ Changes(e.changes)
  /\ UNCHANGED <<backup, page, wires, cache, running, update>>

\* onSuccess, also after the page was left.
EditAnswered ==
  /\ edit # {} /\ edit' = {}
  /\ Invalidate(edit)
  /\ UNCHANGED <<server, page, wires, running, update, counters>>

EditFails ==
  /\ Fault
  /\ edit # {} /\ edit' = {}
  /\ UNCHANGED <<server, page, wires, cache, running, update>>

PushUpdate ==
  /\ Move
  /\ page = "agents" /\ ~update.asked
  /\ update' = [update EXCEPT !.text = "none", !.asked = TRUE]
  /\ UNCHANGED <<server, page, wires, cache, edit, running>>

\* mutant: the wait is noted without a timer
PushUntimed ==
  /\ update.asked
  /\ update' = [update EXCEPT !.text = "sent", !.asked = FALSE]
  /\ UNCHANGED <<server, page, wires, cache, edit, running, counters>>
\* Sent to the agent, or refused because it is not connected.
PushAnswered ==
  /\ update.asked
  /\ \/ update' = [text |-> "sent", pending |-> TRUE, asked |-> FALSE]
     \/ update' = [update EXCEPT !.text = "ended", !.asked = FALSE]
  /\ UNCHANGED <<server, page, wires, cache, edit, running, counters>>

\* No answer within 30 seconds.
WaitOver ==
  /\ update.pending
  /\ update' = [update EXCEPT !.text = "ended", !.pending = FALSE]
  /\ UNCHANGED <<server, page, wires, cache, edit, running, counters>>

-----------------------------------------------------------------------------
(* The sockets.                                                            *)

Refresh(m) ==
  IF m.type \in Refreshes[page] THEN Invalidate({ListOf[m.type]}) ELSE UNCHANGED cache

\* What the Agents page makes of a message about its agent.
Heard(u, type) ==
  CASE type = "already_current" \/ (type = "agent_online" /\ u.pending) ->
         [u EXCEPT !.text = "ended", !.pending = FALSE]
    [] type = "checking" -> [u EXCEPT !.text = "downloading"]
    [] OTHER -> u

\* The provider hands a message to the page; the Dashboard does not ask for any.
Receive ==
  /\ inbox # <<>> /\ inbox' = Tail(inbox)
  /\ IF page = "dashboard" THEN UNCHANGED cache ELSE Refresh(Head(inbox))
  /\ update' = IF page = "agents" THEN Heard(update, Head(inbox).type) ELSE update
  /\ UNCHANGED <<server, page, socket, own, ownInbox, edit, running, counters>>

\* mutant: the end of a backup refreshes the list and leaves its bar
ReceiveOwnKeeping ==
  /\ ownInbox # <<>> /\ ownInbox' = Tail(ownInbox)
  /\ Refresh(Head(ownInbox))
  /\ running' = IF Head(ownInbox).type = "progress" THEN running \cup {Head(ownInbox).snap} ELSE running
  /\ UNCHANGED <<server, page, socket, inbox, own, edit, update, counters>>
\* The Dashboard's own onmessage.
ReceiveOwn ==
  /\ ownInbox # <<>> /\ ownInbox' = Tail(ownInbox)
  /\ LET m == Head(ownInbox)
     IN  /\ Refresh(m)
         /\ running' = CASE m.type = "progress" -> running \cup {m.snap}
                         [] m.type = "snapshot_done" -> running \ {m.snap}
                         [] OTHER -> running
  /\ UNCHANGED <<server, page, socket, inbox, own, edit, update, counters>>

\* ui_connect of the Dashboard's socket.
JoinOwn ==
  /\ own = "opening" /\ own' = "up"
  /\ UNCHANGED <<server, page, socket, inbox, ownInbox, cache, edit, running, update, counters>>

LoseSocket ==
  /\ Fault
  /\ socket = "up" /\ socket' = "down" /\ inbox' = <<>>
  /\ UNCHANGED <<server, page, own, ownInbox, cache, edit, running, update>>

Reconnect ==
  /\ socket = "down" /\ socket' = "up"
  /\ UNCHANGED <<server, page, inbox, own, ownInbox, cache, edit, running, update, counters>>

\* Nobody opens it again before the page is mounted anew.
LoseOwn ==
  /\ Fault
  /\ own \in {"opening", "up"} /\ own' = "lost" /\ ownInbox' = <<>>
  /\ UNCHANGED <<server, page, socket, inbox, cache, edit, running, update>>

-----------------------------------------------------------------------------
PagesNext ==
  \/ \E k \in Lists : \/ ChangeQuietly(k) \/ Age(k)
                      \/ ServerReads(k) \/ AnswerArrives(k) \/ FetchFails(k)
  \/ \E s \in Snaps : SnapshotStart(s) \/ Progress(s) \/ SnapshotDone(s) \/ CheckResult(s)
  \/ AgentStatus \/ JobResult \/ UpdateAck
  \/ \E p \in DOMAIN Shown : GoTo(p)
  \/ \E e \in Edits[page] : Save(e)
  \/ EditAnswered \/ EditFails \/ PushUpdate \/ PushAnswered \/ WaitOver \/ Focus
  \/ Receive \/ ReceiveOwn \/ JoinOwn \/ LoseSocket \/ Reconnect \/ LoseOwn

\* Requests are answered, arrived messages are handled, timers run.
PagesFairness ==
  /\ \A k \in Lists : WF_pageVars(ServerReads(k)) /\ WF_pageVars(AnswerArrives(k))
  /\ WF_pageVars(WaitOver)

PagesSpec == PagesInit /\ [][PagesNext]_pageVars /\ PagesFairness

-----------------------------------------------------------------------------
(* Properties.                                                             *)

\* Types.
PagesTypeOK ==
  /\ version \in [Lists -> Versions] /\ backup \in [Snaps -> {"none", "running", "done"}]
  /\ page \in DOMAIN Shown
  /\ socket \in {"up", "down"} /\ inbox \in Seq(Message)
  /\ own \in {"none", "opening", "up", "lost"} /\ ownInbox \in Seq(Message)
  /\ list \in [Lists -> List] /\ told \in [Lists -> Versions] /\ failed \subseteq Lists
  /\ edit \subseteq Lists /\ running \subseteq Snaps /\ update \in Update
  /\ events \in 0..MaxEvents /\ moves \in 0..MaxMoves /\ faults \in 0..MaxFaults

\* A page that was told of a change while it showed a list does not come to rest
\* on an older one, whatever fetches were under way, unless a fetch failed
\* (Snapshots.tsx:67, Agents.tsx:86, Jobs.tsx:56 and the mutations' onSuccess).
ShowsWhatItWasTold ==
  \A k \in Lists \ failed :
    list[k].fetch.phase = "none" /\ list[k].data # None => list[k].data >= told[k]

\* While its socket lasts, the Dashboard's "Running Now" counts no backup that has
\* ended, but for those whose end it is about to hear (Dashboard.tsx:65-84).
RunningIsLive ==
  own = "up" =>
    \A s \in running :
      \/ backup[s] = "running"
      \/ \E i \in DOMAIN ownInbox : ownInbox[i] = EndOf(s)

\* What a page was told of is shown, unless a fetch fails.
AnnouncedIsShown ==
  \A k \in Lists :
    list[k].data \in Versions /\ list[k].data < told[k] ~> list[k].data >= told[k] \/ k \in failed

\* "Timeout: if no ack in 30s, show error" (Agents.tsx:61): no push waits for ever
\* for a first sign of the agent.
UpdateWaitsEnd == update.text = "sent" ~> update.text # "sent"
=============================================================================
