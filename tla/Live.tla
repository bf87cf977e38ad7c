-------------------------------- MODULE Live --------------------------------
(***************************************************************************)
(* Live regions: a watcher compares what it samples with what it sampled a *)
(* second ago and publishes the topics of what differs to every open       *)
(* socket; a page that hears a topic its region answers to asks for the    *)
(* region again.  What comes and goes between two samples is published to  *)
(* nobody.  Per socket the server runs a writer and a reader; the page     *)
(* runs timers, fetches and the socket's handlers.  The page here has one  *)
(* region.                                                                 *)
(***************************************************************************)
EXTENDS Naturals, Sequences, FiniteSets

LOCAL INSTANCE SequencesExt

CONSTANTS
    Parts,          \* what the watcher samples: the fields of liveSnapshot
    TopicOf,        \* [Parts -> the topic it is published under]
    Rendered,       \* the parts the region is rendered from
    Heard,          \* the topics the region answers to
    Sockets,        \* used again once nothing of them is left
    NoSocket, NoTopic,
    MaxPulls,       \* bound: fetches of the region in flight
    MaxTroubles     \* bound: changes of the world, connections broken or stalled,
                    \* fetches failed, restarts and the end of the session

Topics == {TopicOf[p] : p \in Parts}
Covered == {p \in Rendered : TopicOf[p] \in Heard}

ASSUME LiveConstants ==
    /\ Rendered \subseteq Parts /\ Heard \subseteq Topics
    /\ NoTopic \notin Topics /\ NoSocket \notin Sockets
    /\ MaxTroubles \in Nat /\ MaxPulls \in Nat \ {0}

VARIABLES
    world,      \* [Parts -> one of two values]
    server,     \* "up", "ending" once closeAll has run, "down"
    session,    \* whether the page's session is live
    previous,   \* the watcher's last snapshot
    cameBack,   \* the parts that have changed since, and changed back
    todo,       \* the topics it has still to publish
    publishing, \* the topic being published
    targets,    \* under the hub's mutex: the clients it is still to be queued for
    queueing,   \* the client whose pending set has it and whose wake has not
    hub,        \* the registered clients
    conn,       \* [Sockets -> "open" or "closed"]
    pending,    \* [Sockets -> the topics waiting to go out]
    wake,       \* [Sockets -> whether the wake channel, which holds one, is full]
    writer,     \* [Sockets -> "none", "select", "send" or "gone"]
    taken,      \* [Sockets -> what the writer has taken and not sent]
    reader,     \* [Sockets -> "upgraded", "reading", "done" or "gone"]
    wire,       \* [Sockets -> the messages the page has not heard]
    page,       \* where the reader's page is
    pull,       \* the fetches of the region in flight, in the order they were asked
    spent       \* what is used of MaxTroubles

watchVars == <<previous, cameBack, todo, publishing, targets, queueing>>
clientVars == <<pending, wake, writer, taken>>
socketVars == <<hub, conn, clientVars, reader, wire>>
liveVars == <<world, server, session, watchVars, socketVars, page, pull, spent>>

(* What the region shows of the parts its topics cover. *)
Rendering == [p \in Covered |-> world[p]]
Asked == [stage |-> "asked", value |-> [p \in Covered |-> 0], attached |-> TRUE]
Fresh(at) == [at |-> at, link |-> "connecting", socket |-> NoSocket, settling |-> FALSE,
              hands |-> FALSE, waiting |-> FALSE, shown |-> Rendering, missed |-> FALSE]
Free(c) == conn[c] = "closed" /\ writer[c] \in {"none", "gone"} /\ reader[c] = "gone" /\ c \notin hub
HubIsFree == targets = {}

LiveInit ==
    /\ world = [p \in Parts |-> 0] /\ server = "up" /\ session = TRUE
    /\ previous = world /\ cameBack = {} /\ todo = {} /\ publishing = NoTopic /\ targets = {} /\ queueing = NoSocket
    /\ hub = {} /\ conn = [c \in Sockets |-> "closed"]
    /\ pending = [c \in Sockets |-> {}] /\ wake = [c \in Sockets |-> FALSE]
    /\ writer = [c \in Sockets |-> "gone"] /\ taken = [c \in Sockets |-> {}]
    /\ reader = [c \in Sockets |-> "gone"] /\ wire = [c \in Sockets |-> <<>>]
    /\ page = Fresh("page")
    /\ pull = <<>> /\ spent = 0

Trouble == spent < MaxTroubles /\ spent' = spent + 1

-----------------------------------------------------------------------------
(* The world and the watcher. *)

Change(p) ==
    /\ Trouble
    /\ world' = [world EXCEPT ![p] = 1 - @]
    /\ cameBack' = IF world'[p] = previous[p] THEN cameBack \union {p} ELSE cameBack
    /\ UNCHANGED <<server, session, previous, todo, publishing, targets, queueing, socketVars, page, pull>>

ChangedTopics(before, after) == {TopicOf[p] : p \in {q \in Parts : before[q] # after[q]}}

(* The region shows, or is about to, what a part was between two samples that
   found it the same. *)
RenderedInBetween ==
    LET answers == {pull[f].value : f \in {g \in DOMAIN pull : pull[g].stage = "html" /\ pull[g].attached}}
    IN  \E p \in Covered \intersect cameBack, shown \in answers \union {page.shown} :
            world[p] = previous[p] /\ shown[p] # world[p]

WatchForChanges ==
    /\ server = "up" /\ todo = {} /\ HubIsFree
    /\ todo' = ChangedTopics(previous, world) /\ previous' = world /\ cameBack' = {}
    /\ page' = [page EXCEPT !.missed = @ \/ RenderedInBetween]
    /\ UNCHANGED <<world, server, session, publishing, targets, queueing, socketVars, pull, spent>>

(* publish holds the hub's mutex until every client has the topic. *)
Publish ==
    /\ todo # {} /\ HubIsFree
    /\ \E t \in todo : publishing' = (IF hub = {} THEN NoTopic ELSE t) /\ todo' = todo \ {t}
    /\ targets' = hub
    /\ UNCHANGED <<world, server, session, previous, cameBack, queueing, socketVars, page, pull, spent>>

(* Faulty: the wake, and then the set. *)
QueueWakingFirst ==
    \/ /\ queueing = NoSocket
       /\ \E c \in targets : wake' = [wake EXCEPT ![c] = TRUE] /\ queueing' = c
       /\ UNCHANGED <<targets, publishing, pending>>
    \/ /\ queueing # NoSocket
       /\ pending' = [pending EXCEPT ![queueing] = @ \union {publishing}]
       /\ targets' = targets \ {queueing} /\ queueing' = NoSocket
       /\ publishing' = IF targets = {queueing} THEN NoTopic ELSE publishing
       /\ UNCHANGED wake

(* queue: into the set under the client's mutex, and then the wake. *)
Queue ==
    \/ /\ queueing = NoSocket
       /\ \E c \in targets :
            /\ pending' = [pending EXCEPT ![c] = @ \union {publishing}] /\ queueing' = c
       /\ UNCHANGED <<targets, publishing, wake>>
    \/ /\ queueing # NoSocket
       /\ wake' = [wake EXCEPT ![queueing] = TRUE]
       /\ targets' = targets \ {queueing} /\ queueing' = NoSocket
       /\ publishing' = IF targets = {queueing} THEN NoTopic ELSE publishing
       /\ UNCHANGED pending

PublishToClient ==
    /\ targets # {} /\ Queue
    /\ UNCHANGED <<world, server, session, previous, cameBack, todo, hub, conn, writer, taken, reader, wire, page, pull, spent>>

-----------------------------------------------------------------------------
(* A socket's handler, its writer and its reader. *)

Register(c) ==
    /\ reader[c] = "upgraded" /\ HubIsFree
    /\ hub' = hub \union {c}
    /\ writer' = [writer EXCEPT ![c] = "select"] /\ reader' = [reader EXCEPT ![c] = "reading"]
    /\ UNCHANGED <<world, server, session, watchVars, conn, pending, wake, taken, wire, page, pull, spent>>

Take(c) ==
    /\ writer[c] = "select" /\ wake[c] /\ wake' = [wake EXCEPT ![c] = FALSE]
    /\ taken' = [taken EXCEPT ![c] = pending[c]] /\ pending' = [pending EXCEPT ![c] = {}]
    /\ writer' = [writer EXCEPT ![c] = IF pending[c] = {} THEN "select" ELSE "send"]
    /\ UNCHANGED <<world, server, session, watchVars, hub, conn, reader, wire, page, pull, spent>>

(* Faulty: a write that fails ends the writer and no more. *)
SendOrEnd(c) ==
    /\ writer[c] = "send"
    /\ \E t \in taken[c] :
        \/ /\ conn[c] = "open"
           /\ wire' = [wire EXCEPT ![c] = Append(@, t)]
           /\ taken' = [taken EXCEPT ![c] = @ \ {t}]
           /\ writer' = [writer EXCEPT ![c] = IF taken[c] = {t} THEN "select" ELSE "send"]
           /\ UNCHANGED <<conn, spent>>
        \/ /\ IF conn[c] = "open" THEN Trouble ELSE UNCHANGED spent
           /\ writer' = [writer EXCEPT ![c] = "gone"] /\ taken' = [taken EXCEPT ![c] = {}]
           /\ UNCHANGED <<conn, wire>>
    /\ UNCHANGED <<world, server, session, watchVars, hub, pending, wake, reader, page, pull>>

(* A write fails on a connection that is closed, or that takes no more until
   the deadline; the writer closes the connection and ends. *)
Send(c) ==
    /\ writer[c] = "send"
    /\ \E t \in taken[c] :
        \/ /\ conn[c] = "open"
           /\ wire' = [wire EXCEPT ![c] = Append(@, t)]
           /\ taken' = [taken EXCEPT ![c] = @ \ {t}]
           /\ writer' = [writer EXCEPT ![c] = IF taken[c] = {t} THEN "select" ELSE "send"]
           /\ UNCHANGED <<conn, spent>>
        \/ /\ IF conn[c] = "open" THEN Trouble ELSE UNCHANGED spent
           /\ conn' = [conn EXCEPT ![c] = "closed"]
           /\ writer' = [writer EXCEPT ![c] = "gone"] /\ taken' = [taken EXCEPT ![c] = {}]
           /\ UNCHANGED wire
    /\ UNCHANGED <<world, server, session, watchVars, hub, pending, wake, reader, page, pull>>

Done(c) == reader[c] \in {"done", "gone"}

WriterEnds(c) ==
    /\ writer[c] = "select" /\ Done(c)
    /\ writer' = [writer EXCEPT ![c] = "gone"]
    /\ UNCHANGED <<world, server, session, watchVars, hub, conn, pending, wake, taken, reader, wire, page, pull, spent>>

(* The read fails; the deferred close of done comes before unregister. *)
ReadLoopEnds(c) ==
    /\ reader[c] = "reading" /\ conn[c] = "closed"
    /\ reader' = [reader EXCEPT ![c] = "done"]
    /\ UNCHANGED <<world, server, session, watchVars, hub, conn, clientVars, wire, page, pull, spent>>

(* Nothing is queued for it any more, and what is queued is nobody's. *)
Unregister(c) ==
    /\ reader[c] = "done" /\ HubIsFree
    /\ hub' = hub \ {c} /\ reader' = [reader EXCEPT ![c] = "gone"]
    /\ pending' = [pending EXCEPT ![c] = {}] /\ wake' = [wake EXCEPT ![c] = FALSE]
    /\ UNCHANGED <<world, server, session, watchVars, conn, writer, taken, wire, page, pull, spent>>

(* The network, noticed at both ends. *)
Breaks(c) ==
    /\ conn[c] = "open" /\ Trouble
    /\ conn' = [conn EXCEPT ![c] = "closed"]
    /\ UNCHANGED <<world, server, session, watchVars, hub, clientVars, reader, wire, page, pull>>

-----------------------------------------------------------------------------
(* The daemon's end and its next start; the sessions are in the database. *)

CloseAll ==
    /\ server = "up" /\ HubIsFree /\ Trouble /\ server' = "ending"
    /\ conn' = [c \in Sockets |-> IF c \in hub THEN "closed" ELSE conn[c]]
    /\ UNCHANGED <<world, session, watchVars, hub, clientVars, reader, wire, page, pull>>

Exit ==
    /\ server = "ending" /\ server' = "down"
    /\ todo' = {} /\ cameBack' = {} /\ publishing' = NoTopic /\ targets' = {} /\ queueing' = NoSocket
    /\ hub' = {} /\ conn' = [c \in Sockets |-> "closed"]
    /\ pending' = [c \in Sockets |-> {}] /\ wake' = [c \in Sockets |-> FALSE] /\ taken' = [c \in Sockets |-> {}]
    /\ writer' = [c \in Sockets |-> "gone"] /\ reader' = [c \in Sockets |-> "gone"]
    /\ UNCHANGED <<world, session, previous, wire, page, pull, spent>>

Start ==
    /\ server = "down" /\ server' = "up" /\ previous' = world /\ cameBack' = {}
    /\ UNCHANGED <<world, session, todo, publishing, targets, queueing, socketVars, page, pull, spent>>

(* Every request of the page asks whether its session is one to renew. *)
Touch == session

(* Logged out from another tab, or not renewed in time. *)
SessionEnds ==
    /\ session /\ Trouble /\ session' = FALSE
    /\ UNCHANGED <<world, server, watchVars, socketVars, page, pull>>

-----------------------------------------------------------------------------
(* The page: live.js. *)

OnPage == page.at = "page"

(* pull, from a page that has become p: put off while the hands are in the
   region, and otherwise a fetch. *)
PullFrom(p) ==
    IF p.hands THEN page' = [p EXCEPT !.waiting = TRUE] /\ UNCHANGED pull
    ELSE /\ page' = [p EXCEPT !.missed = @ /\ pull # <<>>]
         /\ Len(pull) < MaxPulls
         /\ pull' = Append(pull, Asked)

TakeUp(c) ==
    /\ conn' = [conn EXCEPT ![c] = "open"] /\ reader' = [reader EXCEPT ![c] = "upgraded"]
    /\ writer' = [writer EXCEPT ![c] = "none"]
    /\ pending' = [pending EXCEPT ![c] = {}] /\ wake' = [wake EXCEPT ![c] = FALSE]
    /\ wire' = [wire EXCEPT ![c] = <<>>]
    /\ page' = [page EXCEPT !.socket = c]
    /\ UNCHANGED <<world, server, session, watchVars, hub, taken, pull, spent>>

(* The upgrade, refused without a session, answers the page before the
   handler has registered the client. *)
Upgrade ==
    /\ OnPage /\ page.link = "connecting" /\ page.socket = NoSocket
    /\ server = "up" /\ Touch /\ \E c \in Sockets : Free(c)
    /\ TakeUp(CHOOSE c \in Sockets : Free(c))

Opens ==
    /\ OnPage /\ page.link = "connecting" /\ page.socket # NoSocket
    /\ page' = [page EXCEPT !.link = "open", !.settling = TRUE]
    /\ UNCHANGED <<world, server, session, watchVars, socketVars, pull, spent>>

Hears ==
    /\ OnPage /\ page.link = "open" /\ wire[page.socket] # <<>>
    /\ page' = [page EXCEPT !.settling = @ \/ Head(wire[page.socket]) \in Heard]
    /\ wire' = [wire EXCEPT ![page.socket] = Tail(@)]
    /\ UNCHANGED <<world, server, session, watchVars, hub, conn, clientVars, reader, pull, spent>>

(* Faulty: only a timer to connect again. *)
ClosesWithoutAsking ==
    /\ OnPage
    /\ \/ page.link = "open" /\ conn[page.socket] = "closed"
       \/ page.link = "connecting" /\ page.socket = NoSocket /\ (server # "up" \/ ~Touch)
    /\ page' = [page EXCEPT !.link = "timer", !.socket = NoSocket]
    /\ wire' = [c \in Sockets |-> IF c = page.socket THEN <<>> ELSE wire[c]]
    /\ UNCHANGED <<world, server, session, watchVars, hub, conn, clientVars, reader, pull, spent>>

(* Closed, or refused: a timer to connect again, and one region asked for, to
   learn whether it is the session. *)
Closes ==
    /\ OnPage
    /\ \/ page.link = "open" /\ conn[page.socket] = "closed"
       \/ page.link = "connecting" /\ page.socket = NoSocket /\ (server # "up" \/ ~Touch)
    /\ PullFrom([page EXCEPT !.link = "timer", !.socket = NoSocket])
    /\ wire' = [c \in Sockets |-> IF c = page.socket THEN <<>> ELSE wire[c]]
    /\ UNCHANGED <<world, server, session, watchVars, hub, conn, clientVars, reader, spent>>

Connect ==
    /\ OnPage /\ page.link = "timer"
    /\ page' = [page EXCEPT !.link = "connecting"]
    /\ UNCHANGED <<world, server, session, watchVars, socketVars, pull, spent>>

(* The tab is shown again: every region is asked for. *)
Visible ==
    /\ OnPage /\ page' = [page EXCEPT !.settling = TRUE]
    /\ UNCHANGED <<world, server, session, watchVars, socketVars, pull, spent>>

(* The settling outlasts the statement between the upgrade and Register. *)
Settled ==
    /\ OnPage /\ page.settling
    /\ page.link = "open" => reader[page.socket] # "upgraded"
    /\ PullFrom([page EXCEPT !.settling = FALSE])
    /\ UNCHANGED <<world, server, session, watchVars, socketVars, spent>>

Focus ==
    /\ OnPage /\ ~page.hands /\ page' = [page EXCEPT !.hands = TRUE]
    /\ UNCHANGED <<world, server, session, watchVars, socketVars, pull, spent>>

FocusOut ==
    /\ OnPage /\ page.hands
    /\ page' = [page EXCEPT !.hands = FALSE, !.waiting = FALSE, !.settling = @ \/ page.waiting]
    /\ UNCHANGED <<world, server, session, watchVars, socketVars, pull, spent>>

(* A fragment's handler, behind requireSessionForFragment. *)
Answer(f) ==
    /\ f \in DOMAIN pull /\ pull[f].stage = "asked" /\ server = "up" /\ Touch
    /\ pull' = [pull EXCEPT ![f].stage = "html", ![f].value = Rendering]
    /\ UNCHANGED <<world, server, session, watchVars, socketVars, page, spent>>

(* The answer replaces the element the fetch was made for.  An element that
   has been replaced since has no place to put it, and one that is replaced
   takes along the hands in it and the listener that waits for them. *)
Swap(f) ==
    /\ OnPage /\ f \in DOMAIN pull /\ pull[f].stage = "html"
    /\ IF pull[f].attached
       THEN /\ page' = [page EXCEPT !.shown = pull[f].value, !.missed = @ \/ page.waiting,
                                    !.hands = FALSE, !.waiting = FALSE]
            /\ pull' = RemoveAt([g \in DOMAIN pull |-> [pull[g] EXCEPT !.attached = FALSE]], f)
       ELSE /\ page' = [page EXCEPT !.missed = TRUE]
            /\ pull' = RemoveAt(pull, f)
    /\ UNCHANGED <<world, server, session, watchVars, socketVars, spent>>

FetchFails(f) ==
    /\ OnPage /\ f \in DOMAIN pull /\ pull[f].stage = "asked" /\ pull' = RemoveAt(pull, f)
    /\ IF server = "up" THEN Trouble ELSE UNCHANGED spent
    /\ page' = [page EXCEPT !.missed = TRUE]
    /\ UNCHANGED <<world, server, session, watchVars, socketVars>>

(* Refused, and so to the login page: the document goes, and its socket. *)
GoToLogin(f) ==
    /\ OnPage /\ f \in DOMAIN pull /\ pull[f].stage = "asked" /\ server = "up" /\ ~Touch
    /\ pull' = <<>>
    /\ page' = Fresh("login")
    /\ conn' = [c \in Sockets |-> IF c = page.socket THEN "closed" ELSE conn[c]]
    /\ wire' = [c \in Sockets |-> IF c = page.socket THEN <<>> ELSE wire[c]]
    /\ UNCHANGED <<world, server, session, watchVars, hub, clientVars, reader, spent>>

LoggedOut == page.at = "login" /\ UNCHANGED liveVars

-----------------------------------------------------------------------------
ServerSteps == WatchForChanges \/ Publish \/ PublishToClient
HandlerSteps(c) == Register(c) \/ ReadLoopEnds(c) \/ Unregister(c)
WriterSteps(c) == Take(c) \/ Send(c) \/ WriterEnds(c)
FetchSteps(f) == Answer(f) \/ Swap(f) \/ FetchFails(f) \/ GoToLogin(f)

LiveNext ==
    \/ \E p \in Parts : Change(p)
    \/ ServerSteps \/ CloseAll \/ Exit \/ Start \/ SessionEnds
    \/ \E c \in Sockets : HandlerSteps(c) \/ WriterSteps(c) \/ Breaks(c)
    \/ Upgrade \/ Opens \/ Hears \/ Closes \/ Connect \/ Visible \/ Settled \/ Focus \/ FocusOut
    \/ \E f \in 1..MaxPulls : FetchSteps(f)
    \/ LoggedOut

LiveSpec == LiveInit /\ [][LiveNext]_liveVars

(* Goroutines run, timers fire, handlers answer, the browser delivers events,
   and a server that is going down goes. *)
FairLiveSpec ==
    /\ LiveSpec
    /\ WF_liveVars(ServerSteps) /\ WF_liveVars(Exit)
    /\ \A c \in Sockets : WF_liveVars(HandlerSteps(c)) /\ WF_liveVars(WriterSteps(c))
    /\ WF_liveVars(Upgrade) /\ WF_liveVars(Opens) /\ WF_liveVars(Hears)
    /\ WF_liveVars(Closes) /\ WF_liveVars(Connect) /\ WF_liveVars(Settled)
    /\ \A f \in 1..MaxPulls : WF_liveVars(FetchSteps(f))

-----------------------------------------------------------------------------
(* A region comes to show what the watcher samples of it under the topics it
   answers to: past a publish that falls while the writer is taking, past a
   write that stalls or a connection that breaks, past a restart.  Nothing is
   said of what else the region is rendered from: the watcher does not sample
   it, or publishes it under a topic the region does not answer to.  Excepted
   are hands in the region, and, until the region is next asked for, an answer
   that failed or came for an element already replaced, and one rendered in
   between two samples that found the same. *)
RegionsCatchUp ==
    []<>(~OnPage \/ page.link # "open" \/ page.hands \/ page.missed \/ page.shown = Rendering)

(* Nothing is left of a socket that is closed, or that its writer has given up:
   neither its entry in the hub nor its two goroutines, whichever of them
   noticed first. *)
SocketsAreReaped ==
    \A c \in Sockets : []<>((conn[c] = "open" /\ writer[c] # "gone") \/ Free(c))

(* A page whose session is over does not reconnect for ever to a server that
   is there to say so: it goes to the login page. *)
SignedOutPagesLeave ==
    []<>(session \/ ~OnPage \/ page.link = "open" \/ page.hands \/ server # "up")
=============================================================================
