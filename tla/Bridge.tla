------------------------------- MODULE Bridge -------------------------------
(***************************************************************************)
(* The Home Assistant bridge: one goroutine that dials a broker, samples   *)
(* the daemon's state and publishes it, and one more for every connection  *)
(* the MQTT client makes, which announces everything afresh.  The client   *)
(* reconnects by itself.  A broker keeps the last message of each topic,   *)
(* and says "offline" for a client that goes without taking its leave.     *)
(* A step is one message, or one section under a mutex.                    *)
(***************************************************************************)
EXTENDS Naturals, FiniteSets

CONSTANTS
    Brokers,        \* what the settings may name
    Off,            \* no broker
    Clients,        \* MQTT clients, used again once closed
    Announcers,     \* bound: announcing goroutines at one time
    NoClient,
    MaxChanges,     \* bound: changes of what there is to show
    MaxTroubles     \* bound: saves of the settings page and its button, connections lost,
                    \* messages acknowledged too late, files and counts that cannot be read

ASSUME BridgeConstants ==
    /\ MaxChanges \in Nat /\ MaxTroubles \in Nat
    /\ Off \notin Brokers /\ "loop" \notin Announcers /\ NoClient \notin Clients

VARIABLES
    started,    \* the broker of the config the daemon was started with
    file,       \* the broker config.toml names
    page,       \* a request of the settings page
    reload,     \* whether the reload channel, which holds one, is full
    ending,     \* whether the daemon's context is cancelled
    loop,       \* where Run is
    settings,   \* the broker of the attempt under way
    client,     \* [Clients -> what the MQTT client is doing]
    current,    \* the client messages are sent through
    goroutine,  \* ["loop" and Announcers -> where its publishing is]
    published,  \* what was last published, or Nothing
    unheard,    \* history: whether a later state was sent whose acknowledgement came too late
    listening,  \* whether the broker passes commands on
    status,     \* whether the bridge reports itself connected
    leaving,    \* how many losses have yet to be noted
    actual,     \* what there is to show
    counts,     \* the counts the daemon remembers, or Nothing when they are old
    retained,   \* [Brokers -> the messages a broker keeps]
    misread,    \* history: the last read of the file failed, and gave other settings than it holds
    overtaken,  \* history: the last note is of a loss that a connection had followed already
    crossed,    \* history: a publication overlapped another, or a farewell
    spent       \* what is used of the bounds

runVars == <<reload, ending, loop, settings, misread, client, current, listening>>
pageVars == <<started, file, page>>
noteVars == <<status, leaving, overtaken>>
pubVars == <<goroutine, published, unheard>>
shown == <<actual, counts>>
bridgeVars == <<runVars, pageVars, pubVars, shown, noteVars, retained, crossed, spent>>

Idle == [pc |-> "idle", snap |-> 0]
Nothing == MaxChanges + 1

(* The state whose counts are zeros, for want of an answer from the store. *)
Zeros == MaxChanges + 2

(* The kinds of entity that have a description each: those that pick their
   field out of the one state message, and those that send a command. *)
Sensors == {"sensor", "binary_sensor"}
Controls == {"button", "select"}

Forgotten(avail) == [state |-> Nothing, avail |-> avail, described |-> {}]

Alive(c) == client[c] \in {"dialling", "up", "lost"}
Up == current # NoClient /\ client[current] = "up"

BridgeInit ==
    /\ file \in Brokers \union {Off} /\ settings = file /\ started = file /\ misread = FALSE
    /\ page = "idle" /\ reload = FALSE /\ ending = FALSE /\ loop = "read"
    /\ client = [c \in Clients |-> "closed"] /\ current = NoClient
    /\ goroutine = [g \in Announcers \union {"loop"} |-> Idle]
    /\ published = Nothing /\ unheard = FALSE /\ status = FALSE /\ listening = FALSE
    /\ leaving = 0 /\ overtaken = FALSE
    /\ actual = 0 /\ counts = Nothing
    /\ retained = [b \in Brokers |-> Forgotten("none")]
    /\ crossed = FALSE /\ spent = 0

Trouble == spent < MaxTroubles /\ spent' = spent + 1

(* What the settings page says is the last note. *)
Note(connected) == status' = connected /\ overtaken' = FALSE

-----------------------------------------------------------------------------
(* What the bridge shows, and the settings page. *)

Moves == actual < MaxChanges /\ actual' = actual + 1

Change ==
    /\ Moves
    /\ UNCHANGED <<runVars, pageVars, pubVars, counts, noteVars, retained, crossed, spent>>

(* A command from the dashboard that the runner or the store takes. *)
Obey ==
    /\ Up /\ listening /\ Moves
    /\ UNCHANGED <<runVars, pageVars, pubVars, counts, noteVars, retained, crossed, spent>>

(* The counts are not counted again until they are old. *)
CountsAge ==
    /\ counts # Nothing /\ counts' = Nothing
    /\ UNCHANGED <<runVars, pageVars, pubVars, actual, noteVars, retained, crossed, spent>>

CountBackupSet == IF counts = Nothing THEN actual ELSE counts

(* The page writes the file first, and then asks. *)
SaveSettings(broker) ==
    /\ page = "idle" /\ broker # file /\ Trouble
    /\ file' = broker /\ page' = "saved"
    /\ UNCHANGED <<runVars, started, pubVars, shown, noteVars, retained, crossed>>

(* The button that dials again what is already set. *)
BrokerRedial ==
    /\ page = "idle" /\ Trouble
    /\ page' = "saved"
    /\ UNCHANGED <<runVars, started, file, pubVars, shown, noteVars, retained, crossed>>

(* Faulty: a channel that holds none, and so drops what nobody is waiting for. *)
ReloadIfAwaited ==
    /\ page = "saved" /\ page' = "idle"
    /\ reload' = (reload \/ loop \in {"wait", "serve"})
    /\ UNCHANGED <<ending, loop, settings, misread, client, current, started, file, pubVars, shown, noteVars, retained, crossed, spent, listening>>

Reload ==
    /\ page = "saved" /\ page' = "idle" /\ reload' = TRUE
    /\ UNCHANGED <<ending, loop, settings, misread, client, current, started, file, pubVars, shown, noteVars, retained, crossed, spent, listening>>

EndDaemon ==
    /\ ~ending /\ ending' = TRUE
    /\ UNCHANGED <<reload, loop, settings, misread, client, current, pageVars, pubVars, shown, noteVars, retained, crossed, spent, listening>>

-----------------------------------------------------------------------------
(* Run and attempt. *)

(* The file's settings; when it cannot be read, those the daemon was started
   with, whatever was saved since. *)
ReadSettings ==
    /\ loop = "read"
    /\ \/ settings' = file /\ UNCHANGED spent
       \/ settings' = started /\ Trouble
    /\ misread' = (settings' # file)
    /\ IF settings' = Off
       THEN loop' = "wait" /\ Note(FALSE) /\ UNCHANGED leaving
       ELSE loop' = "dial" /\ UNCHANGED noteVars
    /\ UNCHANGED <<reload, ending, client, current, pageVars, pubVars, shown, retained, crossed, listening>>

(* The wait between attempts ends with the daemon, a reload or the timer. *)
WaitOver ==
    /\ loop = "wait"
    /\ \/ ending /\ loop' = "over" /\ UNCHANGED reload
       \/ reload /\ reload' = FALSE /\ loop' = "read"
       \/ loop' = "read" /\ UNCHANGED reload
    /\ UNCHANGED <<ending, settings, misread, client, current, pageVars, pubVars, shown, noteVars, retained, crossed, spent, listening>>

Dial ==
    /\ loop = "dial" /\ loop' = "connect"
    /\ \E c \in Clients : client[c] = "closed"
    /\ current' = CHOOSE c \in Clients : client[c] = "closed"
    /\ client' = [client EXCEPT ![current'] = "dialling"]
    /\ UNCHANGED <<reload, ending, settings, misread, pageVars, pubVars, shown, noteVars, retained, crossed, spent, listening>>

(* Faulty: the disconnect deferred once connect has succeeded. *)
ConnectReturnsLeavingClient ==
    /\ loop = "connect"
    /\ \/ client[current] \in {"up", "lost"} /\ loop' = "serve" /\ Note(TRUE)
       \/ client[current] = "dialling" /\ loop' = "wait" /\ Note(FALSE)
    /\ UNCHANGED <<reload, ending, settings, misread, client, current, pageVars, pubVars, shown, leaving, retained, crossed, spent, listening>>

(* connect returns: connected, or refused, or not answered in time, when the
   client is still trying. *)
ConnectReturns ==
    /\ loop = "connect"
    /\ \/ /\ client[current] \in {"up", "lost"} /\ loop' = "serve" /\ Note(TRUE)
          /\ UNCHANGED client
       \/ /\ client[current] = "dialling" /\ loop' = "hangup, failed" /\ UNCHANGED <<status, overtaken>>
          /\ client' \in {client, [client EXCEPT ![current] = "closed"]}
    /\ UNCHANGED <<reload, ending, settings, misread, current, pageVars, pubVars, shown, leaving, retained, crossed, spent, listening>>

(* A message is sent through whichever client is current: kept and
   acknowledged, or kept and acknowledged too late, or not sent at all. *)
Sends(topic, value, acknowledged) ==
    /\ IF Up THEN retained' = [retained EXCEPT ![settings][topic] = value]
             ELSE ~acknowledged /\ UNCHANGED retained
    /\ IF acknowledged \/ ~Up THEN UNCHANGED spent ELSE Trouble

Announcing == \E g \in Announcers : goroutine[g].pc # "idle"

(* Faulty: only the daemon's end is a reason for a farewell. *)
ServeEndsInSilence ==
    /\ loop = "serve" /\ goroutine["loop"].pc = "idle"
    /\ \/ reload /\ reload' = FALSE /\ loop' = "hangup, dial again"
       \/ ending /\ loop' = "farewell" /\ UNCHANGED reload
    /\ UNCHANGED <<ending, settings, misread, client, current, pageVars, pubVars, shown, noteVars, retained, crossed, spent, listening>>

(* serve: a reload, or the end, is answered with a farewell. *)
ServeEnds ==
    /\ loop = "serve" /\ goroutine["loop"].pc = "idle"
    /\ \/ reload /\ reload' = FALSE /\ loop' = "farewell, dial again"
       \/ ending /\ loop' = "farewell" /\ UNCHANGED reload
    /\ UNCHANGED <<ending, settings, misread, client, current, pageVars, pubVars, shown, noteVars, retained, crossed, spent, listening>>

SayGoodbye ==
    /\ loop \in {"farewell", "farewell, dial again"}
    /\ Sends("avail", "offline", Up)
    /\ loop' = IF loop = "farewell" THEN "hangup" ELSE "hangup, dial again"
    /\ crossed' = (crossed \/ Announcing)
    /\ UNCHANGED <<reload, ending, settings, misread, client, current, pageVars, pubVars, shown, noteVars, listening>>

(* The deferred disconnect: an orderly one, which takes the will along.  A
   failed attempt is noted after it. *)
Disconnect ==
    /\ loop \in {"hangup", "hangup, failed", "hangup, dial again"}
    /\ client' = [client EXCEPT ![current] = "closed"]
    /\ loop' = IF loop = "hangup, dial again" THEN "read" ELSE "wait"
    /\ IF loop = "hangup, failed" THEN Note(FALSE) ELSE UNCHANGED <<status, overtaken>>
    /\ listening' = FALSE
    /\ crossed' = (crossed \/ Announcing)
    /\ UNCHANGED <<reload, ending, settings, misread, current, pageVars, pubVars, shown, leaving, retained, spent>>

Over ==
    /\ loop = "over" /\ UNCHANGED bridgeVars

-----------------------------------------------------------------------------
(* The client's own doing.  A handler of a connection is a goroutine. *)

Step(g, pc) == goroutine' = [goroutine EXCEPT ![g].pc = pc]

Connected(c) ==
    /\ client' = [client EXCEPT ![c] = "up"]
    /\ \E g \in Announcers : goroutine[g].pc = "idle"
    /\ Step(CHOOSE g \in Announcers : goroutine[g].pc = "idle", "note")
    /\ crossed' = (crossed \/ loop \notin {"connect", "serve"})
    /\ UNCHANGED <<reload, ending, loop, settings, misread, current, pageVars, published, unheard, shown, noteVars, retained, spent, listening>>

(* The first dial succeeds, perhaps after connect has given up on it. *)
DialCompletes(c) == client[c] = "dialling" /\ Connected(c)

Reconnects(c) == client[c] = "lost" /\ Connected(c)

(* The broker publishes the will; one that was restarted may have lost the
   messages it kept.  The client reconnects and has the loss noted, each in a
   goroutine of its own. *)
Loses(c, kept) ==
    /\ client[c] = "up" /\ Trouble
    /\ client' = [client EXCEPT ![c] = "lost"]
    /\ retained' = [retained EXCEPT ![settings] =
            IF kept THEN [@ EXCEPT !.avail = "offline"] ELSE Forgotten("offline")]
    /\ leaving' = leaving + 1 /\ listening' = FALSE
    /\ UNCHANGED <<reload, ending, loop, settings, misread, current, pageVars, pubVars, shown, status, overtaken, crossed>>

(* The loss is noted whenever its goroutine comes to it: before the client is
   back, or after the new connection has been noted. *)
NoteLost ==
    /\ leaving > 0 /\ leaving' = leaving - 1
    /\ status' = FALSE
    /\ overtaken' = (Up /\ \A g \in Announcers : goroutine[g].pc # "note")
    /\ UNCHANGED <<runVars, pageVars, pubVars, shown, retained, crossed, spent>>

-----------------------------------------------------------------------------
(* announce and publishIfChanged. *)

Publishing(g) == \E h \in DOMAIN goroutine \ {g} : goroutine[h].pc \in {"send", "remember"}

(* Faulty: only the attempt that dialled says that it is connected. *)
NoteNothing(g) ==
    /\ goroutine[g].pc = "note" /\ Step(g, "describe")
    /\ UNCHANGED <<runVars, pageVars, published, unheard, shown, noteVars, retained, crossed, spent>>

NoteConnected(g) ==
    /\ goroutine[g].pc = "note" /\ Step(g, "describe") /\ Note(TRUE)
    /\ UNCHANGED <<runVars, pageVars, published, unheard, shown, leaving, retained, crossed, spent>>

(* One message of announce: nobody waits for what becomes of it, and one that
   fails is not sent again. *)
Tells(g, pc, topic, value, next) ==
    /\ goroutine[g].pc = pc /\ Step(g, next)
    /\ Sends(topic, value, Up)
    /\ UNCHANGED <<runVars, pageVars, published, unheard, shown, noteVars, crossed>>

(* The descriptions, taken as one message. *)
Describe(g) == Tells(g, "describe", "described", Sensors \union Controls, "online")
SayOnline(g) == Tells(g, "online", "avail", "online", "forget")

(* Faulty: what an earlier connection published is not published again. *)
ForgetNothing(g) ==
    /\ goroutine[g].pc = "forget" /\ Step(g, "snapshot")
    /\ crossed' = (crossed \/ Publishing(g))
    /\ UNCHANGED <<runVars, pageVars, published, unheard, shown, noteVars, retained, spent>>

ForgetWhatWasPublished(g) ==
    /\ goroutine[g].pc = "forget" /\ Step(g, "snapshot")
    /\ published' = Nothing /\ unheard' = FALSE
    /\ crossed' = (crossed \/ Publishing(g))
    /\ UNCHANGED <<runVars, pageVars, shown, noteVars, retained, spent>>

(* Where a goroutine goes from publishIfChanged. *)
Published(g) == IF g = "loop" THEN Idle ELSE [pc |-> "listen", snap |-> 0]

(* The counts in what is published: fresh, remembered, or none, when they
   could not be counted, and then they are not remembered either. *)
Counted(snap) ==
    \/ snap = CountBackupSet /\ counts' = snap /\ UNCHANGED spent
    \/ snap = Zeros /\ counts = Nothing /\ Trouble /\ UNCHANGED counts

TakeSnapshot(g) ==
    /\ \/ g = "loop" /\ loop = "serve" /\ goroutine[g].pc = "idle"
       \/ goroutine[g].pc = "snapshot"
    /\ \E snap \in {CountBackupSet, Zeros} :
        /\ Counted(snap)
        /\ goroutine' = [goroutine EXCEPT ![g] =
                IF published = snap THEN Published(g) ELSE [pc |-> "send", snap |-> snap]]
    /\ crossed' = (crossed \/ Publishing(g))
    /\ UNCHANGED <<runVars, pageVars, published, unheard, actual, noteVars, retained>>

SendState(g) ==
    /\ goroutine[g].pc = "send"
    /\ \E ack \in BOOLEAN :
        /\ Sends("state", goroutine[g].snap, ack)
        /\ goroutine' = [goroutine EXCEPT ![g] =
                IF ack THEN [@ EXCEPT !.pc = "remember"] ELSE Published(g)]
        /\ unheard' = (~ack /\ (Up \/ unheard))
    /\ UNCHANGED <<runVars, pageVars, published, shown, noteVars, crossed>>

Remember(g) ==
    /\ goroutine[g].pc = "remember"
    /\ goroutine' = [goroutine EXCEPT ![g] = Published(g)]
    /\ published' = goroutine[g].snap
    /\ UNCHANGED <<runVars, pageVars, unheard, shown, noteVars, retained, crossed, spent>>

(* The subscriptions come last, and one that fails is not asked for again. *)
Listen(g) ==
    /\ goroutine[g].pc = "listen"
    /\ goroutine' = [goroutine EXCEPT ![g] = Idle]
    /\ listening' = (listening \/ Up)
    /\ UNCHANGED <<reload, ending, loop, settings, misread, client, current, pageVars, published, unheard, shown, noteVars, retained, crossed, spent>>

Publish(g) == TakeSnapshot(g) \/ SendState(g) \/ Remember(g)
Announce(g) ==
    \/ NoteConnected(g) \/ Describe(g) \/ SayOnline(g)
    \/ ForgetWhatWasPublished(g) \/ Publish(g) \/ Listen(g)

LoopSteps == ReadSettings \/ WaitOver \/ Dial \/ ConnectReturns \/ SayGoodbye \/ Disconnect

BridgeNext ==
    \/ Change \/ Obey \/ CountsAge
    \/ \E b \in Brokers \union {Off} : SaveSettings(b)
    \/ BrokerRedial \/ Reload \/ EndDaemon
    \/ LoopSteps \/ ServeEnds \/ Publish("loop") \/ Over \/ NoteLost
    \/ \E c \in Clients : DialCompletes(c) \/ Reconnects(c) \/ \E kept \in BOOLEAN : Loses(c, kept)
    \/ \E g \in Announcers : Announce(g)

BridgeSpec == BridgeInit /\ [][BridgeNext]_bridgeVars

(* The goroutines run, the ticker ticks, the counts grow old and the page that
   saved goes on to ask.  A connection is owed to nobody. *)
FairBridgeSpec ==
    /\ BridgeSpec
    /\ WF_bridgeVars(LoopSteps) /\ WF_bridgeVars(Publish("loop")) /\ WF_bridgeVars(CountsAge)
    /\ WF_bridgeVars(Reload) /\ SF_bridgeVars(ServeEnds)
    /\ \A g \in Announcers : WF_bridgeVars(Announce(g))

-----------------------------------------------------------------------------
(* Two clients under one client id evict each other for ever: the one of an
   earlier attempt is hung up before the next is dialled, however it went. *)
OneClientAtATime == Cardinality({c \in Clients : Alive(c)}) <= 1

(* Settings other than the file's are not served unasked: the reload that
   replaces them has been asked for, or is about to be, or is under way, even
   when the save falls while the bridge is dialling or waiting.  The exception
   is a read of the file that failed: the bridge then has the settings the
   daemon was started with, and while it serves those nothing asks again. *)
StaleSettingsAreAskedFor ==
    settings # file =>
        reload \/ page = "saved" \/ misread
               \/ loop \in {"read", "farewell, dial again", "hangup, dial again", "over"}

(* A broker no client is connected to says so, by the farewell or by the will.
   Except once two publications have run beside each other: an announcement
   beside a farewell or a hanging up, one of a client that connected after its
   attempt had given up, or one beside a sample. *)
AbsentSayOffline ==
    \A b \in Brokers :
        retained[b].avail = "online" => crossed \/ (settings = b /\ Up)

(* What the broker keeps becomes what there is to show, with everything that
   describes it, and the dashboard's commands are listened to, as long as there
   is a connection: past sends that were not acknowledged, past a broker that
   lost its messages, past counts that are remembered or could not be read.
   Two exceptions.  Once two publications have run beside each other, what was
   remembered last need not be what was sent last.  And a state the broker kept
   but acknowledged too late is not remembered: when there is then to show
   again what was remembered before it, that is not sent, and the broker keeps
   the other until something else changes. *)
Shows(b) == retained[b].state = actual /\ retained[b].described = Sensors \union Controls

DashboardCatchesUp ==
    []<>(\/ ~Up \/ loop # "serve"
         \/ crossed \/ (unheard /\ published = actual)
         \/ Shows(settings) /\ listening)

(* The settings page comes to say that a connection is up, also when it is one
   the client made by itself after a loss.  Except when the loss is noted later
   than the connection that followed it: then the page goes on calling it lost. *)
StandingCatchesUp == []<>(Up => status \/ overtaken)
=============================================================================
