---------------------------- MODULE BridgeProofs ----------------------------
(***************************************************************************)
(* The Home Assistant bridge, for any brokers, clients, announcing         *)
(* goroutines, saves and losses: one client at a time, no settings left    *)
(* behind unasked for, and no broker left saying "online".                 *)
(***************************************************************************)
EXTENDS Bridge, FiniteSetTheorems, TLAPS

Dialled == {"connect", "serve", "farewell", "farewell, dial again"}
HangingUp == {"hangup", "hangup, failed", "hangup, dial again"}
Between == {"read", "wait", "dial", "over"}

ClientPlaces == {"closed", "dialling", "up", "lost"}
Places == {"idle", "note", "describe", "online", "forget", "snapshot", "send", "remember", "listen"}
Goroutines == Announcers \union {"loop"}
Stamps == 0..(MaxChanges + 2)
Publisher == [pc : Places, snap : Stamps]
Kept == [state : Stamps, avail : {"none", "online", "offline"}, described : SUBSET (Sensors \union Controls)]

BridgeTypes ==
    /\ loop \in Dialled \union HangingUp \union Between
    /\ settings \in Brokers \union {Off} /\ file \in Brokers \union {Off}
    /\ started \in Brokers \union {Off}
    /\ client \in [Clients -> ClientPlaces] /\ current \in Clients \union {NoClient}
    /\ goroutine \in [Goroutines -> Publisher]
    /\ retained \in [Brokers -> Kept]
    /\ actual \in 0..MaxChanges /\ counts \in Stamps /\ published \in Stamps

(* A client is alive only within the attempt that dialled it, which has a
   broker to dial. *)
OneAttempt ==
    /\ \A c \in Clients : Alive(c) => c = current /\ loop \in Dialled \union HangingUp
    /\ loop \in Dialled \union HangingUp => current \in Clients /\ settings \in Brokers
    /\ loop = "dial" => settings \in Brokers

(* Unless an announcement crossed a farewell, none is under way while the
   client is hung up, and only a connected client's broker says "online". *)
FarewellStands ==
    ~crossed =>
        /\ loop \in {"hangup", "hangup, dial again"} => ~Announcing
        /\ loop = "hangup, failed" => ~Up
        /\ \A b \in Brokers : retained[b].avail = "online" => settings = b /\ Up /\ loop \in Dialled

BridgeInv == BridgeTypes /\ OneAttempt /\ FarewellStands /\ StaleSettingsAreAskedFor

-----------------------------------------------------------------------------
(* A connected client is the current one, of an attempt with a broker. *)
LEMMA UpIsCurrent ==
    ASSUME BridgeInv, Up
    PROVE  current \in Clients /\ loop \in Dialled \union HangingUp /\ settings \in Brokers
<1>1. current \in Clients
  BY DEF BridgeInv, BridgeTypes, Up
<1>2. Alive(current)
  BY DEF Up, Alive
<1> QED BY <1>1, <1>2 DEF BridgeInv, OneAttempt

(* The sets are the same before and after a step. *)
LEMMA SameSets ==
    /\ Goroutines' = Goroutines /\ Publisher' = Publisher /\ Kept' = Kept /\ Stamps' = Stamps
    /\ ClientPlaces' = ClientPlaces /\ Dialled' = Dialled /\ HangingUp' = HangingUp /\ Between' = Between
BY DEF Goroutines, Publisher, Places, Kept, Stamps, ClientPlaces, Dialled, HangingUp, Between

(* What the bridge's steps leave alone keeps its part of the invariant. *)
LEMMA AttemptKept ==
    ASSUME BridgeInv, UNCHANGED <<loop, settings, misread, current, client>>
    PROVE  OneAttempt'
BY DEF BridgeInv, OneAttempt, Alive

LEMMA StaleKept ==
    ASSUME BridgeInv, UNCHANGED <<loop, settings, misread, started, file, reload, page>>
    PROVE  StaleSettingsAreAskedFor'
BY DEF BridgeInv, StaleSettingsAreAskedFor

LEMMA FarewellKept ==
    ASSUME BridgeInv, UNCHANGED <<loop, settings, misread, current, client>>, crossed => crossed',
           Announcing' => Announcing,
           \A b \in Brokers : retained'[b].avail = retained[b].avail
    PROVE  FarewellStands'
<1>1. FarewellStands /\ (Up' <=> Up)
  BY DEF BridgeInv, Up
<1> QED BY <1>1 DEF FarewellStands

(* Moving a publisher on leaves the others. *)
LEMMA Stepped ==
    ASSUME BridgeInv, NEW g \in Goroutines, NEW pc \in Places, Step(g, pc)
    PROVE  /\ goroutine' \in [Goroutines -> Publisher]
           /\ goroutine'[g].pc = pc
           /\ \A h \in Goroutines : h # g => goroutine'[h] = goroutine[h]
<1>1. goroutine \in [Goroutines -> Publisher] /\ goroutine' = [goroutine EXCEPT ![g].pc = pc]
  BY DEF BridgeInv, BridgeTypes, Step
<1>2. [goroutine[g] EXCEPT !.pc = pc] \in Publisher /\ [goroutine[g] EXCEPT !.pc = pc].pc = pc
  BY <1>1 DEF Publisher
<1> QED BY <1>1, <1>2

LEMMA PublisherReplaced ==
    ASSUME BridgeInv, NEW g \in Goroutines, NEW r \in Publisher, goroutine' = [goroutine EXCEPT ![g] = r]
    PROVE  /\ goroutine' \in [Goroutines -> Publisher]
           /\ goroutine'[g] = r
           /\ \A h \in Goroutines : h # g => goroutine'[h] = goroutine[h]
BY DEF BridgeInv, BridgeTypes

(* A step of a publisher that was at work already adds none to those
   announcing; nor does one of the loop's own. *)
LEMMA NoneMoreAnnounce ==
    ASSUME BridgeInv, NEW g \in Goroutines, g = "loop" \/ goroutine[g].pc # "idle",
           \A h \in Goroutines : h # g => goroutine'[h] = goroutine[h]
    PROVE  Announcing' => Announcing
<1>1. Announcers \subseteq Goroutines /\ "loop" \notin Announcers
  BY BridgeConstants DEF Goroutines
<1> QED BY <1>1 DEF Announcing

-----------------------------------------------------------------------------
(* What sending a message does to what the brokers keep. *)

LEMMA SendsState ==
    ASSUME BridgeInv, NEW v \in Stamps, NEW ack, Sends("state", v, ack)
    PROVE  retained' \in [Brokers -> Kept] /\ \A b \in Brokers : retained'[b].avail = retained[b].avail
<1>1. retained \in [Brokers -> Kept]
  BY DEF BridgeInv, BridgeTypes
<1>2. CASE Up
  <2>1. settings \in Brokers /\ retained' = [retained EXCEPT ![settings]["state"] = v]
    BY <1>2, UpIsCurrent DEF Sends
  <2> QED BY <1>1, <2>1 DEF Kept
<1>3. CASE ~Up
  BY <1>1, <1>3 DEF Sends
<1> QED BY <1>2, <1>3

LEMMA SendsDescribed ==
    ASSUME BridgeInv, NEW v \in SUBSET (Sensors \union Controls), NEW ack, Sends("described", v, ack)
    PROVE  retained' \in [Brokers -> Kept] /\ \A b \in Brokers : retained'[b].avail = retained[b].avail
<1>1. retained \in [Brokers -> Kept]
  BY DEF BridgeInv, BridgeTypes
<1>2. CASE Up
  <2>1. settings \in Brokers /\ retained' = [retained EXCEPT ![settings]["described"] = v]
    BY <1>2, UpIsCurrent DEF Sends
  <2> QED BY <1>1, <2>1 DEF Kept
<1>3. CASE ~Up
  BY <1>1, <1>3 DEF Sends
<1> QED BY <1>2, <1>3

LEMMA SendsAvail ==
    ASSUME BridgeInv, NEW v \in {"online", "offline"}, NEW ack, Sends("avail", v, ack)
    PROVE  /\ retained' \in [Brokers -> Kept]
           /\ Up => \A b \in Brokers : retained'[b].avail = IF b = settings THEN v ELSE retained[b].avail
           /\ ~Up => UNCHANGED retained
<1>1. retained \in [Brokers -> Kept]
  BY DEF BridgeInv, BridgeTypes
<1>2. CASE Up
  <2>1. settings \in Brokers /\ retained' = [retained EXCEPT ![settings]["avail"] = v]
    BY <1>2, UpIsCurrent DEF Sends
  <2> QED BY <1>1, <1>2, <2>1 DEF Kept
<1>3. CASE ~Up
  BY <1>1, <1>3 DEF Sends
<1> QED BY <1>2, <1>3

-----------------------------------------------------------------------------
(* The steps. *)

LEMMA InitInv == BridgeInit => BridgeInv
<1> SUFFICES ASSUME BridgeInit PROVE BridgeInv
  OBVIOUS
<1>1. /\ file \in Brokers \union {Off} /\ settings = file /\ started = file /\ loop = "read"
      /\ client = [c \in Clients |-> "closed"] /\ current = NoClient
      /\ goroutine = [g \in Goroutines |-> Idle]
      /\ retained = [b \in Brokers |-> Forgotten("none")]
      /\ actual = 0 /\ counts = Nothing /\ published = Nothing
  BY DEF BridgeInit, Goroutines
<1>2. Nothing \in Stamps /\ 0 \in Stamps /\ 0 \in 0..MaxChanges
  BY BridgeConstants DEF Nothing, Stamps
<1>3. Idle \in Publisher /\ Forgotten("none") \in Kept /\ Forgotten("none").avail = "none"
  BY <1>2 DEF Idle, Publisher, Places, Forgotten, Kept
<1>4. BridgeTypes
  BY <1>1, <1>2, <1>3 DEF BridgeTypes, Between, ClientPlaces
<1>5. OneAttempt
  BY <1>1 DEF OneAttempt, Alive, Dialled, HangingUp
<1>6. FarewellStands
  BY <1>1, <1>3 DEF FarewellStands
<1>7. StaleSettingsAreAskedFor
  BY <1>1 DEF StaleSettingsAreAskedFor
<1> QED BY <1>4, <1>5, <1>6, <1>7 DEF BridgeInv

(* What there is to show, and its counts. *)
LEMMA ShownInv ==
    ASSUME BridgeInv, Change \/ Obey \/ CountsAge
    PROVE  BridgeInv'
<1>1. UNCHANGED <<runVars, pageVars, pubVars, retained, crossed>>
  BY DEF Change, Obey, CountsAge
<1>2. UNCHANGED <<loop, settings, misread, current, client, started, file, reload, page, goroutine, published, retained, crossed>>
  BY <1>1 DEF runVars, pageVars, pubVars
<1>3. actual' \in 0..MaxChanges /\ counts' \in Stamps
  <2>1. actual \in 0..MaxChanges /\ counts \in Stamps /\ Nothing \in Stamps
    BY BridgeConstants DEF BridgeInv, BridgeTypes, Stamps, Nothing
  <2>2. CASE Moves /\ UNCHANGED counts
    BY <2>1, <2>2, BridgeConstants DEF Moves
  <2>3. CASE UNCHANGED actual /\ counts' = Nothing
    BY <2>1, <2>3
  <2> QED BY <2>2, <2>3 DEF Change, Obey, CountsAge
<1>4. BridgeTypes'
  BY <1>2, <1>3, SameSets DEF BridgeInv, BridgeTypes
<1>5. FarewellStands'
  BY <1>2, FarewellKept DEF Announcing
<1> QED BY <1>2, <1>4, <1>5, AttemptKept, StaleKept DEF BridgeInv

(* The settings page: the file is written first and the reload asked for after. *)
LEMMA PageInv ==
    ASSUME BridgeInv,
           (\E b \in Brokers \union {Off} : SaveSettings(b)) \/ BrokerRedial \/ Reload \/ EndDaemon
    PROVE  BridgeInv'
<1>1. /\ UNCHANGED <<loop, settings, misread, started, current, client, goroutine, published, retained, crossed, actual, counts>>
      /\ file' \in Brokers \union {Off}
  <2>1. file \in Brokers \union {Off}
    BY DEF BridgeInv, BridgeTypes
  <2>2. CASE \E b \in Brokers \union {Off} : SaveSettings(b)
    BY <2>2 DEF SaveSettings, runVars, pubVars, shown
  <2>3. CASE BrokerRedial \/ Reload \/ EndDaemon
    BY <2>1, <2>3 DEF BrokerRedial, Reload, EndDaemon, runVars, pubVars, shown, pageVars
  <2> QED BY <2>2, <2>3
<1>2. BridgeTypes'
  BY <1>1, SameSets DEF BridgeInv, BridgeTypes
<1>3. OneAttempt'
  BY <1>1, AttemptKept
<1>4. FarewellStands'
  BY <1>1, FarewellKept DEF Announcing
<1>5. StaleSettingsAreAskedFor'
  <2>1. StaleSettingsAreAskedFor
    BY DEF BridgeInv
  <2>2. CASE page' = "saved" \/ reload'
    BY <2>2 DEF StaleSettingsAreAskedFor
  <2>3. CASE EndDaemon
    BY <2>1, <2>3 DEF EndDaemon, pageVars, StaleSettingsAreAskedFor
  <2> QED BY <2>2, <2>3 DEF SaveSettings, BrokerRedial, Reload
<1> QED BY <1>2, <1>3, <1>4, <1>5 DEF BridgeInv

(* A step of Run that leaves the client and the messages alone, between attempts. *)
LEMMA ReadSettingsInv ==
    ASSUME BridgeInv, ReadSettings
    PROVE  BridgeInv'
<1>1. /\ loop = "read" /\ settings' \in {file, started} /\ misread' = (settings' # file)
      /\ loop' = IF settings' = Off THEN "wait" ELSE "dial"
      /\ UNCHANGED <<client, current, started, file, page, goroutine, published, actual, counts, retained, crossed>>
  BY DEF ReadSettings, pageVars, pubVars, shown
<1>2. loop' \in {"wait", "dial"}
  BY <1>1
<1>3. \A c \in Clients : ~Alive(c)
  BY <1>1 DEF BridgeInv, OneAttempt, Dialled, HangingUp
<1>4. BridgeTypes'
  BY <1>1, <1>2, SameSets DEF BridgeInv, BridgeTypes, Between
<1>5. OneAttempt'
  <2>1. \A c \in Clients : ~Alive(c)'
    BY <1>1, <1>3 DEF Alive
  <2>2. loop' = "dial" => settings' \in Brokers
    BY <1>1 DEF BridgeInv, BridgeTypes
  <2> QED BY <1>2, <2>1, <2>2 DEF OneAttempt, Dialled, HangingUp
<1>6. FarewellStands'
  <2>1. \A b \in Brokers : ~crossed => retained[b].avail # "online"
    BY <1>1 DEF BridgeInv, FarewellStands, Dialled
  <2> QED BY <1>1, <1>2, <2>1 DEF FarewellStands
<1>7. StaleSettingsAreAskedFor'
  BY <1>1 DEF StaleSettingsAreAskedFor
<1> QED BY <1>4, <1>5, <1>6, <1>7 DEF BridgeInv

LEMMA WaitOverInv ==
    ASSUME BridgeInv, WaitOver
    PROVE  BridgeInv'
<1>1. /\ loop = "wait" /\ loop' \in {"read", "over"}
      /\ UNCHANGED <<settings, misread, client, current, started, file, page, goroutine, published, actual, counts, retained, crossed>>
  BY DEF WaitOver, pageVars, pubVars, shown
<1>2. BridgeTypes'
  BY <1>1, SameSets DEF BridgeInv, BridgeTypes, Between
<1>3. OneAttempt'
  BY <1>1 DEF BridgeInv, OneAttempt, Alive, Dialled, HangingUp
<1>4. FarewellStands'
  <2>1. \A b \in Brokers : ~crossed => retained[b].avail # "online"
    BY <1>1 DEF BridgeInv, FarewellStands, Dialled
  <2> QED BY <1>1, <2>1 DEF FarewellStands
<1>5. StaleSettingsAreAskedFor'
  BY <1>1 DEF StaleSettingsAreAskedFor
<1> QED BY <1>2, <1>3, <1>4, <1>5 DEF BridgeInv

(* The client dialled is one that was closed, as all of them were. *)
LEMMA DialInv ==
    ASSUME BridgeInv, Dial
    PROVE  BridgeInv'
<1>1. /\ loop = "dial" /\ loop' = "connect" /\ current' \in Clients
      /\ client' = [client EXCEPT ![current'] = "dialling"]
      /\ UNCHANGED <<reload, settings, misread, started, file, page, goroutine, published, actual, counts, retained, crossed>>
  BY DEF Dial, pageVars, pubVars, shown
<1>2. (\A c \in Clients : ~Alive(c)) /\ settings \in Brokers
  BY <1>1 DEF BridgeInv, OneAttempt, Dialled, HangingUp
<1>3. /\ client' \in [Clients -> ClientPlaces] /\ client'[current'] = "dialling"
      /\ \A c \in Clients : c # current' => client'[c] = client[c]
  BY <1>1 DEF BridgeInv, BridgeTypes, ClientPlaces
<1>4. BridgeTypes'
  BY <1>1, <1>3, SameSets DEF BridgeInv, BridgeTypes, Dialled
<1>5. OneAttempt'
  <2>1. \A c \in Clients : Alive(c)' => c = current'
    BY <1>2, <1>3 DEF Alive
  <2> QED BY <1>1, <1>2, <2>1 DEF OneAttempt, Dialled
<1>6. FarewellStands'
  <2>1. \A b \in Brokers : ~crossed => retained[b].avail # "online"
    BY <1>1 DEF BridgeInv, FarewellStands, Dialled
  <2> QED BY <1>1, <2>1 DEF FarewellStands
<1>7. StaleSettingsAreAskedFor'
  BY <1>1 DEF BridgeInv, StaleSettingsAreAskedFor
<1> QED BY <1>4, <1>5, <1>6, <1>7 DEF BridgeInv

(* connect returns: a client that was refused, or is still trying, was never up. *)
LEMMA ConnectReturnsInv ==
    ASSUME BridgeInv, ConnectReturns
    PROVE  BridgeInv'
<1>1. /\ loop = "connect"
      /\ UNCHANGED <<reload, settings, misread, current, started, file, page, goroutine, published, actual, counts, retained, crossed>>
      /\ \/ loop' = "serve" /\ UNCHANGED client
         \/ /\ client[current] = "dialling" /\ loop' = "hangup, failed"
            /\ client' \in {client, [client EXCEPT ![current] = "closed"]}
  BY DEF ConnectReturns, pageVars, pubVars, shown
<1>2. current \in Clients /\ settings \in Brokers /\ client \in [Clients -> ClientPlaces]
  BY <1>1 DEF BridgeInv, BridgeTypes, OneAttempt, Dialled
<1>3. /\ client' \in [Clients -> ClientPlaces]
      /\ \A c \in Clients : client'[c] = client[c] \/ client'[c] = "closed"
  BY <1>1, <1>2 DEF ClientPlaces
<1>4. loop' \in Dialled \union HangingUp /\ loop' \notin {"hangup", "hangup, dial again", "dial"}
  BY <1>1 DEF Dialled, HangingUp
<1>5. BridgeTypes'
  BY <1>1, <1>3, <1>4, SameSets DEF BridgeInv, BridgeTypes
<1>6. OneAttempt'
  <2>1. \A c \in Clients : Alive(c)' => Alive(c)
    BY <1>3 DEF Alive
  <2> QED BY <1>1, <1>2, <1>4, <2>1 DEF BridgeInv, OneAttempt
<1>7. FarewellStands'
  <2>1. FarewellStands
    BY DEF BridgeInv
  <2>2. CASE loop' = "serve" /\ UNCHANGED client
    <3>1. Up' <=> Up
      BY <1>1, <2>2 DEF Up
    <3> QED BY <1>1, <2>1, <2>2, <3>1 DEF FarewellStands, Dialled
  <2>3. CASE client[current] = "dialling" /\ loop' = "hangup, failed"
    <3>1. ~Up /\ ~Up'
      BY <1>1, <1>2, <1>3, <2>3 DEF Up
    <3> QED BY <1>1, <2>1, <2>3, <3>1 DEF FarewellStands, Dialled
  <2> QED BY <1>1, <2>2, <2>3
<1>8. StaleSettingsAreAskedFor'
  BY <1>1 DEF BridgeInv, StaleSettingsAreAskedFor
<1> QED BY <1>5, <1>6, <1>7, <1>8 DEF BridgeInv

(* A reload that is taken up is on its way to new settings. *)
LEMMA ServeEndsInv ==
    ASSUME BridgeInv, ServeEnds
    PROVE  BridgeInv'
<1>1. /\ loop = "serve" /\ loop' \in {"farewell", "farewell, dial again"}
      /\ loop' = "farewell" => UNCHANGED reload
      /\ UNCHANGED <<settings, misread, client, current, started, file, page, goroutine, published, actual, counts, retained, crossed>>
  BY DEF ServeEnds, pageVars, pubVars, shown
<1>2. BridgeTypes'
  BY <1>1, SameSets DEF BridgeInv, BridgeTypes, Dialled
<1>3. OneAttempt'
  BY <1>1 DEF BridgeInv, OneAttempt, Alive, Dialled, HangingUp
<1>4. FarewellStands'
  <2>1. Up' <=> Up
    BY <1>1 DEF Up
  <2> QED BY <1>1, <2>1 DEF BridgeInv, FarewellStands, Dialled
<1>5. StaleSettingsAreAskedFor'
  <2>1. settings # file => reload \/ page = "saved" \/ misread
    BY <1>1 DEF BridgeInv, StaleSettingsAreAskedFor
  <2>2. CASE misread \/ loop' = "farewell, dial again"
    BY <1>1, <2>2 DEF StaleSettingsAreAskedFor
  <2>3. CASE loop' = "farewell" /\ ~misread
    <3>1. reload' = reload /\ misread' = misread /\ settings' = settings /\ file' = file /\ page' = page
      BY <1>1, <2>3
    <3>2. settings' # file' => reload' \/ page' = "saved"
      BY <2>1, <2>3, <3>1
    <3> QED BY <3>2 DEF StaleSettingsAreAskedFor
  <2> QED BY <1>1, <2>2, <2>3
<1> QED BY <1>2, <1>3, <1>4, <1>5 DEF BridgeInv

(* The farewell leaves "offline" behind, if there is a connection to say it over. *)
LEMMA SayGoodbyeInv ==
    ASSUME BridgeInv, SayGoodbye
    PROVE  BridgeInv'
<1>1. /\ loop \in {"farewell", "farewell, dial again"} /\ Sends("avail", "offline", Up)
      /\ loop' = IF loop = "farewell" THEN "hangup" ELSE "hangup, dial again"
      /\ crossed' = (crossed \/ Announcing)
      /\ UNCHANGED <<reload, settings, misread, client, current, started, file, page, goroutine, published, actual, counts>>
  BY DEF SayGoodbye, pageVars, pubVars, shown
<1>2. loop' \in {"hangup", "hangup, dial again"}
  BY <1>1
<1>3. /\ retained' \in [Brokers -> Kept]
      /\ Up => \A b \in Brokers : retained'[b].avail = IF b = settings THEN "offline" ELSE retained[b].avail
      /\ ~Up => UNCHANGED retained
  BY <1>1, SendsAvail
<1>4. BridgeTypes'
  BY <1>1, <1>2, <1>3, SameSets DEF BridgeInv, BridgeTypes, HangingUp
<1>5. OneAttempt'
  BY <1>1, <1>2 DEF BridgeInv, OneAttempt, Alive, Dialled, HangingUp
<1>6. FarewellStands'
  <2> SUFFICES ASSUME ~crossed' PROVE ~Announcing' /\ \A b \in Brokers : retained'[b].avail # "online"
    BY <1>2 DEF FarewellStands
  <2>1. ~crossed /\ ~Announcing'
    BY <1>1 DEF Announcing
  <2>2. \A b \in Brokers : retained[b].avail = "online" => settings = b /\ Up
    BY <2>1 DEF BridgeInv, FarewellStands
  <2> QED BY <1>3, <2>1, <2>2
<1>7. StaleSettingsAreAskedFor'
  BY <1>1 DEF BridgeInv, StaleSettingsAreAskedFor
<1> QED BY <1>4, <1>5, <1>6, <1>7 DEF BridgeInv

(* The deferred disconnect closes the only client there is. *)
LEMMA DisconnectInv ==
    ASSUME BridgeInv, Disconnect
    PROVE  BridgeInv'
<1>1. /\ loop \in HangingUp
      /\ client' = [client EXCEPT ![current] = "closed"]
      /\ loop' = IF loop = "hangup, dial again" THEN "read" ELSE "wait"
      /\ crossed => crossed'
      /\ UNCHANGED <<reload, settings, misread, current, started, file, page, goroutine, published, actual, counts, retained>>
  BY DEF Disconnect, pageVars, pubVars, shown, HangingUp
<1>2. loop' \in {"read", "wait"}
  BY <1>1
<1>3. /\ client' \in [Clients -> ClientPlaces]
      /\ \A c \in Clients : client'[c] = IF c = current THEN "closed" ELSE client[c]
  BY <1>1 DEF BridgeInv, BridgeTypes, ClientPlaces
<1>4. BridgeTypes'
  BY <1>1, <1>2, <1>3, SameSets DEF BridgeInv, BridgeTypes, Between
<1>5. OneAttempt'
  <2>1. \A c \in Clients : ~Alive(c)'
    BY <1>3 DEF BridgeInv, OneAttempt, Alive
  <2> QED BY <1>2, <2>1 DEF OneAttempt, Dialled, HangingUp
<1>6. FarewellStands'
  <2>1. \A b \in Brokers : ~crossed => retained[b].avail # "online"
    BY <1>1 DEF BridgeInv, FarewellStands, Dialled, HangingUp
  <2> QED BY <1>1, <1>2, <2>1 DEF FarewellStands
<1>7. StaleSettingsAreAskedFor'
  BY <1>1 DEF BridgeInv, StaleSettingsAreAskedFor, HangingUp
<1> QED BY <1>4, <1>5, <1>6, <1>7 DEF BridgeInv

(* A connection starts an announcement: one that comes after the bridge has
   given up on the client crosses the farewell. *)
LEMMA ConnectedInv ==
    ASSUME BridgeInv, NEW c \in Clients, Alive(c), Connected(c)
    PROVE  BridgeInv'
<1>1. /\ client' = [client EXCEPT ![c] = "up"]
      /\ \E g \in Announcers : Step(g, "note")
      /\ crossed' = (crossed \/ loop \notin {"connect", "serve"})
      /\ UNCHANGED <<reload, loop, settings, misread, current, started, file, page, published, actual, counts, retained>>
  BY DEF Connected, pageVars, shown
<1>2. c = current /\ loop \in Dialled \union HangingUp
  BY DEF BridgeInv, OneAttempt
<1>3. /\ client' \in [Clients -> ClientPlaces] /\ client'[c] = "up"
      /\ \A d \in Clients : d # c => client'[d] = client[d]
  BY <1>1 DEF BridgeInv, BridgeTypes, ClientPlaces
<1>4. goroutine' \in [Goroutines -> Publisher]
  <2>1. PICK g \in Announcers : Step(g, "note")
    BY <1>1
  <2> QED BY <2>1, Stepped DEF Goroutines, Places
<1>5. BridgeTypes'
  BY <1>1, <1>3, <1>4, SameSets DEF BridgeInv, BridgeTypes
<1>6. OneAttempt'
  <2>1. \A d \in Clients : Alive(d)' => d = current
    BY <1>2, <1>3 DEF BridgeInv, OneAttempt, Alive
  <2> QED BY <1>1, <1>2, <2>1 DEF BridgeInv, OneAttempt
<1>7. FarewellStands'
  <2> SUFFICES ASSUME ~crossed' PROVE FarewellStands'
    BY DEF FarewellStands
  <2>1. ~crossed /\ loop \in {"connect", "serve"}
    BY <1>1
  <2>2. \A b \in Brokers : retained[b].avail = "online" => settings = b /\ Up
    BY <2>1 DEF BridgeInv, FarewellStands
  <2>3. Up => Up'
    BY <1>1, <1>2, <1>3 DEF Up
  <2> QED BY <1>1, <2>1, <2>2, <2>3 DEF FarewellStands, Dialled
<1>8. StaleSettingsAreAskedFor'
  BY <1>1, StaleKept
<1> QED BY <1>5, <1>6, <1>7, <1>8 DEF BridgeInv

(* A connection that is lost takes "online" with it. *)
LEMMA LosesInv ==
    ASSUME BridgeInv, NEW c \in Clients, NEW kept \in BOOLEAN, Loses(c, kept)
    PROVE  BridgeInv'
<1>1. /\ client[c] = "up" /\ client' = [client EXCEPT ![c] = "lost"]
      /\ retained' = [retained EXCEPT ![settings] =
              IF kept THEN [@ EXCEPT !.avail = "offline"] ELSE Forgotten("offline")]
      /\ UNCHANGED <<reload, loop, settings, misread, current, started, file, page, goroutine, published, actual, counts, crossed>>
  BY DEF Loses, pageVars, pubVars, shown
<1>2. c = current /\ settings \in Brokers /\ loop \in Dialled \union HangingUp
  BY <1>1 DEF BridgeInv, OneAttempt, Alive
<1>3. /\ client' \in [Clients -> ClientPlaces] /\ client'[c] = "lost"
      /\ \A d \in Clients : d # c => client'[d] = client[d]
  BY <1>1 DEF BridgeInv, BridgeTypes, ClientPlaces
<1>4. /\ retained' \in [Brokers -> Kept] /\ retained'[settings].avail = "offline"
      /\ \A b \in Brokers : b # settings => retained'[b] = retained[b]
  <2>1. retained \in [Brokers -> Kept]
    BY DEF BridgeInv, BridgeTypes
  <2>2. /\ [retained[settings] EXCEPT !.avail = "offline"] \in Kept
        /\ [retained[settings] EXCEPT !.avail = "offline"].avail = "offline"
    BY <1>2, <2>1 DEF Kept
  <2>3. Forgotten("offline") \in Kept /\ Forgotten("offline").avail = "offline"
    BY BridgeConstants DEF Forgotten, Kept, Stamps, Nothing
  <2> QED BY <1>1, <1>2, <2>1, <2>2, <2>3
<1>5. BridgeTypes'
  BY <1>1, <1>3, <1>4, SameSets DEF BridgeInv, BridgeTypes
<1>6. OneAttempt'
  <2>1. \A d \in Clients : Alive(d)' => Alive(d)
    BY <1>1, <1>3 DEF Alive
  <2> QED BY <1>1, <2>1 DEF BridgeInv, OneAttempt
<1>7. FarewellStands'
  <2>1. (Announcing' <=> Announcing) /\ ~Up'
    BY <1>1, <1>2, <1>3 DEF Announcing, Up
  <2>2. \A b \in Brokers : ~crossed => retained'[b].avail # "online"
    BY <1>2, <1>4 DEF BridgeInv, FarewellStands
  <2> QED BY <1>1, <2>1, <2>2 DEF BridgeInv, FarewellStands
<1>8. StaleSettingsAreAskedFor'
  BY <1>1, StaleKept
<1> QED BY <1>5, <1>6, <1>7, <1>8 DEF BridgeInv

-----------------------------------------------------------------------------
(* announce and publishIfChanged. *)

(* A publisher's step that leaves the run, the page and every availability alone. *)
LEMMA PublisherStep ==
    ASSUME BridgeInv, NEW g \in Goroutines, g = "loop" \/ goroutine[g].pc # "idle",
           goroutine' \in [Goroutines -> Publisher], \A h \in Goroutines : h # g => goroutine'[h] = goroutine[h],
           retained' \in [Brokers -> Kept], \A b \in Brokers : retained'[b].avail = retained[b].avail,
           UNCHANGED <<reload, loop, settings, misread, client, current, started, file, page, actual>>,
           counts' \in Stamps, published' \in Stamps, crossed => crossed'
    PROVE  BridgeInv'
<1>1. BridgeTypes'
  BY SameSets DEF BridgeInv, BridgeTypes
<1>2. OneAttempt'
  BY AttemptKept
<1>3. FarewellStands'
  BY NoneMoreAnnounce, FarewellKept
<1>4. StaleSettingsAreAskedFor'
  BY StaleKept
<1> QED BY <1>1, <1>2, <1>3, <1>4 DEF BridgeInv

(* What a publisher's step leaves alone, one variable at a time. *)
LEMMA PublisherFrame ==
    ASSUME BridgeInv
    PROVE  /\ counts \in Stamps /\ published \in Stamps /\ actual \in Stamps
           /\ retained \in [Brokers -> Kept] /\ goroutine \in [Goroutines -> Publisher]
           /\ UNCHANGED runVars => UNCHANGED <<reload, loop, settings, misread, client, current>>
           /\ UNCHANGED pageVars => UNCHANGED <<started, file, page>>
           /\ UNCHANGED shown => UNCHANGED <<actual, counts>>
BY BridgeConstants DEF BridgeInv, BridgeTypes, runVars, pageVars, shown, Stamps

(* A loss that is noted, at whatever time, changes only what the page says. *)
LEMMA NoteLostInv ==
    ASSUME BridgeInv, NoteLost
    PROVE  BridgeInv'
<1>1. UNCHANGED <<runVars, pageVars, pubVars, shown, retained, crossed>>
  BY DEF NoteLost
<1>2. goroutine' = goroutine /\ published' = published /\ "loop" \in Goroutines
  BY <1>1 DEF pubVars, Goroutines
<1> QED BY <1>1, <1>2, PublisherStep, PublisherFrame

LEMMA NoteConnectedInv ==
    ASSUME BridgeInv, NEW g \in Announcers, NoteConnected(g)
    PROVE  BridgeInv'
<1>1. /\ goroutine[g].pc = "note" /\ Step(g, "describe")
      /\ UNCHANGED <<runVars, pageVars, published, shown, retained, crossed>>
  BY DEF NoteConnected
<1>2. /\ goroutine' \in [Goroutines -> Publisher] /\ g \in Goroutines
      /\ \A h \in Goroutines : h # g => goroutine'[h] = goroutine[h]
  BY <1>1, Stepped DEF Goroutines, Places
<1> QED BY <1>1, <1>2, PublisherStep, PublisherFrame

LEMMA DescribeInv ==
    ASSUME BridgeInv, NEW g \in Announcers, Describe(g)
    PROVE  BridgeInv'
<1>1. /\ goroutine[g].pc = "describe" /\ Step(g, "online")
      /\ Sends("described", Sensors \union Controls, Up)
      /\ UNCHANGED <<runVars, pageVars, published, shown, crossed>>
  BY DEF Describe, Tells
<1>2. /\ goroutine' \in [Goroutines -> Publisher] /\ g \in Goroutines
      /\ \A h \in Goroutines : h # g => goroutine'[h] = goroutine[h]
  BY <1>1, Stepped DEF Goroutines, Places
<1>3. retained' \in [Brokers -> Kept] /\ \A b \in Brokers : retained'[b].avail = retained[b].avail
  BY <1>1, SendsDescribed
<1> QED BY <1>1, <1>2, <1>3, PublisherStep, PublisherFrame

(* "online" is said over a connection, before any farewell. *)
LEMMA SayOnlineInv ==
    ASSUME BridgeInv, NEW g \in Announcers, SayOnline(g)
    PROVE  BridgeInv'
<1>1. /\ goroutine[g].pc = "online" /\ Step(g, "forget") /\ Sends("avail", "online", Up)
      /\ UNCHANGED <<runVars, pageVars, published, shown, crossed>>
  BY DEF SayOnline, Tells
<1>2. UNCHANGED <<reload, loop, settings, misread, client, current, started, file, page, actual, counts, published, crossed>>
  BY <1>1, PublisherFrame
<1>3. /\ goroutine' \in [Goroutines -> Publisher] /\ g \in Goroutines
      /\ \A h \in Goroutines : h # g => goroutine'[h] = goroutine[h]
  BY <1>1, Stepped DEF Goroutines, Places
<1>4. /\ retained' \in [Brokers -> Kept]
      /\ Up => \A b \in Brokers : retained'[b].avail = IF b = settings THEN "online" ELSE retained[b].avail
      /\ ~Up => UNCHANGED retained
  BY <1>1, SendsAvail
<1>5. BridgeTypes'
  BY <1>2, <1>3, <1>4, SameSets DEF BridgeInv, BridgeTypes
<1>6. OneAttempt'
  BY <1>2, AttemptKept
<1>7. FarewellStands'
  <2>1. FarewellStands /\ Announcing /\ (Up' <=> Up)
    BY <1>1, <1>2 DEF BridgeInv, Announcing, Up
  <2> SUFFICES ASSUME ~crossed PROVE FarewellStands'
    BY <1>2 DEF FarewellStands
  <2>2. loop \notin {"hangup", "hangup, dial again"} /\ (loop = "hangup, failed" => ~Up)
    BY <2>1 DEF FarewellStands
  <2>3. CASE Up
    <3>1. loop \in Dialled
      BY <2>2, <2>3, UpIsCurrent DEF HangingUp
    <3>2. \A b \in Brokers : retained'[b].avail = "online" => settings = b
      BY <1>4, <2>1, <2>3 DEF FarewellStands
    <3> QED BY <1>2, <2>1, <2>2, <2>3, <3>1, <3>2, SameSets DEF FarewellStands, Dialled
  <2>4. CASE ~Up
    <3>1. \A b \in Brokers : retained'[b].avail # "online"
      BY <1>4, <2>1, <2>4 DEF FarewellStands
    <3> QED BY <1>2, <2>1, <2>2, <2>4, <3>1 DEF FarewellStands
  <2> QED BY <2>3, <2>4
<1>8. StaleSettingsAreAskedFor'
  BY <1>2, StaleKept
<1> QED BY <1>5, <1>6, <1>7, <1>8 DEF BridgeInv

LEMMA ForgetInv ==
    ASSUME BridgeInv, NEW g \in Announcers, ForgetWhatWasPublished(g)
    PROVE  BridgeInv'
<1>1. /\ goroutine[g].pc = "forget" /\ Step(g, "snapshot") /\ published' = Nothing
      /\ crossed => crossed'
      /\ UNCHANGED <<runVars, pageVars, shown, retained>>
  BY DEF ForgetWhatWasPublished
<1>2. /\ goroutine' \in [Goroutines -> Publisher] /\ g \in Goroutines
      /\ \A h \in Goroutines : h # g => goroutine'[h] = goroutine[h]
  BY <1>1, Stepped DEF Goroutines, Places
<1>3. published' \in Stamps
  BY <1>1, BridgeConstants DEF Nothing, Stamps
<1> QED BY <1>1, <1>2, <1>3, PublisherStep, PublisherFrame

(* A goroutine that has published goes on to listen, or is the loop, at rest. *)
LEMMA PublishedGoesOn == \A g \in Goroutines : Published(g) \in Publisher
BY BridgeConstants DEF Published, Idle, Publisher, Places, Stamps

LEMMA TakeSnapshotInv ==
    ASSUME BridgeInv, NEW g \in Goroutines, TakeSnapshot(g)
    PROVE  BridgeInv'
<1>1. PICK snap \in {CountBackupSet, Zeros} :
      /\ Counted(snap)
      /\ goroutine' = [goroutine EXCEPT ![g] = IF published = snap THEN Published(g) ELSE [pc |-> "send", snap |-> snap]]
  BY DEF TakeSnapshot
<1>2. /\ g = "loop" \/ goroutine[g].pc = "snapshot"
      /\ crossed => crossed'
      /\ UNCHANGED <<runVars, pageVars, published, actual, retained>>
  BY DEF TakeSnapshot
<1>3. snap \in Stamps /\ counts' \in Stamps
  <2>1. CountBackupSet \in Stamps /\ Zeros \in Stamps
    BY PublisherFrame, BridgeConstants DEF CountBackupSet, Zeros, Stamps
  <2> QED BY <1>1, <2>1, PublisherFrame DEF Counted
<1>4. /\ goroutine' \in [Goroutines -> Publisher]
      /\ \A h \in Goroutines : h # g => goroutine'[h] = goroutine[h]
  <2>1. Published(g) \in Publisher /\ [pc |-> "send", snap |-> snap] \in Publisher
    BY <1>3, PublishedGoesOn DEF Publisher, Places
  <2> QED BY <1>1, <2>1, PublisherReplaced
<1> QED BY <1>2, <1>3, <1>4, PublisherStep, PublisherFrame

LEMMA SendStateInv ==
    ASSUME BridgeInv, NEW g \in Goroutines, SendState(g)
    PROVE  BridgeInv'
<1>1. goroutine[g].pc = "send" /\ UNCHANGED <<runVars, pageVars, published, shown, crossed>>
  BY DEF SendState
<1>2. PICK ack \in BOOLEAN :
          /\ Sends("state", goroutine[g].snap, ack)
          /\ goroutine' = [goroutine EXCEPT ![g] = IF ack THEN [@ EXCEPT !.pc = "remember"] ELSE Published(g)]
  BY DEF SendState
<1>3. goroutine[g] \in Publisher /\ goroutine[g].snap \in Stamps
  BY DEF BridgeInv, BridgeTypes, Publisher
<1>4. retained' \in [Brokers -> Kept] /\ \A b \in Brokers : retained'[b].avail = retained[b].avail
  BY <1>2, <1>3, SendsState
<1>5. /\ goroutine' \in [Goroutines -> Publisher]
      /\ \A h \in Goroutines : h # g => goroutine'[h] = goroutine[h]
  <2>1. [goroutine[g] EXCEPT !.pc = "remember"] \in Publisher
    BY <1>3 DEF Publisher, Places
  <2>2. CASE ack
    <3>1. goroutine' = [goroutine EXCEPT ![g] = [goroutine[g] EXCEPT !.pc = "remember"]]
      BY <1>2, <2>2
    <3> QED BY <2>1, <3>1, PublisherReplaced
  <2>3. CASE ~ack
    <3>1. goroutine' = [goroutine EXCEPT ![g] = Published(g)]
      BY <1>2, <2>3
    <3> QED BY <3>1, PublishedGoesOn, PublisherReplaced
  <2> QED BY <2>2, <2>3
<1> QED BY <1>1, <1>4, <1>5, PublisherStep, PublisherFrame

LEMMA RememberInv ==
    ASSUME BridgeInv, NEW g \in Goroutines, Remember(g)
    PROVE  BridgeInv'
<1>1. /\ goroutine[g].pc = "remember" /\ goroutine' = [goroutine EXCEPT ![g] = Published(g)]
      /\ published' = goroutine[g].snap
      /\ UNCHANGED <<runVars, pageVars, shown, retained, crossed>>
  BY DEF Remember
<1>2. published' \in Stamps
  BY <1>1 DEF BridgeInv, BridgeTypes, Publisher
<1>3. /\ goroutine' \in [Goroutines -> Publisher]
      /\ \A h \in Goroutines : h # g => goroutine'[h] = goroutine[h]
  BY <1>1, PublishedGoesOn, PublisherReplaced
<1> QED BY <1>1, <1>2, <1>3, PublisherStep, PublisherFrame

LEMMA ListenInv ==
    ASSUME BridgeInv, NEW g \in Announcers, Listen(g)
    PROVE  BridgeInv'
<1>1. /\ goroutine[g].pc = "listen" /\ goroutine' = [goroutine EXCEPT ![g] = Idle]
      /\ UNCHANGED <<reload, loop, settings, misread, client, current, pageVars, published, shown, retained, crossed>>
  BY DEF Listen
<1>2. /\ goroutine' \in [Goroutines -> Publisher] /\ g \in Goroutines
      /\ \A h \in Goroutines : h # g => goroutine'[h] = goroutine[h]
  <2>1. Idle \in Publisher /\ g \in Goroutines
    BY BridgeConstants DEF Idle, Publisher, Places, Stamps, Goroutines
  <2> QED BY <1>1, <2>1, PublisherReplaced
<1> QED BY <1>1, <1>2, PublisherStep, PublisherFrame

-----------------------------------------------------------------------------
(* Every step keeps the invariant. *)
LEMMA NextInv ==
    ASSUME BridgeInv, [BridgeNext]_bridgeVars
    PROVE  BridgeInv'
<1>1. CASE UNCHANGED bridgeVars
  <2>1. UNCHANGED <<runVars, pageVars, pubVars, shown, retained, crossed>>
    BY <1>1 DEF bridgeVars
  <2>2. UNCHANGED <<reload, loop, settings, misread, client, current, started, file, page, goroutine, published, actual, counts, retained, crossed>>
    BY <2>1 DEF runVars, pageVars, pubVars, shown
  <2>3. "loop" \in Goroutines
    BY DEF Goroutines
  <2> QED BY <2>2, <2>3, PublisherStep, PublisherFrame
<1>2. CASE Change \/ Obey \/ CountsAge
  BY <1>2, ShownInv
<1>3. CASE (\E b \in Brokers \union {Off} : SaveSettings(b)) \/ BrokerRedial \/ Reload \/ EndDaemon
  BY <1>3, PageInv
<1>4. CASE LoopSteps
  BY <1>4, ReadSettingsInv, WaitOverInv, DialInv, ConnectReturnsInv, SayGoodbyeInv, DisconnectInv DEF LoopSteps
<1>5. CASE ServeEnds
  BY <1>5, ServeEndsInv
<1>6. CASE Over \/ NoteLost
  BY <1>1, <1>6, NoteLostInv DEF Over
<1>7. ASSUME NEW c \in Clients, DialCompletes(c) \/ Reconnects(c) \/ \E kept \in BOOLEAN : Loses(c, kept)
      PROVE  BridgeInv'
  <2>1. CASE DialCompletes(c) \/ Reconnects(c)
    BY <2>1, ConnectedInv DEF DialCompletes, Reconnects, Alive
  <2>2. CASE \E kept \in BOOLEAN : Loses(c, kept)
    BY <2>2, LosesInv
  <2> QED BY <1>7, <2>1, <2>2
<1>8. ASSUME NEW g \in Goroutines, Publish(g)
      PROVE  BridgeInv'
  BY <1>8, TakeSnapshotInv, SendStateInv, RememberInv DEF Publish
<1>9. ASSUME NEW g \in Announcers, Announce(g)
      PROVE  BridgeInv'
  <2>1. g \in Goroutines
    BY DEF Goroutines
  <2> QED BY <1>8, <1>9, <2>1, NoteConnectedInv, DescribeInv, SayOnlineInv, ForgetInv, ListenInv DEF Announce
<1>10. "loop" \in Goroutines
  BY DEF Goroutines
<1> QED BY <1>1, <1>2, <1>3, <1>4, <1>5, <1>6, <1>7, <1>8, <1>9, <1>10 DEF BridgeNext

LEMMA BridgeInvariant == BridgeSpec => []BridgeInv
<1>1. BridgeInit => BridgeInv
  BY InitInv
<1>2. BridgeInv /\ [BridgeNext]_bridgeVars => BridgeInv'
  BY NextInv
<1> QED BY <1>1, <1>2, PTL DEF BridgeSpec

(* A set of at most one element has one member or none. *)
LEMMA AtMostOne ==
    ASSUME NEW S, \A x, y \in S : x = y
    PROVE  Cardinality(S) = IF S = {} THEN 0 ELSE 1
<1>1. CASE S = {}
  BY <1>1, FS_EmptySet
<1>2. CASE S # {}
  <2>1. PICK x \in S : TRUE
    BY <1>2
  <2>2. S = {x}
    BY <2>1
  <2> QED BY <1>2, <2>2, FS_Singleton
<1> QED BY <1>1, <1>2

(* However attempts end, the client of one is hung up before the next is
   dialled, so the bridge never evicts itself from the broker (mqtt.Bridge's
   attempt and its deferred disconnect). *)
THEOREM ClientSafety == BridgeSpec => []OneClientAtATime
<1>1. BridgeInv => OneClientAtATime
  <2> SUFFICES ASSUME BridgeInv PROVE OneClientAtATime
    OBVIOUS
  <2>1. \A c, d \in {c \in Clients : Alive(c)} : c = d
    BY DEF BridgeInv, OneAttempt
  <2>2. Cardinality({c \in Clients : Alive(c)}) = IF {c \in Clients : Alive(c)} = {} THEN 0 ELSE 1
    BY <2>1, AtMostOne
  <2> QED BY <2>2 DEF OneClientAtATime
<1> QED BY <1>1, BridgeInvariant, PTL

(* A save that falls anywhere in the bridge's round is not left unanswered
   (Bridge.Reload and the one place in its channel), unless the read of the
   file that answers it fails. *)
THEOREM ReloadSafety == BridgeSpec => []StaleSettingsAreAskedFor
<1>1. BridgeInv => StaleSettingsAreAskedFor
  BY DEF BridgeInv
<1> QED BY <1>1, BridgeInvariant, PTL

(* No broker is left saying "online" for a bridge that is not connected to it,
   by any order of farewells, losses and announcements that did not cross
   (Bridge.serve's farewell and the will connect sets). *)
THEOREM FarewellSafety == BridgeSpec => []AbsentSayOffline
<1>1. BridgeInv => AbsentSayOffline
  BY DEF BridgeInv, FarewellStands, AbsentSayOffline
<1> QED BY <1>1, BridgeInvariant, PTL
=============================================================================
