----------------------------- MODULE ConfigFile -----------------------------
(***************************************************************************)
(* config.toml and those who rewrite it: a save of the settings page,      *)
(* `gpb passwd`, and the first Load on an empty data directory.  Each of   *)
(* them reads the whole file, changes one part of it and writes the whole  *)
(* back through one temporary name that they all share.  A step is one     *)
(* file operation.  The file is reduced to the two settings that somebody  *)
(* other than the page relies on: the password's hash and the broker.      *)
(***************************************************************************)
EXTENDS Naturals

CONSTANTS
    Passwords,      \* what a person may choose as the web password
    Brokers,        \* what the settings page may name as the broker
    Pages,          \* requests that may be saving the settings at one time
    None,           \* no password, no broker
    MaxSaves,       \* bound: saves and starts
    MaxSaveFaults   \* bound: stops, kills and full disks

ASSUME ConfigConstants ==
    /\ MaxSaves \in Nat /\ MaxSaveFaults \in Nat
    /\ None \notin Passwords \union Brokers
    /\ {"passwd", "daemon"} \intersect Pages = {}

VARIABLES
    config,     \* the inode config.toml leads to, 0 for none
    temporary,  \* the inode config.toml.tmp leads to, 0 for none
    inode,      \* [Inodes -> what is written there]
    saver,      \* [Savers -> a Load, edit and Save under way]
    daemon,     \* whether the daemon runs
    inUse,      \* the settings the daemon read when it started
    told,       \* history: the password `gpb passwd` last reported as written
    apart,      \* history: no two of the savers have been at work at once
    budget      \* what is left of the bounds

fileVars == <<config, temporary, inode>>
configVars == <<fileVars, saver, daemon, inUse, told, apart, budget>>

Savers == Pages \union {"passwd", "daemon"}
Inodes == 1..4

Config == [hash : Passwords \union {None}, mqtt : Brokers \union {None}]
Defaults == [hash |-> None, mqtt |-> None]

(* What a file holds.  A file truncated and not yet written decodes without
   an error, to the defaults; text written over longer text does not decode. *)
Text(cfg) == [text |-> "whole", cfg |-> cfg]
Empty == [text |-> "empty", cfg |-> Defaults]
Spliced == [text |-> "spliced", cfg |-> Defaults]
Texts == {Empty, Spliced} \union {Text(c) : c \in Config}

IdleSaver == [pc |-> "idle", cfg |-> Defaults, fd |-> 0]

ConfigInit ==
    /\ config = 0 /\ temporary = 0 /\ inode = [i \in Inodes |-> Empty]
    /\ saver = [p \in Savers |-> IdleSaver]
    /\ daemon = FALSE /\ inUse = Defaults
    /\ told = None /\ apart = TRUE
    /\ budget = [saves |-> MaxSaves, faults |-> MaxSaveFaults]

-----------------------------------------------------------------------------
(* Load. *)

Loads == inode[config].text # "spliced"

(* What Load returns when there is a file and it decodes and validates. *)
OnDisk == inode[config].cfg

Alone(p) == \A q \in Savers \ {p} : saver[q].pc = "idle"

(* A process begins; Load writes the defaults out when there is no file, and
   returns them. *)
Begins(p, pc, cfg) ==
    /\ saver[p].pc = "idle" /\ budget.saves > 0
    /\ saver' = [saver EXCEPT ![p] = [pc |-> pc, cfg |-> cfg, fd |-> 0]]
    /\ apart' = (apart /\ Alone(p))
    /\ budget' = [budget EXCEPT !.saves = @ - 1]
    /\ UNCHANGED <<fileVars, told>>

(* The daemon starts with what the file says, or refuses to start. *)
StartDaemon ==
    /\ ~daemon
    /\ \/ config # 0 /\ Loads /\ daemon' = TRUE /\ inUse' = OnDisk
          /\ UNCHANGED <<fileVars, saver, told, apart, budget>>
       \/ config = 0 /\ Begins("daemon", "open", Defaults) /\ UNCHANGED <<daemon, inUse>>

(* Faulty variant of ApplySettings: the form is laid over what the daemon
   started with. *)
ApplySettingsToTheStart(cfg, broker) == [inUse EXCEPT !.mqtt = broker]

(* A save of the settings page: everything the form does not carry is taken
   from the file as it is now.  A form that does not validate changes nothing. *)
ApplySettings(cfg, broker) == [cfg EXCEPT !.mqtt = broker]

HandleSettingsSave(p, broker) ==
    /\ daemon /\ p \in Pages /\ Loads
    /\ Begins(p, "open", ApplySettings(OnDisk, broker))
    /\ UNCHANGED <<daemon, inUse>>

(* `gpb passwd` reads the file, and then asks for the password. *)
RunPasswd ==
    /\ \/ config # 0 /\ Loads /\ Begins("passwd", "prompt", OnDisk)
       \/ config = 0 /\ Begins("passwd", "open", Defaults)
    /\ UNCHANGED <<daemon, inUse>>

SetPassword(password) ==
    /\ saver["passwd"].pc = "prompt"
    /\ saver' = [saver EXCEPT !["passwd"].pc = "open", !["passwd"].cfg.hash = password]
    /\ UNCHANGED <<fileVars, daemon, inUse, told, apart, budget>>

-----------------------------------------------------------------------------
(* Save. *)

InUse(i) == i \in {config, temporary} \union {saver[p].fd : p \in Savers}

(* Faulty variant of OpenTemporary: config.toml itself is opened and emptied. *)
OpenInPlace(p) ==
    /\ saver[p].pc = "open"
    /\ \E i \in Inodes :
        /\ IF config # 0 THEN i = config ELSE i = 1
        /\ temporary' = i
        /\ inode' = [inode EXCEPT ![i] = Empty]
        /\ saver' = [saver EXCEPT ![p].pc = "write", ![p].fd = i]
    /\ UNCHANGED <<config, daemon, inUse, told, apart, budget>>

(* The temporary is created, or emptied if somebody left it or has it open. *)
OpenTemporary(p) ==
    /\ saver[p].pc = "open"
    /\ \E i \in Inodes :
        /\ IF temporary # 0 THEN i = temporary
           ELSE ~InUse(i) /\ \A j \in 1..(i - 1) : InUse(j)
        /\ temporary' = i
        /\ inode' = [inode EXCEPT ![i] = Empty]
        /\ saver' = [saver EXCEPT ![p].pc = "write", ![p].fd = i]
    /\ UNCHANGED <<config, daemon, inUse, told, apart, budget>>

(* The encoder hands the whole text over in one write, from the beginning of
   the file: over what another saver has put there meanwhile, whose end stays
   if it was longer. *)
Written(cfg, before) ==
    IF before \in {Empty, Text(cfg)} THEN {Text(cfg)} ELSE {Text(cfg), Spliced}

Encode(p) ==
    /\ saver[p].pc = "write"
    /\ \E text \in Written(saver[p].cfg, inode[saver[p].fd]) :
        inode' = [inode EXCEPT ![saver[p].fd] = text]
    /\ saver' = [saver EXCEPT ![p].pc = "rename"]
    /\ UNCHANGED <<config, temporary, daemon, inUse, told, apart, budget>>

(* A disk without room: the temporary is removed, whoever's it is by now. *)
EncodeFails(p) ==
    /\ saver[p].pc = "write" /\ budget.faults > 0
    /\ inode' = [inode EXCEPT ![saver[p].fd] = Spliced]
    /\ temporary' = 0
    /\ saver' = [saver EXCEPT ![p] = IdleSaver]
    /\ budget' = [budget EXCEPT !.faults = @ - 1]
    /\ UNCHANGED <<config, daemon, inUse, told, apart>>

(* What follows a save that succeeded: the daemon runs on what it wrote,
   passwd asks, or reports. *)
Saved(p) ==
    LET first == p = "passwd" /\ saver[p].cfg.hash = None IN
    /\ saver' = [saver EXCEPT ![p] = IF first THEN [@ EXCEPT !.pc = "prompt", !.fd = 0] ELSE IdleSaver]
    /\ daemon' = (daemon \/ p = "daemon")
    /\ inUse' = IF p = "daemon" THEN saver[p].cfg ELSE inUse
    /\ told' = IF p = "passwd" /\ ~first THEN saver[p].cfg.hash ELSE told

Rename(p) ==
    /\ saver[p].pc = "rename"
    /\ IF temporary = 0
       THEN saver' = [saver EXCEPT ![p] = IdleSaver] /\ UNCHANGED <<fileVars, daemon, inUse, told>>
       ELSE config' = temporary /\ temporary' = 0 /\ Saved(p) /\ UNCHANGED inode
    /\ UNCHANGED <<apart, budget>>

-----------------------------------------------------------------------------
(* Stops: the restart button, the supervisor, a kill; and a person who gives
   up on the prompt. *)
Stopped(who) == saver' = [p \in Savers |-> IF p \in who THEN IdleSaver ELSE saver[p]]

StopDaemon ==
    /\ daemon \/ saver["daemon"].pc # "idle"
    /\ budget.faults > 0 /\ budget' = [budget EXCEPT !.faults = @ - 1]
    /\ daemon' = FALSE /\ Stopped(Pages \union {"daemon"})
    /\ UNCHANGED <<fileVars, inUse, told, apart>>

GiveUpPasswd ==
    /\ saver["passwd"].pc # "idle"
    /\ budget.faults > 0 /\ budget' = [budget EXCEPT !.faults = @ - 1]
    /\ Stopped({"passwd"})
    /\ UNCHANGED <<fileVars, daemon, inUse, told, apart>>

SaveSteps(p) == OpenTemporary(p) \/ Encode(p) \/ EncodeFails(p) \/ Rename(p)

ConfigNext ==
    \/ StartDaemon \/ RunPasswd \/ GiveUpPasswd
    \/ \E p \in Pages, b \in Brokers \union {None} : HandleSettingsSave(p, b)
    \/ \E w \in Passwords : SetPassword(w)
    \/ \E p \in Savers : SaveSteps(p)

-----------------------------------------------------------------------------
(* Properties. *)

(* As long as no two saves are at work at once, config.toml is there whole
   from the first save on: a stop, a kill or a full disk between any two
   operations leaves the old file or the new one, never an empty or a partial
   one that the daemon would read as the defaults or refuse to start from. *)
ConfigIsWhole == apart /\ config # 0 => inode[config].text = "whole"

(* As long as no two are at work at once, a password `gpb passwd` reported as
   written is the one in the file until it is replaced, also while a save is
   under way: a settings save keeps it, although the daemon started with
   another. *)
PasswordStands == apart /\ told # None => OnDisk.hash = told
=============================================================================
