SPECIFICATION FairBridgeSpec
CONSTANTS
    Brokers = {home}
    Off = off
    Clients = {c1, c2}
    NoClient = none
    Announcers = {a1}
    MaxChanges = 1
    MaxTroubles = 2
INVARIANTS OneClientAtATime StaleSettingsAreAskedFor AbsentSayOffline
PROPERTIES DashboardCatchesUp StandingCatchesUp
