\* Two requests on one component, its heartbeats, the checker, and a client.
SPECIFICATION RegistryFairSpec
CONSTANTS
    Ids = {a1}
    Requests = {t1, t2}
    Clients = {c1}
    None = None
    Capacity = 2
    Matches <- MCMatches
    MaxRefreshes = 2
CHECK_DEADLOCK FALSE
INVARIANTS RegistryTypeOK OfflineOncePerSilence PresenceAgrees SubscriberMissesNothing
PROPERTIES SilenceNoticed ChangesAnnounced RefinesLossyFeed
