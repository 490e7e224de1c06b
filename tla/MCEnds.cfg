\* Every race on a course ends, and every Free Roam session without its host,
\* under the fairness of the ticks.
CONSTANTS
    Token = {t1, t2}
    Nil = Nil
    MaxLobbies = 1
    MaxPlayers = 2
    MaxSessions = 2
    Colours = 2
    Tracks = {0,9}
    RoamTrack = 9
    MaxRaceID = 2
    FirstRaceIDs = {1}
    Nonces = {0, 1}
    Wishes <- StartWishes
    PlacePoints <- MCPlacePoints
    PointsMod = 1
    Times = {0}
    Dists = {0}
    MaxJoinSeq = 2
SPECIFICATION FairSpec
PROPERTIES
    RacesEnd
    SessionsEnd
