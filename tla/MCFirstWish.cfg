CONSTANTS
    Token = {t1, t2}
    Consoles = {{t1}}
    Nil = Nil
    MaxLobbies = 1
    MaxPlayers = 2
    MaxSessions = 2
    Colours = 2
    Tracks = {0}
    RoamTrack = 9
    MaxRaceID = 2
    FirstRaceIDs = {1}
    Nonces = {0, 1}
    Wishes <- StartWishes
    PlacePoints <- MCPlacePoints
    PointsMod = 1
    Times = {}
    Dists = {}
    MaxJoinSeq = 100
    Capacity = 1
    MaxVisits = 1
    MaxOutages = 0
SPECIFICATION OnlineSpec
VIEW OnlineView
PROPERTY RacesArePressed
