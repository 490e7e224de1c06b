CONSTANTS
    Token = {t1}
    Consoles = {{t1}}
    Nil = Nil
    MaxLobbies = 1
    MaxPlayers = 1
    MaxSessions = 1
    Colours = 1
    Tracks = {0}
    RoamTrack = 9
    MaxRaceID = 2
    FirstRaceIDs = {1}
    Nonces = {0}
    Wishes <- StartWishes
    PlacePoints <- MCPlacePoints
    PointsMod = 1
    Times = {}
    Dists = {}
    MaxJoinSeq = 100
    Capacity = 2
    MaxVisits = 1
    MaxOutages = 0
SPECIFICATION BrowseFairSpec
PROPERTY SeatIsGivenUp
