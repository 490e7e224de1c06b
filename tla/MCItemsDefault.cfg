CONSTANTS
    Token = {t1, t2, t3}
    Nil = Nil
    MaxLobbies = 1
    MaxPlayers = 3
    MaxSessions = 3
    Colours = 3
    Tracks = {0,9}
    RoamTrack = 9
    MaxRaceID = 2
    FirstRaceIDs = {2}
    Nonces = {0, 1}
    Wishes <- StartWishes
    PlacePoints <- MCPlacePoints
    PointsMod = 1
    Times = {1}
    Dists = {0}
    MaxJoinSeq = 100
SPECIFICATION Spec
VIEW RaceView
INVARIANT ItemsOnByDefault
