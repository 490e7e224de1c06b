\* The end of a race in one room: finishes, places, points and relayed karts.
CONSTANTS
    Token = {t1, t2, t3}
    Nil = Nil
    MaxLobbies = 1
    MaxPlayers = 2
    MaxSessions = 3
    Colours = 2
    Tracks = {0}
    RoamTrack = 9
    MaxRaceID = 2
    FirstRaceIDs = {1}
    Nonces = {0, 1}
    Wishes <- StartWishes
    PlacePoints <- MCPlacePoints
    PointsMod = 1
    Times = {1, 2}
    Dists = {0, 1}
    MaxJoinSeq = 100
SPECIFICATION Spec
VIEW ResultView
INVARIANTS
    RelayIsCurrent
    PlacesDistinct
    PlacesMatchFinish
PROPERTIES
    RaceIDsMoveOn
    FinishStands
