\* Seating: joins, moves, watching, leaving, timeouts and colours in two
\* rooms.  With one nonce nobody can start a race.
CONSTANTS
    Token = {t1, t2, t3}
    Nil = Nil
    MaxLobbies = 2
    MaxPlayers = 3
    MaxSessions = 3
    Colours = 3
    Tracks = {0}
    RoamTrack = 9
    MaxRaceID = 2
    FirstRaceIDs = {0}
    Nonces = {0}
    Wishes <- PaintWishes
    PlacePoints <- MCPlacePoints
    PointsMod = 1
    Times = {1}
    Dists = {0}
    MaxJoinSeq = 100
SPECIFICATION Spec
VIEW SeatView
INVARIANTS
    SeatsAgree
    LeaderIsEarliest
    ColoursDistinct
