\* Three promises, two races that share one of them, and a race without a rival.
CONSTANTS
    p1 = p1
    p2 = p2
    p3 = p3
    ra = ra
    rb = rb
    rc = rc
    Promises = {p1, p2, p3}
    Races = {ra, rb, rc}
    Raceables <- MCRaceables
SPECIFICATION FairSpec
INVARIANTS
    NothingLeaks
    FirstWins
PROPERTIES
    ImplementsRace
CHECK_DEADLOCK FALSE
