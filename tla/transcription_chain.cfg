\* Three bots one after the other, or at once, in one room.
CONSTANTS
    r1 = r1
    r2 = r2
    s1 = s1
    s2 = s2
    Rooms = {r1}
    Speakers = {s1}
    MaxBots = 3
    MaxMishaps = 1
    None = None
SPECIFICATION Spec
INVARIANTS OneBotUnlessForgotten
\* The system is quiet once its transcripts are used up.
CHECK_DEADLOCK FALSE
