\* Two bots, in one room or two, with two speakers who go from one to the other, and
\* a mishap.
CONSTANTS
    r1 = r1
    r2 = r2
    s1 = s1
    s2 = s2
    Rooms = {r1, r2}
    Speakers = {s1, s2}
    MaxBots = 2
    MaxMishaps = 1
    None = None
SPECIFICATION FairSpec
INVARIANTS OwnWords RecordingsAreKept
PROPERTIES TranscriptSettles
\* The system is quiet once its transcripts are used up.
CHECK_DEADLOCK FALSE
