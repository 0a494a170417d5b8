SPECIFICATION FairSpec
CONSTANTS
    s1 = s1
    s2 = s2
    s3 = s3
    Subs = {s1, s2, s3}
    Dest <- TwoDests
    Refused = {s1, s2}
    Styles = {"destination", "id", "both"}
    Word = Word
    None = None
    WireCap = 1
    MaxErrors = 4
    MaxComplaints = 1
    MaxLosses = 1
INVARIANTS
    AbandonedDeserved
    SkipsOnlyEnded
PROPERTIES
    GivenUp
CHECK_DEADLOCK FALSE
