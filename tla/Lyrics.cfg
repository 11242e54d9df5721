CONSTANTS
    Titles = {one, other}
    Lengths = {14, 30}
    Near = 5
    Retry = 1
    NoTitle = NoTitle
    None = None
    MaxNews = 4
    MaxFaults = 1
SPECIFICATION LyricsSpec
INVARIANT ShownLyricsBelong
PROPERTIES RetryLimited StatusSettles
CHECK_DEADLOCK FALSE
