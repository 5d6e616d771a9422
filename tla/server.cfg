\* Two nodes that may each be root and be named by the other, and one page.
CONSTANTS
    a = a
    b = b
    Mac = {a, b}
    Page = {p1}
    Neighbor <- MCNeighbor
    Slider <- MCSlider
    StaleTimeout = 1
    MaxQueued = 0
    MaxReloads = 1
SPECIFICATION FairSpec
INVARIANTS TypeOK Mirrors PlaceholderUnheard DrawnWhenLinked
PROPERTIES KeepsConfig MentionedStays StaleRemoved
