SPECIFICATION LiveSpec
CONSTANTS
    here = here
    elsewhere = elsewhere
    d1 = d1
    Devices = {d1}
    Topics = {here, elsewhere}
    Hears <- MCHears
    Buffer = 1
    Reads = {1, 2}
    MaxCommits = 2
    MaxFaults = 1
INVARIANTS
    NothingUnheard
PROPERTIES
    ComesToShow
