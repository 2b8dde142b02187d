SPECIFICATION CardsSpec
CONSTANTS
    look1 = look1
    look2 = look2
    bare = bare
    evid = evid
    weigh1 = weigh1
    weigh2 = weigh2
    photo1 = photo1
    photo2 = photo2
    late = late
    same1 = same1
    cut1 = cut1
    face1 = face1
    shift1 = shift1
    fix1 = fix1
    fix1b = fix1b
    fix2 = fix2
    out1 = out1
    out2 = out2
    out3 = out3
    out4 = out4
    out5 = out5
    match1 = match1
    match2 = match2
    match3 = match3
    match4 = match4
    say1 = say1
    say2 = say2
    per1 = per1
    fixsay = fixsay
    first = first
    pic1 = pic1
    pic2 = pic2
    boot = boot
    clog = clog
    shoe = shoe
    sock = sock
    None = None
    Requests <- MCRequests
    Given <- MCGiven
    Ask <- MCAsk
    OnFile <- MCOnFile
    Together <- MCTogether
INVARIANTS
    EachSizesArranged
    NothingForgotten
    OnceEach
CHECK_DEADLOCK FALSE
