SPECIFICATION WalksSpec
CONSTANTS
    e1 = e1
    e2 = e2
    move1 = move1
    move1b = move1b
    move2 = move2
    back = back
    flip = flip
    shelve = shelve
    gone = gone
    draft1 = draft1
    draft2 = draft2
    preview = preview
    tier = tier
    c1 = c1
    c3 = c3
    d2 = d2
    d5 = d5
    hall = hall
    rackC = rackC
    bare = bare
    wall = wall
    None = None
    Saves <- MCSaves
    Editors = {e1, e2}
    Drafts <- MCDrafts
    Reaches <- MCReaches
    Ask <- MCAsk
    Bins <- MCBins
    Code <- MCCode
    Drawn <- MCDrawn
    Placed <- MCPlaced
    Together <- MCTogether
    Walkers = {w1, w2}
    Meanwhile <- MCMeanwhile
    Nowhere = Nowhere
    Floors <- MCFloors
    Typed <- MCTyped
    Costs <- MCCosts
    ExactUpTo = 3
    Batches <- MCBatches
    Sharings <- MCSharings
PROPERTIES
    EditorsOverwriteNothing
CHECK_DEADLOCK FALSE
