\* Two pulls, at a time or one after the other, and two removals; or requests,
\* two at a time, that need a directory three times, in one kinfer or two, beside one
\* power cut and one newer manifest.
SPECIFICATION MCSpec
CONSTANTS
    Pullers = {p1, p2}
    Lower <- MCLower
    Repos <- MCRepos
    Quants = {"", "F16"}
    Manifests <- MCManifests
    Asked <- MCAsked
    Found <- MCFound
    Bounds <- MCBounds
    Procs = {r1, r2}
    Kinfers = {k1, k2}
    LibFiles <- MCLibFiles
    Layers <- MCLayers
    MLXFound <- MCMLXFound
    Starts <- MCStarts
    MaxVersions = 2
    MaxCuts = 1
INVARIANTS ListedIsWhole NothingForgotten
PROPERTIES RemovesOne GivenWhole
SYMMETRY MCSymmetry
CHECK_DEADLOCK FALSE
