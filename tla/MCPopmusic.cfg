CONSTANTS
    max_neighbors = 3
    Trials = 2
    Cities <- MCCities
    Problems <- MCProblems
SPECIFICATION Spec
INVARIANTS
    LengthIsKept PathIsTour
PROPERTIES
    ScansShorten BuildEnds
