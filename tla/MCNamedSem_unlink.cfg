CONSTANTS
    poster = poster
    taker = taker
    Instances <- MCInstances
    Posters <- MCPosters
    Val = 0
SPECIFICATION Spec
INVARIANT FreshOpenStartsAtVal
