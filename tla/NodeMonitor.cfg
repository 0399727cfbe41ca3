CONSTANTS
    n1 = n1
    n2 = n2
    n3 = n3
    c = c
    p1 = p1
    p2 = p2
    s = s
    Workers = {n1, n2, n3}
    ControlPlane = {c}
    Pods = {p1, p2, s}
    Protected = {s}
    Unset = Unset
    Rates = {40, 65, 90}
    InitialRate <- TwoLoaded
    InitialPlace <- AllOnOne
    Weight <- Weights
    TopPods = 2
    MaxUpsets = 1
SPECIFICATION FairSpec
INVARIANTS TypeOK LeastTarget
PROPERTY PressedPodAsked
