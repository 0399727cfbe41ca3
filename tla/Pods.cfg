CONSTANTS
    n1 = n1
    n2 = n2
    A = A
    B = B
    a = a
    b = b
    d = d
    k1 = k1
    k2 = k2
    w1 = w1
    Nodes = {n1, n2}
    Namespaces = {A, B}
    Bases = {a}
    Unset = Unset
    Deployments = {d}
    InitialPods <- TwinPods
    Replicas <- NoReplicas
    ContainerCount <- OneContainer
    Faults = {"lag"}
    MaxFaults = 1
    Migrations = {k1, k2}
    Requests <- TwinRequests
    MaxEdits = 2
    Webhooks = {w1}
    MaxPushes = 2
SPECIFICATION Spec
INVARIANTS TypeOK RemovedAsRequested PlacedAsRequested NoPodLost
PROPERTIES PushNotCancelled ImplementsHandover
