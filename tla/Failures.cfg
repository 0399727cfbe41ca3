CONSTANTS
    n1 = n1
    n2 = n2
    A = A
    B = B
    a = a
    b = b
    d = d
    k1 = k1
    k2 = k2
    w1 = w1
    Nodes = {n1, n2}
    Namespaces = {A, B}
    Bases = {a, b}
    Unset = Unset
    Deployments = {d}
    InitialPods <- PairPods
    Replicas <- PairReplicas
    ContainerCount <- UnevenContainers
    Faults = {"registry", "late", "produce", "push", "webhook", "api", "answer",
              "deadline", "commit", "restore"}
    MaxFaults = 1
    Migrations = {k1}
    Requests <- PairAnyWay
    MaxEdits = 1
    Webhooks = {w1}
    MaxPushes = 2
SPECIFICATION Spec
INVARIANTS Invariant RemovedAfterReplacement NoWorkloadVanishes ImageToPull
PROPERTY ImplementsHandover
