SPECIFICATION Spec
CONSTANTS
    Guis = {g1, g2, g3}
    Calls = {c1, c2}
    Nobody = Nobody
    Dead = Dead
INVARIANTS TypeOK ListenerReachable CallerIsServed
PROPERTIES KeepsPromise
