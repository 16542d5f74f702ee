SPECIFICATION Spec
CONSTANTS
    Calls = {h, c1, c2}
    Hydrate = h
    Users = {alice, bob}
    Before = before
    None = None
INVARIANTS
    MirrorsWhenOrderly
PROPERTY NothingHangs
