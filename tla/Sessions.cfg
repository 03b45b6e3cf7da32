SPECIFICATION Spec
CONSTANTS
    Clients = {c1, c2}
    admin = admin
    bob = bob
    Names = {admin, bob}
    Seeded = {admin}
    SeedRole <- AdminOnly
    NewRoles <- BothRoles
    Mistyped = {bob}
    Disableable = {bob}
    Sids = {s1, s2}
    None = None
    MaxAttempts = 2
    Lockout = 2
    Expiry = 1
    Leeway = 0
SYMMETRY Symmetry
INVARIANTS
    TypeOK
    GuessesBounded
    SessionsExact
    CreationsTrue
    LockoutEnds
PROPERTIES
    ServedIsLive
