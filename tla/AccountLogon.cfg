SPECIFICATION Spec
CONSTANTS
    Core = {c1, c2}
    Account = {a1, a2}
    Key = {k1}
    Ld = {l1, l2}
    Desc = {d1, d2}
    FreshKeys = FALSE
    MaxDrop = 1
    NoLd = NoLd
    NoDesc = NoDesc
    NoAccount = NoAccount
    NoCore = NoCore
    NoKey = NoKey
    NoPeer = NoPeer
SYMMETRY Interchangeable
INVARIANTS
    NoDanglingLoginData
    OneSession
    SessionIsLoggedOn
    
    
