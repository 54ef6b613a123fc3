SPECIFICATION Spec
CONSTANTS
    Core = {c1}
    Account = {a1}
    Key = {k1}
    Ld = {l1, l2}
    Desc = {d1, d2}
    FreshKeys = TRUE
    MaxDrop = 1
    NoLd = NoLd
    NoDesc = NoDesc
    NoAccount = NoAccount
    NoCore = NoCore
    NoKey = NoKey
    NoPeer = NoPeer
PROPERTIES
    
    KickedLeaves
