CONSTANTS
    k1 = k1
    r1 = r1
    r2 = r2
    a1 = a1
    Key = {k1}
    Request = {r1, r2}
    Owner <- MCOwner
    Admin = {a1}
    Limits = {0, 1, 2}
    Attempts = 2
SPECIFICATION FairSpec
INVARIANTS TypeOK TotalsMatch QuotaBounded
PROPERTIES ImplementsAccount EveryRecordSettles
