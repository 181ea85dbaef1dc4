SPECIFICATION FairSpec
CONSTANTS
    f1 = f1
    f2 = f2
    o1 = o1
    Opens = {o1, o2}
    Fundings = {f1, f2}
    Funding <- MCFunding
    MaxFaults = 1
PROPERTY
    SettledIsCredited
