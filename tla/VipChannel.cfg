CONSTANT Threads = {t1, t2, t3, t4}
SPECIFICATION FairSpec
INVARIANTS Inv OneWay
PROPERTIES ImplementsCorridor ClaimHonoured
