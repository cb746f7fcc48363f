SPECIFICATION Spec
CONSTANTS
    Children = {c1, c2, c3, c4, c5}
    Teachers = {t1, t2, t3}
    ratio = 2
    Versions = {TRUE, FALSE}
INVARIANTS RatioKept VerifyNeverFails
