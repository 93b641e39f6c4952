\* One save, whose values may be refused.
SPECIFICATION Spec
CONSTANTS
    s1 = s1
    Key <- MCKey
    Val <- MCVal
    Valid <- MCValid
    Forms <- AnyForm
    Save = {s1}
    MayCancel = FALSE
    MaxCrash = 0
INVARIANTS
    LiveIsStored
