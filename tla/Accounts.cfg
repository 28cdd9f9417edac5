CONSTANTS
    Email = {ann, bob}
    Password = {long, short}
    LongEnough = {long}
    Profile = {g1}
    ResetToken = {k1}
    Request = {r1, r2, r3}
    None = None
    MaxTime = 1
SPECIFICATION Spec
CHECK_DEADLOCK FALSE
SYMMETRY MCSymmetry
INVARIANTS
    LoginFindsHash
    CallbackSignsOwner
    AnsweredSessionStands
PROPERTIES
    SpentTokenIsRefused
    PasswordChangesByOwner
