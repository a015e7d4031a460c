CONSTANTS
    Fds = {1, 2}
    MaxLen = 3
    MaxTime = 2
    Modulus = 8
SPECIFICATION Spec
PROPERTY ForeignUntouched
