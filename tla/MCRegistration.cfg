SPECIFICATION Spec
CONSTANTS
    Client = {c1, c2}
    Name = {n1, n2}
    SeededNumbers <- MCSeededNumbers
    MaxAttempts = 2
INVARIANTS
    UsersAreComplete
    NumbersNeverCollide
    CreatedCanLogin
SYMMETRY Symmetry
