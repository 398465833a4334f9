CONSTANTS
    Edits = {r1}
    Habits = {h1, h2, h3, h4}
    MaxDepth = 2
    NoHabit = NoHabit
SPECIFICATION StackSpec
SYMMETRY HabitSymmetry
INVARIANTS
    StackAcyclic
    WalkFindsCycles
