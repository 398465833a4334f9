CONSTANTS
    Edits = {r1, r2}
    Habits = {h1, h2}
    MaxDepth = 3
    NoHabit = NoHabit
SPECIFICATION StackSpec
SYMMETRY HabitSymmetry
INVARIANTS
    StackAcyclic
