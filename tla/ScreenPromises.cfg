SPECIFICATION ScreenSpec
INVARIANTS Legible Seen SameEveryTime
