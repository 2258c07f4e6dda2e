CONSTANT Boards = {b1, b2, b3}
SPECIFICATION Spec
INVARIANTS Inv NoContention LineIsWired
