CONSTANT MaxVersion = 6
SPECIFICATION Spec
INVARIANT HeldIsNotOverwritten
