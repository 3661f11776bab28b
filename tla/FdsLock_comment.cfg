SPECIFICATION Spec
CONSTANTS
  Workers = {w1, w2}
  Leaky = {}
  Spurious = {}
  Main = Main
  Free = Free
SYMMETRY Symmetry
INVARIANT MainHangsWhileLocked
