SPECIFICATION Spec
CONSTANTS
  Client = {c1, c2, c3}
  Early = {c1, c2}
  Bot = {b1}
  Nil = Nil
  Tape = Tape
  Mtu = 5
  MaxStates = 1
  MaxWork = 3
  MaxMoves = 1
  Themes = {"talk", "edit", "move", "watch"}
  Editor = {c1}
INVARIANTS Relayed BuffersHeld SpeaksForOwn
CHECK_DEADLOCK FALSE
