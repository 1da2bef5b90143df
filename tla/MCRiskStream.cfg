\* Two subscribers and a trade over a channel of two messages.
SPECIFICATION Spec
CONSTANTS
  Calls = {c1, c2}
  Handlers = {h1}
  Capacity = 2
  None = None
INVARIANTS
  TypeOK
  TaskOutlivesStream
PROPERTIES
  KeepsReporting
  StreamSettles
  TasksEnd
