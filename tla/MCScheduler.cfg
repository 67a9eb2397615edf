SPECIFICATION Spec
CONSTANTS
  Ops = {h1, h2}
  Descriptors = {d1}
  Runners = {r1, r2}
  Others = {p1}
  Task = Task
  NoOp = NoOp
INVARIANTS
  DescriptorsDequeued
  WorkCounted
  NoLostWakeup
PROPERTIES
  Implements
  Performed
  RunReturns
CHECK_DEADLOCK FALSE
