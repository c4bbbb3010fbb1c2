\* Two calls, each of any kind, of an action with two inputs and one output.
SPECIFICATION Spec
CONSTANTS
  Calls = {c1, c2}
  Inputs = {"in1", "in2"}
  Outputs = {"out"}
  Given <- SomeGiven
  ForeignReplies <- OtherReplies
INVARIANTS  TellsWhatHappened
PROPERTIES CallsReturn
