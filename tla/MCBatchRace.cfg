\* Two worker threads answer.
CONSTANTS
  MaxItems = 2
  Runners = {w1, w2}
  IoThread = io
SPECIFICATION Spec
SYMMETRY ThreadSymmetry
INVARIANT AtMostOneReply
