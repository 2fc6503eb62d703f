SPECIFICATION ClientSpec
CONSTANTS
  n1 = n1
  n2 = n2
  all = all
  Name = {n1, n2}
  All = all
SYMMETRY Symmetry
INVARIANT DoneAsAsked
PROPERTY AskedFirst
