CONSTANTS
  Segments = {"queue", "x"}
  Names = {"a", "b"}
  MaxElems = 3
  MaxSegs = 4
  Chars = {":", "/", "a", "b"}
  MaxChars = 5
SPECIFICATION Spec
INVARIANT MatchAgrees ParamsAgree 
