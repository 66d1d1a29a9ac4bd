SPECIFICATION Spec
CONSTANTS
  Tab = {t, u}
  Person = {ann, bea}
  Nobody = Nobody
  MaxTokens = 2
  MaxAsks = 2
SYMMETRY Symmetry
INVARIANTS
  ActsAsShown
  
