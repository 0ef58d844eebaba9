SPECIFICATION FairSpec
CONSTANTS
  Session = {s1, s2}
  MaxConnections = 1
INVARIANTS
  TypeOK
  
PROPERTIES
  OpeningEnds
  EndsWithBoth
  LingersOnlyInSilence
