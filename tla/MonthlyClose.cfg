SPECIFICATION FairSpec
CONSTANTS
  Requests = {r1, r2}
  NoRequest = NoRequest
  MaxWrites = 3
INVARIANTS TypeOK RevisionStandsForFacts
PROPERTIES TrustedOnEvidence ImplementsReview RequestsEnd
