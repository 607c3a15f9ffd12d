\* Three requests racing on one track, failing writes, and a file found damaged;
\* every request is answered.
SPECIFICATION FairSpec
CONSTANTS
  Tracks = {t1}
  Models = {m1}
  Roles = {helper}
  NoCapability = NoCapability
  Requests = {r1, r2, r3}
  MaxRevision = 4
  MaxRestarts = 1
  MayFail = TRUE
  MayBeDamaged = TRUE
INVARIANTS
  
  OneMutationAtATime
  EnforcedIsApproved
  FileLeadsByOneCommit
  LockedNeverEscalates
PROPERTIES
  EnforcedOnlyWhenGated
  
  ImplementsLedger
  RequestsAreAnswered
