\* Two tasks share the producer; two faults; up to two versions of the subject.
CONSTANTS
  NoHeader = NoHeader
  MaxVersion = 2
  Tasks = {t1, t2}
  PinnedVersions = {1, 2}
  MinVersions = {2}
  FaultCodes = {"UNAVAILABLE", "INTERNAL"}
  RejectCodes = {"UNAVAILABLE"}
  MaxConfigure = 2
  MaxSends = 1
  MaxRetries = 1
  MaxFaults = 2
SPECIFICATION FairSpec
INVARIANTS
  TypeOK
  VersionAsReferenced
  IndInv
PROPERTIES
  OlderVersionNeedsOverlap
  CallsReturn
\* The application may stop calling and every call may have returned.
CHECK_DEADLOCK FALSE
