\* Two services, two instances, two registry changes, one consumer crash;
\* registry reads may fail and watch events may be lost.
CONSTANTS
  s1 = s1
  s2 = s2
  i1 = i1
  i2 = i2
  Absent = Absent
  Names <- MCNames
  Instances <- MCInstances
  RegistryMayFail = TRUE
  MaxChanges = 2
  MaxRestarts = 1
SPECIFICATION Spec
INVARIANT TypeOK
PROPERTY CacheConverges
\* A static or failed selector runs no goroutine; once the bounded registry
\* changes and crashes are spent nothing is left to happen.
CHECK_DEADLOCK FALSE
