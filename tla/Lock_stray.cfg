\* A renewal that is under way when the work ends arms a deadline that nobody
\* clears: it aborts the caller of a request that had succeeded.
SPECIFICATION LockSpec
CONSTANTS
  Attempts = {a1, a2}
  Lease = 2
  Nobody = Nobody
PROPERTIES
  SuccessIsNotAborted
