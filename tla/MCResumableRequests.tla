------------------------- MODULE MCResumableRequests -------------------------
(***************************************************************************)
(* Instances of ResumableRequests for TLC.                                 *)
(***************************************************************************)
EXTENDS ResumableRequestsInv, TLC

CONSTANTS p1, r1, d1

\* Calls, run ids and request bytes are interchangeable; used for safety only.
Symmetry ==
  Permutations(Proc) \cup Permutations(RunId) \cup Permutations(Digest)
    \cup Permutations(Request)

\* Nothing but types is claimed once a helper of the coordinator's lock is lost:
\* TLC reaches these states and looks no further.
StillExclusive == exclusive

\* Client p1 submits request r1 with the bytes d1 again and again.
RetrySpec == FairSpec /\ RetryFairness(p1, r1, d1)

\* Once no other call interferes, client p1's request r1 is settled: no lock,
\* promotion or reservation left by a dead or failed call blocks the retry.
RetriesSettle == RetrySettles(p1, r1)

=============================================================================
