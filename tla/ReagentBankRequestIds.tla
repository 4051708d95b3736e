------------------------ MODULE ReagentBankRequestIds ------------------------
(***************************************************************************)
(* The request-ID ring both sides share: the client counts 1, 2, ...,      *)
(* MaxRequestId, 1, ... and the server decides from two IDs alone which of *)
(* them was given later.                                                   *)
(***************************************************************************)
EXTENDS Integers

CONSTANT MaxRequestId
ASSUME RingAssumption == MaxRequestId \in Nat /\ MaxRequestId >= 2

Ids == 1..MaxRequestId
Half == MaxRequestId \div 2

\* The client's NextRequestId: the ID it gives after id.
NextRequestId(id) == IF id + 1 > MaxRequestId THEN 1 ELSE id + 1

\* The ID of the n-th request, for counts that pass the end of the ring once.
IdOf(n) == IF n > MaxRequestId THEN n - MaxRequestId ELSE n

\* Steps of the ring from previous to candidate; a whole turn when they are equal.
Forward(candidate, previous) ==
  IF candidate > previous
  THEN candidate - previous
  ELSE MaxRequestId - previous + candidate

\* Mutated form: a jump of half the ring is taken for progress.
AcceptsHalfRing(candidate, previous) ==
  /\ candidate # 0 /\ previous # 0
  /\ Forward(candidate, previous) # 0
  /\ Forward(candidate, previous) <= Half

IsNewerRequestId(candidate, previous) ==
  /\ candidate # 0 /\ previous # 0
  /\ Forward(candidate, previous) # 0
  /\ Forward(candidate, previous) < Half
=============================================================================
