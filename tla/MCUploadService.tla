-------------------------- MODULE MCUploadService --------------------------
(* Small instances of UploadService for TLC.                               *)
EXTENDS UploadService, TLC

CONSTANTS h1, h2, s0, s1, t0

Offer(i, size, sum, total) ==
  [index |-> i, size |-> size, sum |-> sum, total |-> total]

MCTotal == 3

\* Chunks of unequal length, each always sent with the same bytes.
SettledOffers == {Offer(0, 1, s0, MCTotal), Offer(1, 2, s1, MCTotal)}

\* Index 0 is also sent with other, longer bytes.
ContendedOffers == SettledOffers \cup {Offer(0, 2, t0, MCTotal)}

\* Plus an index beyond the last chunk, and another declared total.
AllOffers == ContendedOffers \cup
  {Offer(2, 1, s0, MCTotal), Offer(1, 2, s1, MCTotal + 1)}

HandlerSymmetry == Permutations(Handlers)
=============================================================================
