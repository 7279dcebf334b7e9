--------------------------- MODULE MCFeedSources ---------------------------
(* Constants for the runs of FeedSources.                                  *)
EXTENDS FeedSources, TLC

CONSTANTS blog, videos, page, mirror, o1, o2, j1

\* A site that advertises two feeds, and an address on another host that
\* leads to the first of them.
MCFeeds == (page :> <<blog, videos>>) @@ (mirror :> <<blog>>)

MCHostOf ==
  (page :> "site") @@ (blog :> "site") @@ (videos :> "cdn") @@
  (mirror :> "mirror")

SlotSymmetry == Permutations(Op)
=============================================================================
