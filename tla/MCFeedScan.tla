---------------------------- MODULE MCFeedScan ----------------------------
(* The runs of FeedScan: all its constants are numbers.                    *)
EXTENDS FeedScan

\* The first source is the busier one.
MCMaxEntries == <<2, 1>>
=============================================================================
