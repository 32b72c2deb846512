--------------------------- MODULE MCGmailCleanup ---------------------------
(***************************************************************************)
(* Instances of GmailCleanup for TLC.                                       *)
(***************************************************************************)
EXTENDS GmailDispatch, TLC

CONSTANTS m1, m2

\* One chunk of one message, and two chunks of one message each.
OneMessage == <<{m1}>>
TwoChunks == <<{m1}, {m2}>>

WorkerSymmetry == Permutations(Workers)
=============================================================================
