--------------------------- MODULE MCInboxSplices ---------------------------
(* InboxSplices on four messages. *)
EXTENDS InboxSplices, TLC

CONSTANTS m1, m2, m3, m4

FourMessages == {m1, m2, m3, m4}
MessageSymmetry == Permutations(FourMessages)
=============================================================================
