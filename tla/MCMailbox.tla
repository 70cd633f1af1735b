------------------------------ MODULE MCMailbox ------------------------------
(* Model values for one mailbox.                                              *)
EXTENDS MailboxProps

CONSTANTS p, r, l1, l2, nobody

OnePlain == {p}
OneRequest == {r}
None == {}
OneLoop == {l1}
TwoLoops == {l1, l2}
=============================================================================
