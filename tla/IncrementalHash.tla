-------------------------- MODULE IncrementalHash --------------------------
(***************************************************************************)
(* What the single-message API of Sha3_512Kernel promises, with no buffer  *)
(* and no position: a hasher is the message it has been fed.  A digest is  *)
(* the digest of that message, and taking it absorbs the padding block, so *)
(* that without a reset the hasher goes on as if it had been fed the       *)
(* padded message and, again, its last partial block.                      *)
(***************************************************************************)
EXTENDS Padding

CONSTANTS Data,        \* the byte strings a caller may feed or hash
          Readable     \* the contents of the regions a caller may hash

VARIABLES msg,         \* the message the hasher stands for
          returned     \* the digests the last call returned

hashVars == <<msg, returned>>

AfterFinalize(m) == PadMessage(m) \o PartialBlock(m)

HashInit == msg = <<>> /\ returned = <<>>

Feed(d) == msg' = msg \o d /\ returned' = <<>>

TakeDigest == msg' = AfterFinalize(msg) /\ returned' = <<Digest(msg)>>

OneShot(d) == msg' = AfterFinalize(d) /\ returned' = <<Digest(d)>>

Forget == msg' = <<>> /\ returned' = <<>>

Refuse == UNCHANGED msg /\ returned' = <<ZeroDigest>>

HashNext ==
    \/ \E d \in Data : Feed(d)
    \/ \E d \in Data \cup Readable : OneShot(d)
    \/ TakeDigest
    \/ Forget
    \/ Refuse

HashSpec == HashInit /\ [][HashNext]_hashVars
=============================================================================
