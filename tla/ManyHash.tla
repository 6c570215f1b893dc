------------------------------ MODULE ManyHash ------------------------------
(***************************************************************************)
(* What hash_many promises: a call takes a list of messages and, in the    *)
(* end, answers with the digest of each of them, in the same order.        *)
(***************************************************************************)
EXTENDS Padding

CONSTANT Batches

VARIABLES batch, busy, answer

manyVars == <<batch, busy, answer>>

DigestOf(msg) == [absorbed |-> Digest(msg), pending |-> <<>>]

ManyInit == batch = <<>> /\ busy = FALSE /\ answer = <<>>

Ask(ms) == ~busy /\ busy' = TRUE /\ batch' = ms /\ answer' = <<>>

Answer ==
    /\ busy /\ busy' = FALSE
    /\ answer' = [i \in 1..Len(batch) |-> DigestOf(batch[i])]
    /\ UNCHANGED batch

ManyNext == Answer \/ \E ms \in Batches : Ask(ms)

ManySafe == ManyInit /\ [][ManyNext]_manyVars

ManySpec == ManySafe /\ WF_manyVars(Answer)
=============================================================================
