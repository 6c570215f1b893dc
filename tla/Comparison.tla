----------------------------- MODULE Comparison -----------------------------
(***************************************************************************)
(* ct_eq, ct_hash_eq and ct_select of ct.rs.  A byte is the set of the     *)
(* numbers of its bits that are 1, so that XOR is symmetric difference, OR *)
(* is union and AND intersection.                                          *)
(***************************************************************************)
EXTENDS Integers, Sequences, FiniteSetsExt

CONSTANT HashLen    \* 64 in the code

Bits == 0..7

ASSUME ComparisonAssumption == HashLen \in Nat

VARIABLES
    a, b,
    fixed,       \* ct_hash_eq runs, not ct_eq
    i, acc,      \* the loop
    answer       \* "none" before a call, "running", or what was returned

compareVars == <<a, b, fixed, i, acc, answer>>

Answer(v) == IF v THEN "equal" ELSE "different"

Answered == answer \in {"equal", "different"}

(* ct_hash_eq takes arrays of one length; ct_eq looks at the lengths. *)
Compare(x, y, arrays) ==
    /\ answer = "none"
    /\ arrays => Len(x) = HashLen /\ Len(y) = HashLen
    /\ a' = x /\ b' = y /\ fixed' = arrays /\ i' = 0 /\ acc' = {}
    /\ answer' = IF Len(x) # Len(y) THEN Answer(FALSE) ELSE "running"

(* Mutant of Accumulate: AND for OR. *)
AccumulateMasked ==
    /\ answer = "running" /\ i < Len(a)
    /\ acc' = acc \cap SymDiff(a[i + 1], b[i + 1])
    /\ i' = i + 1
    /\ UNCHANGED <<a, b, fixed, answer>>

Accumulate ==
    /\ answer = "running" /\ i < Len(a)
    /\ acc' = acc \cup SymDiff(a[i + 1], b[i + 1])
    /\ i' = i + 1
    /\ UNCHANGED <<a, b, fixed, answer>>

(* Mutant of Decide: it answers as soon as a difference is known. *)
DecideEarly ==
    /\ answer = "running" /\ (i = Len(a) \/ acc # {})
    /\ answer' = Answer(acc = {})
    /\ UNCHANGED <<a, b, fixed, i, acc>>

Decide ==
    /\ answer = "running" /\ i = Len(a)
    /\ answer' = Answer(acc = {})
    /\ UNCHANGED <<a, b, fixed, i, acc>>

Weights == << 1, 2, 4, 8, 16, 32, 64, 128 >>

BitsOf(n) == {k \in Bits : (n \div Weights[k + 1]) % 2 = 1}

(* (condition as u8).wrapping_neg() *)
Mask(condition) == BitsOf((256 - IF condition THEN 1 ELSE 0) % 256)

CtSelect(condition, x, y) == (Mask(condition) \cap x) \cup ((Bits \ Mask(condition)) \cap y)

NoCall == a = <<>> /\ b = <<>> /\ fixed = FALSE /\ i = 0 /\ acc = {} /\ answer = "none"
-----------------------------------------------------------------------------
(* A comparison says equal exactly for equal strings, of any length: no    *)
(* difference that was met is lost to a later byte (ct.rs, ct_eq and       *)
(* ct_hash_eq).                                                            *)
EqualIffSame == Answered => (answer = "equal" <=> a = b)

(* The number of turns of the loop depends on the lengths only, not on     *)
(* where the first difference is (ct.rs, ct_eq: "never on the position of  *)
(* the first differing byte").                                             *)
TurnsByLengthOnly == Answered => i = IF Len(a) = Len(b) THEN Len(a) ELSE 0

(* ct_select gives one of the two bytes whole, whichever the condition     *)
(* asks for: no bit comes from the other (ct.rs, ct_select).               *)
SelectsWholeByte ==
    \A k \in DOMAIN a \cap DOMAIN b, condition \in BOOLEAN :
        CtSelect(condition, a[k], b[k]) = IF condition THEN a[k] ELSE b[k]

(* Without a branch, the functions of ct.rs answer as the branches they    *)
(* avoid would: by equality of the strings, and by the condition.          *)
AsWithBranches == EqualIffSame /\ SelectsWholeByte
=============================================================================
