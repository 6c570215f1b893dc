---------------------------- MODULE DigestCheck ----------------------------
(***************************************************************************)
(* A caller that checks a digest against the text it was published as, or  *)
(* the document it was stored in: from_hex or deserialize, then ct_hash_eq *)
(* or ct_eq of what that gives with the digest at hand.  The caller is the *)
(* environment; it may also compare any other slices, of different lengths *)
(* too, as ct_eq allows.                                                   *)
(***************************************************************************)
EXTENDS HexDigest, Comparison

CONSTANTS Digests,   \* the digests at hand
          Slices     \* other slices that are compared

ASSUME CheckAssumption ==
    /\ HashLen = DigestLen
    /\ Digests \subseteq [1..DigestLen -> Octet]
    /\ Slices \subseteq Seq(SUBSET Bits)

VARIABLE atHand

checkVars == <<hexVars, compareVars, atHand>>

AsBits(s) == [k \in 1..Len(s) |-> BitsOf(s[k])]

Init == HexInit /\ NoCall /\ atHand \in Digests

Parse == ParseStep /\ UNCHANGED <<compareVars, atHand>>

CompareParsed(arrays) ==
    /\ parsed # Parsing /\ parsed.kind = "some"
    /\ Compare(AsBits(parsed.digest), AsBits(atHand), arrays)
    /\ UNCHANGED <<hexVars, atHand>>

CompareSlices(x, y) ==
    /\ parsed = Refused
    /\ Compare(x, y, FALSE)
    /\ UNCHANGED <<hexVars, atHand>>

Loop == (Accumulate \/ Decide) /\ UNCHANGED <<hexVars, atHand>>

Next ==
    \/ Parse
    \/ \E arrays \in BOOLEAN : CompareParsed(arrays)
    \/ \E x, y \in Slices : CompareSlices(x, y)
    \/ Loop

Spec == Init /\ [][Next]_checkVars
-----------------------------------------------------------------------------
(* What was published is taken for the digest at hand exactly if it is     *)
(* that digest: a text if it is its hexadecimal form, in either case or    *)
(* both, a document if it begins with its bytes.  Neither the ways back    *)
(* nor the accumulated comparison identify two digests (hex.rs, from_hex   *)
(* and deserialize; ct.rs, ct_hash_eq and ct_eq).                          *)
ChecksThePublished ==
    Answered /\ parsed # Refused =>
        (answer = "equal" <=>
            IF given = "text" THEN LowerCase(input) = EncodeHex(atHand, HexLower)
            ELSE SubSeq(input, 1, DigestLen) = atHand)
=============================================================================
