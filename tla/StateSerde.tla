----------------------------- MODULE StateSerde -----------------------------
(***************************************************************************)
(* Serialize and Deserialize of Sha3_512State (lib.rs, state_serde), and a *)
(* program that saves such a state and reads it back when it is started    *)
(* again.  The entries may come back in another order, repeated, changed   *)
(* or not at all.  A state is public, and so are new, reset and its fields *)
(* (absorb and finalize are not): a program may hold any content.          *)
(***************************************************************************)
EXTENDS Integers, Sequences

CONSTANTS LaneCount, BufferLen,   \* lengths of the two arrays (25 and 200)
          Rate,                   \* SHA3_512_RATE (72)
          States,                 \* the states a program fills in
          Strange,                \* by field, values that were not saved
          MaxEntries              \* bound: entries of a document

Field == {"state", "pos", "rate", "buffer"}

Sha3State == [state : [1..LaneCount -> Nat], pos : Nat, rate : Nat, buffer : [1..BufferLen -> Nat]]

ASSUME SerdeAssumption ==
    /\ LaneCount \in Nat /\ BufferLen \in Nat /\ Rate \in Nat \ {0} /\ MaxEntries \in Nat
    \* a program that keeps to the comment of the struct
    /\ States \subseteq {s \in Sha3State : s.pos < s.rate}
    /\ DOMAIN Strange = Field
    /\ Strange["pos"] \cup Strange["rate"] \subseteq Nat
    /\ Strange["state"] \cup Strange["buffer"] \subseteq Seq(Nat)

VARIABLES
    held,       \* the program's Sha3_512State
    saved,      \* the fields last written by Serialize
    savedOf,    \* history: the state they were written of
    altered,    \* history: what is held came from an altered document, ...
    savedAltered, \* ... or what was saved did
    outcome,    \* "none", "reading", "loaded" or "error"
    found,      \* the four Options of visit_map
    loaded,     \* the Sha3_512State it returned
    document    \* history: the entries read, while all are well formed

vars == <<held, saved, savedOf, altered, savedAltered, outcome, found, loaded, document>>

programVars == <<held, saved, savedOf, altered, savedAltered>>

NewState ==
    [state |-> [i \in 1..LaneCount |-> 0], pos |-> 0, rate |-> Rate,
     buffer |-> [i \in 1..BufferLen |-> 0]]

None == <<>>
Some(v) == <<v>>

NothingFound == [f \in Field |-> None]

(* Mutant of Serialized: two fields of one type are swapped. *)
SerializedSwapped(s) ==
    [state |-> s.state, pos |-> s.rate, rate |-> s.pos, buffer |-> s.buffer]

(* The four fields Serialize writes, the arrays as slices. *)
Serialized(s) ==
    [state |-> s.state, pos |-> s.pos, rate |-> s.rate, buffer |-> s.buffer]

Init ==
    /\ held = NewState /\ saved = Serialized(NewState) /\ savedOf = NewState
    /\ altered = FALSE /\ savedAltered = FALSE
    /\ outcome = "none" /\ found = NothingFound /\ loaded = None /\ document = <<>>

FillIn(s) ==
    /\ outcome = "none"
    /\ held' = s /\ altered' = FALSE
    /\ UNCHANGED <<saved, savedOf, savedAltered, outcome, found, loaded, document>>

(* reset leaves the rate alone, also one that a document brought. *)
ResetState ==
    /\ outcome = "none"
    /\ held' = [NewState EXCEPT !.rate = held.rate]
    /\ UNCHANGED <<saved, savedOf, altered, savedAltered, outcome, found, loaded, document>>

Save ==
    /\ outcome = "none"
    /\ saved' = Serialized(held) /\ savedOf' = held /\ savedAltered' = altered
    /\ UNCHANGED <<held, altered, outcome, found, loaded, document>>

(***************************************************************************)
(* A started program holds a new state.  A format that writes no keys      *)
(* would have visit_seq called, which the visitor lacks: an error at once. *)
(***************************************************************************)
Restart(keyed) ==
    /\ outcome = "none"
    /\ held' = NewState /\ altered' = FALSE
    /\ outcome' = IF keyed THEN "reading" ELSE "error"
    /\ UNCHANGED <<saved, savedOf, savedAltered, found, loaded, document>>

(* Mutant of NextEntry: the first value of a field is kept. *)
NextEntryFirstKept(f, v) ==
    /\ outcome = "reading" /\ Len(document) < MaxEntries
    /\ found' = [found EXCEPT ![f] = IF @ = None THEN Some(v) ELSE @]
    /\ document' = Append(document, <<f, v>>)
    /\ UNCHANGED <<programVars, outcome, loaded>>

(* One turn of the loop of visit_map; a field may be met again. *)
NextEntry(f, v) ==
    /\ outcome = "reading" /\ Len(document) < MaxEntries
    /\ found' = [found EXCEPT ![f] = Some(v)]
    /\ document' = Append(document, <<f, v>>)
    /\ UNCHANGED <<programVars, outcome, loaded>>

(* A key that is no Field, or a value that is not of the field's type: an  *)
(* error at once, whatever was read before.                                *)
MalformedEntry ==
    /\ outcome = "reading" /\ outcome' = "error"
    /\ document' = <<>>
    /\ UNCHANGED <<programVars, found, loaded>>

Loaded ==
    [state |-> found["state"][1], pos |-> found["pos"][1], rate |-> found["rate"][1],
     buffer |-> found["buffer"][1]]

(* Mutant of EndOfMap: the length of the buffer is not looked at. *)
EndOfMapOneLength ==
    /\ outcome = "reading"
    /\ IF (\E f \in Field : found[f] = None) \/ Len(found["state"][1]) # LaneCount
       THEN outcome' = "error" /\ UNCHANGED loaded
       ELSE outcome' = "loaded" /\ loaded' = Some(Loaded)
    /\ UNCHANGED <<programVars, found, document>>

(* The end of visit_map: four fields, two lengths, nothing else. *)
EndOfMap ==
    /\ outcome = "reading"
    /\ IF \/ \E f \in Field : found[f] = None
          \/ Len(found["state"][1]) # LaneCount
          \/ Len(found["buffer"][1]) # BufferLen
       THEN outcome' = "error" /\ UNCHANGED loaded
       ELSE outcome' = "loaded" /\ loaded' = Some(Loaded)
    /\ UNCHANGED <<programVars, found, document>>

AllSaved == \A k \in DOMAIN document : document[k] = <<document[k][1], saved[document[k][1]]>>

(* The program takes what it was given, and goes on without it otherwise. *)
TakeUp ==
    /\ outcome \in {"loaded", "error"}
    /\ IF outcome = "loaded"
       THEN held' = loaded[1] /\ altered' = (savedAltered \/ ~AllSaved)
       ELSE UNCHANGED <<held, altered>>
    /\ outcome' = "none" /\ found' = NothingFound /\ loaded' = None /\ document' = <<>>
    /\ UNCHANGED <<saved, savedOf, savedAltered>>

Next ==
    \/ \E s \in States : FillIn(s)
    \/ ResetState \/ Save
    \/ \E keyed \in BOOLEAN : Restart(keyed)
    \/ \E f \in Field : \E v \in {saved[f]} \cup Strange[f] : NextEntry(f, v)
    \/ MalformedEntry
    \/ EndOfMap
    \/ TakeUp

Spec == Init /\ [][Next]_vars
-----------------------------------------------------------------------------
(* What is loaded has two whole arrays, whatever document it came from.    *)
TypeOK ==
    /\ held \in Sha3State /\ savedOf \in Sha3State /\ DOMAIN saved = Field
    /\ altered \in BOOLEAN /\ savedAltered \in BOOLEAN
    /\ outcome \in {"none", "reading", "loaded", "error"}
    /\ IF outcome = "loaded" THEN loaded[1] \in Sha3State ELSE loaded = None

Lasts(f) == {k \in DOMAIN document :
    document[k][1] = f /\ \A m \in DOMAIN document : m > k => document[m][1] # f}

LastOf(f) == document[(CHOOSE k \in Lasts(f) : TRUE)][2]

(* A state is loaded from a document exactly if each of the four fields is *)
(* in it, in any order and however often, and the last state and buffer    *)
(* have the right lengths; it has the last value of each field, whatever   *)
(* pos and rate say of each other (lib.rs, visit_map).                     *)
AcceptsWholeStates ==
    outcome \in {"loaded", "error"} =>
        LET whole == /\ \A f \in Field : Lasts(f) # {}
                     /\ Len(LastOf("state")) = LaneCount
                     /\ Len(LastOf("buffer")) = BufferLen
        IN  /\ (outcome = "loaded") = whole
            /\ whole => loaded[1] = [state |-> LastOf("state"), pos |-> LastOf("pos"),
                                     rate |-> LastOf("rate"), buffer |-> LastOf("buffer")]

(* A document whose entries are those that were saved gives back the state *)
(* they were saved of, in whatever order and however often they come, or   *)
(* none (lib.rs, state_serde: Serialize and visit_map).                    *)
RestoresWhatWasSaved ==
    outcome = "loaded" /\ AllSaved => loaded[1] = savedOf

(* pos is below the rate, as the struct says and Deserialize does not      *)
(* check, in every state held, saved or reset, any number of times, since  *)
(* an altered document was last loaded (lib.rs, Sha3_512State).            *)
PosBelowRate == ~altered => held.pos < held.rate
=============================================================================
