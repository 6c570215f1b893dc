-------------------------- MODULE StateSerdeProofs --------------------------
(***************************************************************************)
(* Saving a state and loading it, for every number of lanes, buffer        *)
(* length, content and document: a state is loaded exactly from a document *)
(* that holds one, and is the one that was saved if the entries are.       *)
(***************************************************************************)
EXTENDS StateSerde, SequenceTheorems, TLAPS

Value == Nat \cup Seq(Nat)

(* The program's state, and the one the saved fields were written of.      *)
ProgramInv ==
    /\ held \in Sha3State /\ savedOf \in Sha3State /\ saved = Serialized(savedOf)
    /\ altered \in BOOLEAN /\ savedAltered \in BOOLEAN
    /\ ~altered => held.pos < held.rate
    /\ ~savedAltered => savedOf.pos < savedOf.rate

(* A value in an entry has the type of its field, whatever it is.          *)
Typed(e) ==
    /\ e[1] \in {"pos", "rate"} => e[2] \in Nat
    /\ e[1] \in {"state", "buffer"} => e[2] \in Seq(Nat)

(* The Options hold the last value of each field of what was read.         *)
FoundInv ==
    /\ outcome \in {"none", "reading", "loaded", "error"}
    /\ document \in Seq(Field \X Value) /\ \A k \in DOMAIN document : Typed(document[k])
    /\ found \in [Field -> {None} \cup {Some(v) : v \in Value}]
    /\ outcome # "error" => \A f \in Field :
           /\ (found[f] = None) = (Lasts(f) = {})
           /\ \A k \in Lasts(f) : found[f] = Some(document[k][2])

(* What was loaded is what the Options held at the end of the map.         *)
LoadedInv ==
    /\ outcome = "none" => found = NothingFound /\ document = <<>>
    /\ outcome # "loaded" => loaded = None
    /\ outcome = "loaded" =>
           (\A f \in Field : found[f] # None) /\ loaded = Some(Loaded) /\ Loaded \in Sha3State

SerdeInv == ProgramInv /\ FoundInv /\ LoadedInv /\ AcceptsWholeStates

(***************************************************************************)
(* Saved fields.                                                           *)
(***************************************************************************)
LEMMA SeqIsFunction ==
    ASSUME NEW n \in Nat, NEW s \in Seq(Nat)
    PROVE  Len(s) = n => s \in [1..n -> Nat]
BY ElementOfSeq, LenProperties, SeqDef

LEMMA FunctionIsSeq ==
    ASSUME NEW n \in Nat, NEW s \in [1..n -> Nat]
    PROVE  s \in Seq(Nat)
BY SeqDef

LEMMA SerializedState ==
    ASSUME NEW s \in Sha3State
    PROVE  /\ s = Serialized(s) /\ DOMAIN Serialized(s) = Field
           /\ \A f \in Field : Serialized(s)[f] \in Value /\ Typed(<<f, Serialized(s)[f]>>)
<1>1. s = [state |-> s.state, pos |-> s.pos, rate |-> s.rate, buffer |-> s.buffer]
  BY DEF Sha3State
<1>2. s.pos \in Nat /\ s.rate \in Nat /\ s.state \in Seq(Nat) /\ s.buffer \in Seq(Nat)
  BY SerdeAssumption, FunctionIsSeq DEF Sha3State
<1>3. DOMAIN Serialized(s) = Field
  BY DEF Serialized, Field
<1>4. ASSUME NEW f \in Field
      PROVE  Serialized(s)[f] \in Value /\ Typed(<<f, Serialized(s)[f]>>)
  BY <1>2 DEF Serialized, Field, Value, Typed
<1> QED BY <1>1, <1>3, <1>4 DEF Serialized

(* The state whose fields were saved is the one that is loaded from them.  *)
LEMMA LoadedIsSaved ==
    ASSUME ProgramInv, FoundInv, LoadedInv, outcome = "loaded", AllSaved
    PROVE  loaded[1] = savedOf
<1>1. ASSUME NEW f \in Field PROVE found[f] = Some(saved[f])
  <2>1. PICK k \in Lasts(f) : found[f] = Some(document[k][2])
    BY DEF FoundInv, LoadedInv
  <2>2. k \in DOMAIN document /\ document[k][1] = f
    BY <2>1 DEF Lasts
  <2>3. document[k] = <<document[k][1], saved[document[k][1]]>>
    BY <2>2 DEF AllSaved
  <2> QED BY <2>1, <2>2, <2>3
<1>2. Loaded = [state |-> saved["state"], pos |-> saved["pos"], rate |-> saved["rate"],
                buffer |-> saved["buffer"]]
  BY <1>1 DEF Loaded, Field, Some
<1>3. saved = savedOf /\ savedOf \in Sha3State
  BY SerializedState DEF ProgramInv
<1> QED BY <1>2, <1>3 DEF LoadedInv, Some, Sha3State

(***************************************************************************)
(* Documents.                                                              *)
(***************************************************************************)
(* The entry read last is the last of its field, and of no other.          *)
LEMMA LastsStep ==
    ASSUME NEW f \in Field, NEW v \in Value, document \in Seq(Field \X Value),
           document' = Append(document, <<f, v>>), NEW g \in Field
    PROVE  /\ document' \in Seq(Field \X Value) /\ Len(document') = Len(document) + 1
           /\ Lasts(g)' = IF g = f THEN {Len(document) + 1} ELSE Lasts(g)
           /\ \A k \in Lasts(g) : document'[k] = document[k]
           /\ document'[Len(document) + 1] = <<f, v>>
<1>1. /\ document' \in Seq(Field \X Value) /\ Len(document') = Len(document) + 1
      /\ Len(document) \in Nat
      /\ \A k \in 1..Len(document) : document'[k] = document[k]
      /\ document'[Len(document) + 1] = <<f, v>>
  <2>1. <<f, v>> \in Field \X Value
    OBVIOUS
  <2> QED BY <2>1, AppendProperties, LenProperties
<1>2. DOMAIN document = 1..Len(document) /\ DOMAIN document' = 1..(Len(document) + 1)
  BY <1>1, LenProperties
<1>3. Lasts(g) \subseteq 1..Len(document)
  BY <1>2 DEF Lasts
<1>4. ASSUME NEW k \in 1..(Len(document) + 1)
      PROVE  k \in Lasts(g)' <=> (IF g = f THEN k = Len(document) + 1 ELSE k \in Lasts(g))
  <2>1. document'[Len(document) + 1][1] = f
    BY <1>1
  <2>2. k \in Lasts(g)' <=>
           /\ document'[k][1] = g
           /\ \A m \in 1..(Len(document) + 1) : m > k => document'[m][1] # g
    BY <1>2 DEF Lasts
  <2>3. CASE k = Len(document) + 1
    <3>1. k \notin Lasts(g)
      BY <1>1, <1>3, <2>3
    <3>2. \A m \in 1..(Len(document) + 1) : ~(m > k)
      BY <1>1, <2>3
    <3> QED BY <2>1, <2>2, <2>3, <3>1, <3>2
  <2>4. CASE k # Len(document) + 1
    <3>1. k \in 1..Len(document)
      BY <1>1, <2>4
    <3>2. CASE g = f
      <4>1. k \notin Lasts(g)'
        BY <1>1, <2>1, <2>2, <3>1, <3>2
      <4> QED BY <2>4, <3>2, <4>1
    <3>3. CASE g # f
      <4>1. k \in Lasts(g) <=>
               /\ document[k][1] = g
               /\ \A m \in 1..Len(document) : m > k => document[m][1] # g
        BY <1>2, <3>1 DEF Lasts
      <4>2. (\A m \in 1..(Len(document) + 1) : m > k => document'[m][1] # g)
               <=> (\A m \in 1..Len(document) : m > k => document[m][1] # g)
        BY <1>1, <2>1, <3>1, <3>3
      <4> QED BY <1>1, <2>2, <3>1, <3>3, <4>1, <4>2
    <3> QED BY <3>2, <3>3
  <2> QED BY <2>3, <2>4
<1>5. Lasts(g)' \subseteq 1..(Len(document) + 1)
  BY <1>2 DEF Lasts
<1>6. Lasts(g)' = IF g = f THEN {Len(document) + 1} ELSE Lasts(g)
  <2>1. Len(document) + 1 \in 1..(Len(document) + 1) /\ 1..Len(document) \subseteq 1..(Len(document) + 1)
    BY <1>1
  <2>2. CASE g = f
    BY <1>4, <1>5, <2>1, <2>2
  <2>3. CASE g # f
    BY <1>3, <1>4, <1>5, <2>1, <2>3
  <2> QED BY <2>2, <2>3
<1>7. ASSUME NEW k \in Lasts(g) PROVE document'[k] = document[k]
  BY <1>1, <1>3
<1> QED BY <1>1, <1>6, <1>7

LEMMA NoLasts == ASSUME document = <<>>, NEW f PROVE Lasts(f) = {}
BY DEF Lasts

LEMMA NoFields == NothingFound \in [Field -> {None} \cup {Some(v) : v \in Value}]
                  /\ \A f \in Field : NothingFound[f] = None
BY DEF NothingFound

(* What AcceptsWholeStates says follows from the Options, where they tell  *)
(* the last values.                                                        *)
LEMMA FoundIsLast ==
    ASSUME FoundInv, outcome # "error", NEW f \in Field, found[f] # None
    PROVE  Lasts(f) # {} /\ found[f][1] = LastOf(f)
<1>1. Lasts(f) # {} /\ \A k \in Lasts(f) : found[f] = Some(document[k][2])
  BY DEF FoundInv
<1>2. (CHOOSE k \in Lasts(f) : TRUE) \in Lasts(f)
  BY <1>1
<1> QED BY <1>1, <1>2 DEF LastOf, Some

LEMMA LastTyped ==
    ASSUME FoundInv, NEW f \in Field, Lasts(f) # {}
    PROVE  /\ f \in {"pos", "rate"} => LastOf(f) \in Nat
           /\ f \in {"state", "buffer"} => LastOf(f) \in Seq(Nat)
<1> DEFINE k == CHOOSE k \in Lasts(f) : TRUE
<1>1. k \in Lasts(f)
  OBVIOUS
<1>2. k \in DOMAIN document /\ document[k][1] = f
  BY <1>1 DEF Lasts
<1> QED BY <1>2 DEF FoundInv, Typed, LastOf

LEMMA NewStateType == NewState \in Sha3State /\ NewState.pos < NewState.rate
BY SerdeAssumption DEF NewState, Sha3State

LEMMA SerdeInitInv == Init => SerdeInv
<1> SUFFICES ASSUME Init PROVE SerdeInv
  OBVIOUS
<1>1. ProgramInv
  BY NewStateType DEF Init, ProgramInv
<1>2. FoundInv /\ LoadedInv /\ AcceptsWholeStates
  <2>1. outcome = "none" /\ found = NothingFound /\ loaded = None /\ document = <<>>
    BY DEF Init
  <2>2. document \in Seq(Field \X Value) /\ DOMAIN document = {}
    BY <2>1, EmptySeq
  <2> QED
    BY <2>1, <2>2, NoLasts, NoFields DEF FoundInv, LoadedInv, AcceptsWholeStates
<1> QED BY <1>1, <1>2 DEF SerdeInv

LEMMA ProgramUnchanged == ProgramInv /\ UNCHANGED programVars => ProgramInv'
BY DEF ProgramInv, programVars

(* The program takes up a state whose entries are its own, or remembers    *)
(* that it did not.                                                        *)
LEMMA TakeUpKeeps ==
    ASSUME ProgramInv, FoundInv, LoadedInv, TakeUp
    PROVE  ProgramInv'
<1>1. UNCHANGED <<saved, savedOf, savedAltered>>
  BY DEF TakeUp
<1>2. CASE outcome = "loaded"
  <2>1. held' = loaded[1] /\ altered' = (savedAltered \/ ~AllSaved)
    BY <1>2 DEF TakeUp
  <2>2. held' \in Sha3State
    BY <1>2, <2>1 DEF LoadedInv, Some
  <2>3. ~altered' => held'.pos < held'.rate
    BY <1>2, <2>1, LoadedIsSaved DEF ProgramInv
  <2>4. altered' \in BOOLEAN
    BY <2>1 DEF ProgramInv
  <2> QED BY <1>1, <2>2, <2>3, <2>4 DEF ProgramInv
<1>3. CASE outcome # "loaded"
  BY <1>1, <1>3 DEF TakeUp, ProgramInv
<1> QED BY <1>2, <1>3

(* Steps that leave the visitor alone, or begin or end with it.            *)
LEMMA VisitorUnchanged ==
    FoundInv /\ LoadedInv /\ AcceptsWholeStates /\ UNCHANGED <<outcome, found, loaded, document>>
        => (FoundInv /\ LoadedInv /\ AcceptsWholeStates)'
<1> SUFFICES ASSUME FoundInv, LoadedInv, AcceptsWholeStates,
                    UNCHANGED <<outcome, found, loaded, document>>
             PROVE  (FoundInv /\ LoadedInv /\ AcceptsWholeStates)'
  OBVIOUS
<1>1. \A f : Lasts(f)' = Lasts(f) /\ LastOf(f)' = LastOf(f)
  BY DEF Lasts, LastOf
<1>2. FoundInv'
  BY <1>1 DEF FoundInv
<1>3. LoadedInv'
  BY DEF LoadedInv, Loaded
<1>4. AcceptsWholeStates'
  BY <1>1 DEF AcceptsWholeStates
<1> QED BY <1>2, <1>3, <1>4

LEMMA EmptyDocument ==
    ASSUME document' = <<>>, loaded' = None, outcome' \in {"none", "reading", "error"},
           found' \in [Field -> {None} \cup {Some(v) : v \in Value}],
           outcome' # "error" => found' = NothingFound
    PROVE  (FoundInv /\ LoadedInv /\ AcceptsWholeStates)'
<1>1. document' \in Seq(Field \X Value) /\ DOMAIN document' = {}
  BY EmptySeq
<1>2. ASSUME NEW f PROVE Lasts(f)' = {}
  BY DEF Lasts
<1>3. FoundInv'
  BY <1>1, <1>2, NoFields DEF FoundInv
<1>4. LoadedInv'
  BY DEF LoadedInv
<1>5. AcceptsWholeStates'
  <2>1. "state" \in Field
    BY DEF Field
  <2> QED BY <1>2, <2>1 DEF AcceptsWholeStates
<1> QED BY <1>3, <1>4, <1>5

LEMMA NextEntryKeeps ==
    ASSUME FoundInv, LoadedInv, NEW f \in Field, NEW v \in Value, Typed(<<f, v>>),
           NextEntry(f, v)
    PROVE  (FoundInv /\ LoadedInv /\ AcceptsWholeStates)'
<1>1. /\ outcome = "reading" /\ outcome' = "reading" /\ loaded' = loaded
      /\ document' = Append(document, <<f, v>>)
      /\ found' = [found EXCEPT ![f] = Some(v)]
  BY DEF NextEntry
<1>2. document \in Seq(Field \X Value)
  BY DEF FoundInv
<1>3. found' \in [Field -> {None} \cup {Some(w) : w \in Value}]
  BY <1>1 DEF FoundInv
<1>4. /\ document' \in Seq(Field \X Value) /\ Len(document') = Len(document) + 1
      /\ document'[Len(document) + 1] = <<f, v>>
  BY <1>1, <1>2, LastsStep
<1>5. \A k \in DOMAIN document' : Typed(document'[k])
  <2>0. <<f, v>> \in Field \X Value
    OBVIOUS
  <2>1. /\ DOMAIN document' = 1..(Len(document) + 1) /\ Len(document) \in Nat
        /\ DOMAIN document = 1..Len(document)
        /\ \A k \in 1..Len(document) : document'[k] = document[k]
    BY <1>1, <1>2, <1>4, <2>0, AppendProperties, LenProperties
  <2>2. \A k \in 1..Len(document) : Typed(document[k])
    BY <2>1 DEF FoundInv
  <2>3. ASSUME NEW k \in 1..(Len(document) + 1) PROVE Typed(document'[k])
    <3>1. CASE k = Len(document) + 1
      BY <1>4, <3>1
    <3>2. CASE k # Len(document) + 1
      <4>1. k \in 1..Len(document)
        BY <2>1, <3>2
      <4>2. document'[k] = document[k] /\ Typed(document[k])
        BY <2>1, <2>2, <4>1
      <4> QED BY <4>2
    <3> QED BY <3>1, <3>2
  <2> QED BY <2>1, <2>3
<1>6. ASSUME NEW g \in Field
      PROVE  /\ (found'[g] = None) = (Lasts(g)' = {})
             /\ \A k \in Lasts(g)' : found'[g] = Some(document'[k][2])
  <2>1. /\ Lasts(g)' = IF g = f THEN {Len(document) + 1} ELSE Lasts(g)
        /\ \A k \in Lasts(g) : document'[k] = document[k]
    BY <1>1, <1>2, LastsStep
  <2>2. CASE g = f
    <3>1. found'[g] = Some(v) /\ Some(v) # None
      BY <1>1, <2>2 DEF FoundInv, Some, None
    <3> QED BY <1>4, <2>1, <2>2, <3>1
  <2>3. CASE g # f
    <3>1. found'[g] = found[g]
      BY <1>1, <2>3 DEF FoundInv
    <3> QED BY <1>1, <2>1, <2>3, <3>1 DEF FoundInv
  <2> QED BY <2>2, <2>3
<1>7. FoundInv'
  BY <1>1, <1>3, <1>4, <1>5, <1>6 DEF FoundInv
<1>8. LoadedInv' /\ AcceptsWholeStates'
  BY <1>1 DEF LoadedInv, AcceptsWholeStates
<1> QED BY <1>7, <1>8

LEMMA EndOfMapKeeps ==
    ASSUME FoundInv, LoadedInv, EndOfMap
    PROVE  (FoundInv /\ LoadedInv /\ AcceptsWholeStates)'
<1>1. outcome = "reading" /\ UNCHANGED <<found, document>> /\ outcome' \in {"loaded", "error"}
  BY DEF EndOfMap
<1>2. FoundInv'
  BY <1>1 DEF FoundInv, Lasts
<1>3. \A f \in Field : Lasts(f)' = Lasts(f) /\ LastOf(f)' = LastOf(f)
  BY <1>1 DEF Lasts, LastOf
<1>4. "state" \in Field /\ "pos" \in Field /\ "rate" \in Field /\ "buffer" \in Field
  BY DEF Field
<1>5. CASE \E f \in Field : found[f] = None
  <2>1. outcome' = "error" /\ loaded' = None
    BY <1>1, <1>5 DEF EndOfMap, LoadedInv
  <2>2. \E f \in Field : Lasts(f) = {}
    BY <1>1, <1>5 DEF FoundInv
  <2> QED BY <1>2, <1>3, <2>1, <2>2 DEF LoadedInv, AcceptsWholeStates
<1>6. CASE \A f \in Field : found[f] # None
  <2>1. \A f \in Field : Lasts(f) # {} /\ found[f][1] = LastOf(f)
    BY <1>1, <1>6, FoundIsLast
  <2>2. CASE Len(LastOf("state")) = LaneCount /\ Len(LastOf("buffer")) = BufferLen
    <3>1. outcome' = "loaded" /\ loaded' = Some(Loaded)
      BY <1>4, <1>6, <2>1, <2>2 DEF EndOfMap
    <3>2. Loaded = [state |-> LastOf("state"), pos |-> LastOf("pos"),
                    rate |-> LastOf("rate"), buffer |-> LastOf("buffer")]
      BY <1>4, <2>1 DEF Loaded
    <3>3. Loaded \in Sha3State
      <4>1. /\ LastOf("pos") \in Nat /\ LastOf("rate") \in Nat
            /\ LastOf("state") \in Seq(Nat) /\ LastOf("buffer") \in Seq(Nat)
        BY <1>1, <1>4, <2>1, LastTyped
      <4>2. LastOf("state") \in [1..LaneCount -> Nat] /\ LastOf("buffer") \in [1..BufferLen -> Nat]
        BY <2>2, <4>1, SeqIsFunction, SerdeAssumption
      <4> QED BY <3>2, <4>1, <4>2 DEF Sha3State
    <3>4. LoadedInv'
      BY <1>1, <1>6, <3>1, <3>3 DEF LoadedInv, Loaded
    <3>5. AcceptsWholeStates'
      BY <1>3, <1>4, <2>1, <2>2, <3>1, <3>2 DEF AcceptsWholeStates, Some
    <3> QED BY <1>2, <3>4, <3>5
  <2>3. CASE ~(Len(LastOf("state")) = LaneCount /\ Len(LastOf("buffer")) = BufferLen)
    <3>1. outcome' = "error" /\ loaded' = None
      BY <1>1, <1>4, <2>1, <2>3 DEF EndOfMap, LoadedInv
    <3> QED BY <1>2, <1>3, <1>4, <2>3, <3>1 DEF LoadedInv, AcceptsWholeStates
  <2> QED BY <2>2, <2>3
<1> QED BY <1>5, <1>6

(* A value in an entry is one that was saved, or one of the strange ones.  *)
LEMMA EntryType ==
    ASSUME ProgramInv, NEW f \in Field, NEW v \in {saved[f]} \cup Strange[f]
    PROVE  v \in Value /\ Typed(<<f, v>>)
<1>1. saved[f] \in Value /\ Typed(<<f, saved[f]>>)
  BY SerializedState DEF ProgramInv
<1>2. CASE v \in Strange[f]
  <2>1. f \in {"pos", "rate"} => v \in Nat
    BY <1>2, SerdeAssumption
  <2>2. f \in {"state", "buffer"} => v \in Seq(Nat)
    BY <1>2, SerdeAssumption
  <2> QED BY <2>1, <2>2 DEF Field, Value, Typed
<1> QED BY <1>1, <1>2

LEMMA SerdeNextInv == SerdeInv /\ [Next]_vars => SerdeInv'
<1> SUFFICES ASSUME SerdeInv, [Next]_vars PROVE SerdeInv'
  OBVIOUS
<1> USE DEF SerdeInv
<1>1. ASSUME NEW s \in States, FillIn(s) PROVE SerdeInv'
  <2>1. ProgramInv'
    BY <1>1, SerdeAssumption DEF FillIn, ProgramInv
  <2> QED BY <1>1, <2>1, VisitorUnchanged DEF FillIn
<1>2. CASE ResetState
  <2>0. /\ held' = [state |-> NewState.state, pos |-> 0, rate |-> held.rate,
                    buffer |-> NewState.buffer]
        /\ UNCHANGED <<saved, savedOf, altered, savedAltered>>
    BY <1>2 DEF ResetState, NewState
  <2>1. ProgramInv'
    <3>1. held.rate \in Nat /\ held.pos \in Nat
      BY DEF ProgramInv, Sha3State
    <3>2. held' \in Sha3State
      BY <2>0, <3>1, NewStateType DEF Sha3State
    <3> QED BY <2>0, <3>1, <3>2 DEF ProgramInv
  <2> QED BY <1>2, <2>1, VisitorUnchanged DEF ResetState
<1>3. CASE Save
  <2>1. ProgramInv'
    BY <1>3 DEF Save, ProgramInv
  <2> QED BY <1>3, <2>1, VisitorUnchanged DEF Save
<1>4. ASSUME NEW keyed \in BOOLEAN, Restart(keyed) PROVE SerdeInv'
  <2>1. /\ outcome = "none" /\ outcome' \in {"reading", "error"}
        /\ UNCHANGED <<found, loaded, document>>
    BY <1>4 DEF Restart
  <2>2. (FoundInv /\ LoadedInv /\ AcceptsWholeStates)'
    BY <2>1, EmptyDocument, NoFields DEF LoadedInv
  <2>3. ProgramInv'
    BY <1>4, NewStateType DEF Restart, ProgramInv
  <2> QED BY <2>2, <2>3
<1>5. ASSUME NEW f \in Field, NEW v \in {saved[f]} \cup Strange[f], NextEntry(f, v)
      PROVE  SerdeInv'
  <2>1. v \in Value /\ Typed(<<f, v>>)
    BY EntryType
  <2>2. ProgramInv'
    BY <1>5, ProgramUnchanged DEF NextEntry
  <2> QED BY <1>5, <2>1, <2>2, NextEntryKeeps
<1>6. CASE MalformedEntry
  <2>1. ProgramInv'
    BY <1>6, ProgramUnchanged DEF MalformedEntry
  <2>2. /\ document' = <<>> /\ loaded' = None /\ outcome' = "error"
        /\ found' \in [Field -> {None} \cup {Some(v) : v \in Value}]
    BY <1>6 DEF MalformedEntry, LoadedInv, FoundInv
  <2> QED BY <2>1, <2>2, EmptyDocument
<1>7. CASE EndOfMap
  <2>1. ProgramInv'
    BY <1>7, ProgramUnchanged DEF EndOfMap
  <2> QED BY <1>7, <2>1, EndOfMapKeeps
<1>8. CASE TakeUp
  <2>1. /\ document' = <<>> /\ loaded' = None /\ outcome' = "none"
        /\ found' = NothingFound
    BY <1>8 DEF TakeUp
  <2>2. (FoundInv /\ LoadedInv /\ AcceptsWholeStates)'
    BY <2>1, EmptyDocument, NoFields
  <2> QED BY <1>8, <2>2, TakeUpKeeps
<1>9. CASE UNCHANGED vars
  BY <1>9, ProgramUnchanged, VisitorUnchanged DEF vars, programVars
<1> QED BY <1>1, <1>2, <1>3, <1>4, <1>5, <1>6, <1>7, <1>8, <1>9 DEF Next

(* Every reachable state satisfies the strengthened invariant.             *)
THEOREM SerdeInvariance == Spec => []SerdeInv
BY SerdeInitInv, SerdeNextInv, PTL DEF Spec

(* Whatever document it came from, a loaded state has two whole arrays.    *)
THEOREM LoadedIsWhole == Spec => []TypeOK
<1>1. SerdeInv => TypeOK
  <2> SUFFICES ASSUME SerdeInv PROVE TypeOK
    OBVIOUS
  <2>1. DOMAIN saved = Field
    BY SerializedState DEF SerdeInv, ProgramInv
  <2>2. IF outcome = "loaded" THEN loaded[1] \in Sha3State ELSE loaded = None
    BY DEF SerdeInv, LoadedInv, Some
  <2> QED BY <2>1, <2>2 DEF TypeOK, SerdeInv, ProgramInv, FoundInv
<1> QED BY <1>1, SerdeInvariance, PTL

(* visit_map loads exactly the documents with four fields of the right     *)
(* lengths, and takes the last value of each.                              *)
THEOREM WholeStatesAccepted == Spec => []AcceptsWholeStates
<1>1. SerdeInv => AcceptsWholeStates
  BY DEF SerdeInv
<1> QED BY <1>1, SerdeInvariance, PTL

(* What Serialize wrote, visit_map gives back, in whatever order and       *)
(* however often the entries come.                                         *)
THEOREM SavedIsRestored == Spec => []RestoresWhatWasSaved
<1>1. SerdeInv => RestoresWhatWasSaved
  BY LoadedIsSaved DEF SerdeInv, RestoresWhatWasSaved
<1> QED BY <1>1, SerdeInvariance, PTL

(* Only an altered document brings a pos that is not below the rate.       *)
THEOREM PosStaysBelowRate == Spec => []PosBelowRate
<1>1. SerdeInv => PosBelowRate
  BY DEF SerdeInv, ProgramInv, PosBelowRate
<1> QED BY <1>1, SerdeInvariance, PTL
=============================================================================
