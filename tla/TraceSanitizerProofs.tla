------------------------- MODULE TraceSanitizerProofs -------------------------
(***************************************************************************)
(* A reduced log is its own reduction, and what is correlated in a log is  *)
(* correlated in its reduction.  Both rest on the numbering of the ids: it *)
(* tells different ids apart, and it numbers the numbered ids as they are. *)
(***************************************************************************)
EXTENDS TraceSanitizer, AccountingProofs

-----------------------------------------------------------------------------
(***************************************************************************)
(* The numbering of ids.                                                   *)
(***************************************************************************)

\* Each id has a first place.
LEMMA FirstPlace ==
    ASSUME NEW ids, DOMAIN ids \in SUBSET (Nat \X Nat), IsFiniteSet(DOMAIN ids), NEW id \in Range(ids)
    PROVE  \E p \in DOMAIN ids : ids[p] = id /\ \A q \in DOMAIN ids : ids[q] = id => ~Precedes(q, p)
<1> DEFINE S == {p \in DOMAIN ids : ids[p] = id}
<1>1. S \in SUBSET (Nat \X Nat) /\ IsFiniteSet(S) /\ S # {}
  BY FS_Subset DEF Range
<1> HIDE DEF S
<1>2. Cardinality(S) \in Nat /\ 1 \in 1 .. Cardinality(S)
  <2>1. Cardinality(S) \in Nat
    BY <1>1, FS_CardinalityType
  <2>2. Cardinality(S) # 0
    BY <1>1, FS_EmptySet
  <2> QED
    BY <2>1, <2>2
<1>3. PICK p \in S : Cardinality(Preceding(S, p)) = 0
  <2>1. InOrder(S)[1] \in S /\ Cardinality(Preceding(S, InOrder(S)[1])) = 1 - 1
    BY <1>1, <1>2, ListedInOrder
  <2> QED
    BY <2>1
<1>4. Preceding(S, p) = {}
  <2>1. IsFiniteSet(Preceding(S, p))
    BY <1>1, RankGrows
  <2> QED
    BY <1>3, <2>1, FS_EmptySet
<1> QED
  BY <1>4 DEF S, Preceding

\* An id that comes before another is named before it.
LEMMA NamedBefore ==
    ASSUME NEW ids, DOMAIN ids \in SUBSET (Nat \X Nat), IsFiniteSet(DOMAIN ids),
           NEW a \in Range(ids), NEW b \in Range(ids), a # b
    PROVE  \/ NamedWith(ids, a) \subseteq NamedWith(ids, b) /\ b \notin NamedWith(ids, a)
           \/ NamedWith(ids, b) \subseteq NamedWith(ids, a) /\ a \notin NamedWith(ids, b)
<1>1. ASSUME NEW c \in Range(ids), NEW d \in Range(ids),
             NEW p \in DOMAIN ids, ids[p] = c, \A r \in DOMAIN ids : ids[r] = c => ~Precedes(r, p),
             NEW q \in DOMAIN ids, ids[q] = d, \A r \in DOMAIN ids : ids[r] = d => ~Precedes(r, q),
             Precedes(p, q)
      PROVE  NamedWith(ids, c) \subseteq NamedWith(ids, d) /\ d \notin NamedWith(ids, c)
  <2>1. ASSUME NEW r \in DOMAIN ids, \A s \in DOMAIN ids : ids[s] = c => ~Precedes(s, r)
        PROVE  r = p \/ Precedes(r, p)
    BY <1>1, <2>1, PlacesOrdered
  <2>2. ASSUME NEW r \in DOMAIN ids, r = p \/ Precedes(r, p)
        PROVE  /\ \A s \in DOMAIN ids : ids[s] = d => ~Precedes(s, r)
               /\ ids[r] # d
    <3>1. Precedes(r, q)
      BY <1>1, <2>2, PlacesOrdered
    <3>2. ASSUME NEW s \in DOMAIN ids, ids[s] = d PROVE ~Precedes(s, r) /\ s # r
      <4>1. s = q \/ Precedes(q, s)
        BY <1>1, <3>2, PlacesOrdered
      <4> QED
        BY <3>1, <4>1, PlacesOrdered
    <3> QED
      BY <3>2
  <2> QED
    BY <2>1, <2>2 DEF NamedWith
<1>2. PICK p \in DOMAIN ids : ids[p] = a /\ \A q \in DOMAIN ids : ids[q] = a => ~Precedes(q, p)
  BY FirstPlace
<1>3. PICK q \in DOMAIN ids : ids[q] = b /\ \A r \in DOMAIN ids : ids[r] = b => ~Precedes(r, q)
  BY FirstPlace
<1>4. CASE Precedes(p, q)
  BY <1>1, <1>2, <1>3, <1>4
<1>5. CASE Precedes(q, p)
  BY <1>1, <1>2, <1>3, <1>5
<1> QED
  BY <1>2, <1>3, <1>4, <1>5, PlacesOrdered

\* Each id is among those named with it, and no two have the same number.
LEMMA Numbered ==
    ASSUME NEW ids, DOMAIN ids \in SUBSET (Nat \X Nat), IsFiniteSet(DOMAIN ids)
    PROVE  /\ IsFiniteSet(Range(ids)) /\ Cardinality(Range(ids)) <= Cardinality(DOMAIN ids)
           /\ Cardinality(Range(ids)) \in Nat
           /\ \A a \in Range(ids) :
                 /\ NamedWith(ids, a) \subseteq Range(ids)
                 /\ Cardinality(NamedWith(ids, a)) \in 1 .. Cardinality(Range(ids))
           /\ \A a, b \in Range(ids) :
                 Cardinality(NamedWith(ids, a)) = Cardinality(NamedWith(ids, b)) => a = b
<1>1. /\ IsFiniteSet(Range(ids)) /\ Cardinality(Range(ids)) <= Cardinality(DOMAIN ids)
      /\ Cardinality(Range(ids)) \in Nat
  <2>1. Range(ids) = {ids[p] : p \in DOMAIN ids}
    BY DEF Range
  <2>2. [p \in DOMAIN ids |-> ids[p]] \in Surjection(DOMAIN ids, Range(ids))
    BY <2>1 DEF Surjection
  <2> QED
    BY <2>2, FS_Surjection, FS_CardinalityType
<1>2. ASSUME NEW a \in Range(ids)
      PROVE  /\ a \in NamedWith(ids, a) /\ NamedWith(ids, a) \subseteq Range(ids)
             /\ IsFiniteSet(NamedWith(ids, a))
             /\ Cardinality(NamedWith(ids, a)) \in 1 .. Cardinality(Range(ids))
  <2>1. a \in NamedWith(ids, a)
    BY FirstPlace DEF NamedWith
  <2>2. NamedWith(ids, a) \subseteq Range(ids)
    BY DEF NamedWith, Range
  <2>3. /\ IsFiniteSet(NamedWith(ids, a)) /\ Cardinality(NamedWith(ids, a)) \in Nat
        /\ Cardinality(NamedWith(ids, a)) <= Cardinality(Range(ids))
    BY <1>1, <2>2, FS_Subset, FS_CardinalityType
  <2>4. Cardinality(NamedWith(ids, a)) # 0
    BY <2>1, <2>3, FS_EmptySet
  <2> QED
    BY <1>1, <2>1, <2>2, <2>3, <2>4
<1>3. ASSUME NEW a \in Range(ids), NEW b \in Range(ids), a # b
      PROVE  Cardinality(NamedWith(ids, a)) # Cardinality(NamedWith(ids, b))
  <2>1. CASE NamedWith(ids, a) \subseteq NamedWith(ids, b) /\ b \notin NamedWith(ids, a)
    BY <1>2, <2>1, FS_Subset
  <2>2. CASE NamedWith(ids, b) \subseteq NamedWith(ids, a) /\ a \notin NamedWith(ids, b)
    BY <1>2, <2>2, FS_Subset
  <2> QED
    BY <1>3, <2>1, <2>2, NamedBefore
<1> QED
  BY <1>1, <1>2, <1>3

\* There is a pseudonym for each id.
LEMMA Suffice ==
    ASSUME NEW ids, DOMAIN ids \in SUBSET (Nat \X Nat), IsFiniteSet(DOMAIN ids),
           NEW T, Range(ids) \subseteq T, NEW S, NEW names \in Seq(S),
           NEW room \in Nat, Cardinality(DOMAIN ids) <= room, Enough(names, T, room)
    PROVE  Cardinality(Range(ids)) <= Len(names)
<1>1. /\ Cardinality(Range(ids)) \in Nat /\ Cardinality(DOMAIN ids) \in Nat /\ Len(names) \in Nat
      /\ Cardinality(Range(ids)) <= Cardinality(DOMAIN ids)
  BY Numbered, FS_CardinalityType
<1>2. CASE Len(names) >= room
  BY <1>1, <1>2
<1>3. CASE IsFiniteSet(T) /\ Cardinality(T) <= Len(names)
  <2>1. Cardinality(Range(ids)) <= Cardinality(T) /\ Cardinality(T) \in Nat
    BY <1>3, FS_Subset, FS_CardinalityType
  <2> QED
    BY <1>1, <1>3, <2>1
<1> QED
  BY <1>2, <1>3 DEF Enough

\* Different ids get different pseudonyms.
LEMMA Renamed ==
    ASSUME NEW ids, DOMAIN ids \in SUBSET (Nat \X Nat), IsFiniteSet(DOMAIN ids),
           NEW T, NEW names \in Seq(T), IsInjective(names), Cardinality(Range(ids)) <= Len(names)
    PROVE  /\ \A a \in Range(ids) :
                 Pseudonym(names, ids, a) \in T /\ Pseudonym(names, ids, a) = names[Cardinality(NamedWith(ids, a))]
           /\ \A a, b \in Range(ids) : Pseudonym(names, ids, a) = Pseudonym(names, ids, b) => a = b
<1>1. ASSUME NEW a \in Range(ids)
      PROVE  /\ Cardinality(NamedWith(ids, a)) \in DOMAIN names
             /\ Pseudonym(names, ids, a) = names[Cardinality(NamedWith(ids, a))]
             /\ Pseudonym(names, ids, a) \in T
  <2>1. /\ Cardinality(NamedWith(ids, a)) \in 1 .. Cardinality(Range(ids))
        /\ Cardinality(Range(ids)) \in Nat
    BY Numbered
  <2>2. Cardinality(NamedWith(ids, a)) \in 1 .. Len(names) /\ DOMAIN names = 1 .. Len(names)
    BY <2>1
  <2>3. Pseudonym(names, ids, a) = names[Cardinality(NamedWith(ids, a))]
    BY DEF Pseudonym
  <2> QED
    BY <2>2, <2>3
<1>2. ASSUME NEW a \in Range(ids), NEW b \in Range(ids),
             Pseudonym(names, ids, a) = Pseudonym(names, ids, b)
      PROVE  a = b
  <2>1. Cardinality(NamedWith(ids, a)) = Cardinality(NamedWith(ids, b))
    BY <1>1, <1>2 DEF IsInjective
  <2> QED
    BY <2>1, Numbered
<1> QED
  BY <1>1, <1>2

\* Numbering what is numbered changes nothing.
LEMMA Renumbered ==
    ASSUME NEW ids, DOMAIN ids \in SUBSET (Nat \X Nat), IsFiniteSet(DOMAIN ids),
           NEW T, NEW names \in Seq(T), IsInjective(names), Cardinality(Range(ids)) <= Len(names),
           NEW new, DOMAIN new = DOMAIN ids, \A p \in DOMAIN ids : new[p] = Pseudonym(names, ids, ids[p])
    PROVE  \A p \in DOMAIN ids : Pseudonym(names, new, new[p]) = new[p]
<1> SUFFICES ASSUME NEW p \in DOMAIN ids PROVE Pseudonym(names, new, new[p]) = new[p]
  OBVIOUS
<1> DEFINE a == ids[p]
           name == [x \in NamedWith(ids, a) |-> Pseudonym(names, ids, x)]
<1>1. DOMAIN new = DOMAIN ids /\ \A q \in DOMAIN ids : new[q] = Pseudonym(names, ids, ids[q])
  OBVIOUS
<1>2. \A q \in DOMAIN ids : ids[q] \in Range(ids)
  BY DEF Range
<1>3. \A q \in DOMAIN ids : new[q] = new[p] <=> ids[q] = a
  BY <1>1, <1>2, Renamed
<1>4. NamedWith(ids, a) \subseteq Range(ids) /\ IsFiniteSet(NamedWith(ids, a))
  BY <1>2, Numbered, FS_Subset
<1>5. NamedWith(new, new[p]) = {Pseudonym(names, ids, x) : x \in NamedWith(ids, a)}
  BY <1>1, <1>3 DEF NamedWith
<1>6. Cardinality(NamedWith(new, new[p])) = Cardinality(NamedWith(ids, a))
  <2>1. name \in [NamedWith(ids, a) -> NamedWith(new, new[p])]
    BY <1>5
  <2>2. \A x, y \in NamedWith(ids, a) : name[x] = name[y] => x = y
    BY <1>4, Renamed
  <2>3. \A t \in NamedWith(new, new[p]) : \E x \in NamedWith(ids, a) : name[x] = t
    BY <1>5
  <2> HIDE DEF name
  <2> QED
    BY <1>4, <2>1, <2>2, <2>3, SameSize
<1>7. new[p] \in Range(new)
  BY <1>1 DEF Range
<1>8. Pseudonym(names, new, new[p]) = names[Cardinality(NamedWith(new, new[p]))]
  BY <1>7 DEF Pseudonym
<1>9. new[p] = names[Cardinality(NamedWith(ids, a))]
  BY <1>1, <1>2, Renamed
<1> QED
  BY <1>6, <1>8, <1>9

-----------------------------------------------------------------------------
(***************************************************************************)
(* The ids of a file.                                                      *)
(***************************************************************************)

\* A file as the parser can have read it.
File(file) == file \in Seq(FileLines) /\ Len(file) <= MaxLines

LEMMA FileFields ==
    ASSUME NEW file, File(file)
    PROVE  /\ Len(file) \in Nat /\ DOMAIN file = 1 .. Len(file) /\ DOMAIN file \subseteq 1 .. MaxLines
           /\ \A n \in DOMAIN file :
                 /\ n \in Nat /\ file[n] \in FileLines /\ file[n].blocks \in Seq(Block)
                 /\ DOMAIN file[n].blocks \subseteq 1 .. MaxBlocks
                 /\ \A b \in DOMAIN file[n].blocks : file[n].blocks[b] \in Block
<1>1. /\ Len(file) \in Nat /\ DOMAIN file = 1 .. Len(file) /\ Len(file) <= MaxLines
      /\ \A n \in DOMAIN file : n \in Nat /\ file[n] \in FileLines
  BY DEF File
<1>2. ASSUME NEW n \in DOMAIN file
      PROVE  /\ file[n].blocks \in Seq(Block) /\ DOMAIN file[n].blocks \subseteq 1 .. MaxBlocks
             /\ \A b \in DOMAIN file[n].blocks : file[n].blocks[b] \in Block
  <2>1. file[n].blocks \in Seq(Block) /\ Len(file[n].blocks) \in 0 .. MaxBlocks
    BY <1>1, LineFields
  <2>2. DOMAIN file[n].blocks = 1 .. Len(file[n].blocks)
    BY <2>1
  <2> QED
    BY <2>1, <2>2, BoundAssumption, ElementOfSeq
<1> QED
  BY <1>1, <1>2, BoundAssumption

\* The numbers up to a bound.
LEMMA UpTo ==
    ASSUME NEW n \in Nat
    PROVE  IsFiniteSet(1 .. n) /\ Cardinality(1 .. n) = n
<1>1. n \in Int
  OBVIOUS
<1>2. IsFiniteSet(1 .. n) /\ Cardinality(1 .. n) = IF 1 > n THEN 0 ELSE n - 1 + 1
  BY <1>1, FS_Interval
<1> QED
  BY <1>2

\* What the sanitizer replaces, usable or not.
AnyCallIds == CallIds \cup BlankIds

\* The places of the ids of calls, and the pseudonyms for them.
LEMMA CallIdsNumbered ==
    ASSUME NEW file, File(file)
    PROVE  LET ids == CallIdsOf(file) IN
           /\ DOMAIN ids \in SUBSET (Nat \X Nat) /\ IsFiniteSet(DOMAIN ids)
           /\ Cardinality(Range(ids)) <= Len(CallPseudonyms)
           /\ Range(ids) \subseteq AnyCallIds
           /\ \A p : p \in DOMAIN ids <=>
                 /\ \E n \in DOMAIN file : p \in {n} \X DOMAIN file[n].blocks
                 /\ Kept(file[p[1]])
                 /\ file[p[1]].blocks[p[2]].kind \in {"tool_use", "tool_result"}
                 /\ file[p[1]].blocks[p[2]].id # NoCallId
           /\ \A p \in DOMAIN ids : ids[p] = file[p[1]].blocks[p[2]].id
<1> DEFINE ids == CallIdsOf(file)
<1>1. \A p : p \in DOMAIN ids <=>
         /\ \E n \in DOMAIN file : p \in {n} \X DOMAIN file[n].blocks
         /\ Kept(file[p[1]])
         /\ file[p[1]].blocks[p[2]].kind \in {"tool_use", "tool_result"}
         /\ file[p[1]].blocks[p[2]].id # NoCallId
  BY DEF CallIdsOf
<1>2. \A p \in DOMAIN ids : ids[p] = file[p[1]].blocks[p[2]].id
  BY DEF CallIdsOf
<1> HIDE DEF ids
<1>3. DOMAIN ids \subseteq (1 .. MaxLines) \X (1 .. MaxBlocks)
  BY <1>1, FileFields
<1>4. /\ IsFiniteSet((1 .. MaxLines) \X (1 .. MaxBlocks))
      /\ Cardinality((1 .. MaxLines) \X (1 .. MaxBlocks)) = MaxLines * MaxBlocks
      /\ MaxLines * MaxBlocks \in Nat
  <2>1. IsFiniteSet(1 .. MaxLines) /\ Cardinality(1 .. MaxLines) = MaxLines
    BY UpTo, BoundAssumption
  <2>2. IsFiniteSet(1 .. MaxBlocks) /\ Cardinality(1 .. MaxBlocks) = MaxBlocks
    BY UpTo, BoundAssumption
  <2>3. /\ IsFiniteSet((1 .. MaxLines) \X (1 .. MaxBlocks))
        /\ Cardinality((1 .. MaxLines) \X (1 .. MaxBlocks))
              = Cardinality(1 .. MaxLines) * Cardinality(1 .. MaxBlocks)
    BY <2>1, <2>2, FS_Product
  <2>4. MaxLines * MaxBlocks \in Nat
    BY BoundAssumption, SMT
  <2> QED
    BY <2>1, <2>2, <2>3, <2>4, Zenon
<1>5. IsFiniteSet(DOMAIN ids) /\ Cardinality(DOMAIN ids) <= MaxLines * MaxBlocks
  BY <1>3, <1>4, FS_Subset
<1>6. DOMAIN ids \in SUBSET (Nat \X Nat)
  BY <1>3, BoundAssumption
<1>7. ASSUME NEW p \in DOMAIN ids PROVE ids[p] \in AnyCallIds
  <2>1. PICK n \in DOMAIN file : p \in {n} \X DOMAIN file[n].blocks
    BY <1>1
  <2>2. file[n].blocks[p[2]] \in Block /\ p[1] = n
    BY <2>1, FileFields
  <2> QED
    BY <1>1, <1>2, <2>2 DEF Block, AnyCallIds
<1>8. Range(ids) \subseteq AnyCallIds
  BY <1>7 DEF Range
<1>9. Cardinality(Range(ids)) <= Len(CallPseudonyms)
  <2>1. Enough(CallPseudonyms, AnyCallIds, MaxLines * MaxBlocks)
    BY PseudonymAssumption DEF AnyCallIds
  <2>2. CallPseudonyms \in Seq(CallIds)
    BY PseudonymAssumption
  <2> QED
    BY <1>4, <1>5, <1>6, <1>8, <2>1, <2>2, Suffice
<1> QED
  BY <1>1, <1>2, <1>5, <1>6, <1>8, <1>9 DEF ids

\* The same for the ids of responses.
LEMMA MessageIdsNumbered ==
    ASSUME NEW file, File(file)
    PROVE  LET ids == MessageIdsOf(file) IN
           /\ DOMAIN ids \in SUBSET (Nat \X Nat) /\ IsFiniteSet(DOMAIN ids)
           /\ Cardinality(Range(ids)) <= Len(MessagePseudonyms)
           /\ Range(ids) \subseteq MessageIds
           /\ DOMAIN ids = {n \in DOMAIN file : Kept(file[n]) /\ file[n].id # NoMessageId} \X {1}
           /\ \A p \in DOMAIN ids : ids[p] = file[p[1]].id
<1> DEFINE ids == MessageIdsOf(file)
           lines == {n \in DOMAIN file : Kept(file[n]) /\ file[n].id # NoMessageId}
<1>1. DOMAIN ids = lines \X {1} /\ \A p \in DOMAIN ids : ids[p] = file[p[1]].id
  BY DEF MessageIdsOf
<1>2. lines \subseteq 1 .. MaxLines
  BY FileFields
<1>3. ASSUME NEW n \in lines PROVE file[n].id \in MessageIds
  <2>1. file[n] \in FileLines
    BY FileFields
  <2> QED
    BY <2>1, LineFields
<1> HIDE DEF ids, lines
<1>4. IsFiniteSet(1 .. MaxLines) /\ Cardinality(1 .. MaxLines) = MaxLines
  BY UpTo, BoundAssumption
<1>5. IsFiniteSet(lines) /\ Cardinality(lines) <= MaxLines /\ Cardinality(lines) \in Nat
  BY <1>2, <1>4, FS_Subset, FS_CardinalityType
<1>6. IsFiniteSet({1}) /\ Cardinality({1}) = 1
  BY FS_Singleton
<1>7. IsFiniteSet(lines \X {1}) /\ Cardinality(lines \X {1}) = Cardinality(lines) * Cardinality({1})
  BY <1>5, <1>6, FS_Product
<1>8. IsFiniteSet(DOMAIN ids) /\ Cardinality(DOMAIN ids) <= MaxLines
  <2>1. Cardinality(lines) * Cardinality({1}) = Cardinality(lines)
    BY <1>5, <1>6
  <2>2. Cardinality(DOMAIN ids) = Cardinality(lines)
    BY <1>1, <1>7, <2>1
  <2>3. IsFiniteSet(DOMAIN ids)
    BY <1>1, <1>7
  <2> QED
    BY <1>5, <2>2, <2>3
<1>9. DOMAIN ids \in SUBSET (Nat \X Nat)
  <2>1. lines \subseteq Nat
    BY <1>2, BoundAssumption
  <2>2. ASSUME NEW p \in lines \X {1} PROVE p \in Nat \X Nat
    <3>1. PICK n \in lines : p = <<n, 1>>
      OBVIOUS
    <3> QED
      BY <2>1, <3>1
  <2> QED
    BY <1>1, <2>2
<1>10. Range(ids) \subseteq MessageIds
  BY <1>1, <1>3 DEF Range
<1>11. Cardinality(Range(ids)) <= Len(MessagePseudonyms)
  BY <1>8, <1>9, <1>10, Suffice, PseudonymAssumption, BoundAssumption
<1> QED
  BY <1>1, <1>8, <1>9, <1>10, <1>11 DEF ids, lines

-----------------------------------------------------------------------------
(***************************************************************************)
(* What the sanitizer makes of a block, a line and a file.                 *)
(***************************************************************************)

\* An id that is in the table gets a usable one, and one that is not stays.
LEMMA CallRenamed ==
    ASSUME NEW file, File(file), NEW calls, calls = CallIdsOf(file), NEW id \in AnyCallIds \cup {NoCallId}
    PROVE  /\ Pseudonym(CallPseudonyms, calls, id) \in AnyCallIds \cup {NoCallId}
           /\ id \in Range(calls) => Pseudonym(CallPseudonyms, calls, id) \in CallIds
           /\ id = NoCallId => Pseudonym(CallPseudonyms, calls, id) = NoCallId
<1>1. /\ DOMAIN calls \in SUBSET (Nat \X Nat) /\ IsFiniteSet(DOMAIN calls)
      /\ Cardinality(Range(calls)) <= Len(CallPseudonyms) /\ Range(calls) \subseteq AnyCallIds
  BY CallIdsNumbered
<1>2. CASE id \in Range(calls)
  <2>1. Pseudonym(CallPseudonyms, calls, id) \in CallIds
    BY <1>1, <1>2, Renamed, PseudonymAssumption
  <2>2. id # NoCallId
    BY <1>1, <1>2, SentinelAssumption DEF AnyCallIds
  <2> QED
    BY <2>1, <2>2 DEF AnyCallIds
<1>3. CASE id \notin Range(calls)
  BY <1>3 DEF Pseudonym
<1> QED
  BY <1>2, <1>3

\* The same for the ids of responses.
LEMMA MessageRenamed ==
    ASSUME NEW file, File(file), NEW messages, messages = MessageIdsOf(file),
           NEW id \in MessageIds \cup {NoMessageId}
    PROVE  /\ Pseudonym(MessagePseudonyms, messages, id) \in MessageIds \cup {NoMessageId}
           /\ id \in MessageIds => Pseudonym(MessagePseudonyms, messages, id) \in MessageIds
           /\ id = NoMessageId => Pseudonym(MessagePseudonyms, messages, id) = NoMessageId
<1>1. /\ DOMAIN messages \in SUBSET (Nat \X Nat) /\ IsFiniteSet(DOMAIN messages)
      /\ Cardinality(Range(messages)) <= Len(MessagePseudonyms) /\ Range(messages) \subseteq MessageIds
  BY MessageIdsNumbered
<1>2. CASE id \in Range(messages)
  <2>1. Pseudonym(MessagePseudonyms, messages, id) \in MessageIds
    BY <1>1, <1>2, Renamed, PseudonymAssumption
  <2>2. id # NoMessageId
    BY <1>1, <1>2, SentinelAssumption
  <2> QED
    BY <2>1, <2>2
<1>3. CASE id \notin Range(messages)
  BY <1>3 DEF Pseudonym
<1> QED
  BY <1>2, <1>3

\* The items of a result stay items.
LEMMA ItemsSanitized ==
    ASSUME NEW items \in Seq(ItemKinds), NEW new, new = [i \in DOMAIN items |-> SanitizedItem(items[i])]
    PROVE  /\ new \in Seq(ItemKinds) /\ DOMAIN new = DOMAIN items
           /\ \A i \in DOMAIN items : SanitizedItem(new[i]) = new[i]
<1>1. \A x \in ItemKinds : SanitizedItem(x) \in ItemKinds /\ SanitizedItem(SanitizedItem(x)) = SanitizedItem(x)
  BY DEF ItemKinds, SanitizedItem
<1>2. DOMAIN items = 1 .. Len(items) /\ Len(items) \in Nat /\ \A i \in DOMAIN items : items[i] \in ItemKinds
  BY ElementOfSeq
<1>3. new \in [1 .. Len(items) -> ItemKinds]
  BY <1>1, <1>2
<1>4. new \in Seq(ItemKinds)
  BY <1>2, <1>3, SeqDef
<1> QED
  BY <1>1, <1>2, <1>4

\* The fields of a block that the sanitizer has seen.
LEMMA BlockSanitized ==
    ASSUME NEW calls, NEW b \in Block, Pseudonym(CallPseudonyms, calls, b.id) \in AnyCallIds \cup {NoCallId},
           NEW s, s = SanitizedBlock(b, calls)
    PROVE  /\ s \in Block /\ s.kind = b.kind /\ s.is_error = b.is_error
           /\ b.kind \in {"tool_use", "tool_result"} => s.id = Pseudonym(CallPseudonyms, calls, b.id)
           /\ b.kind \notin {"tool_use", "tool_result"} => s.id = b.id
           /\ s.valid = (b.kind = "thinking" \/ b.valid)
           /\ s.payload = IF b.kind = "thinking" THEN (b.payload /\ b.valid) ELSE b.payload
<1>1. b.items \in Seq(ItemKinds) /\ b.valid \in BOOLEAN /\ b.payload \in BOOLEAN
  BY DEF Block
<1>2. PICK items : items = [i \in DOMAIN b.items |-> SanitizedItem(b.items[i])]
  OBVIOUS
<1>3. items \in Seq(ItemKinds)
  BY <1>1, <1>2, ItemsSanitized
<1>4. PICK id : id = Pseudonym(CallPseudonyms, calls, b.id)
  OBVIOUS
<1>5. CASE b.kind = "tool_use"
  <2>1. s = [b EXCEPT !.id = id]
    BY <1>4, <1>5 DEF SanitizedBlock
  <2> QED
    BY <1>4, <1>5, <2>1 DEF Block, AnyCallIds
<1>6. CASE b.kind = "tool_result"
  <2>1. s = [b EXCEPT !.id = id, !.items = items]
    BY <1>2, <1>4, <1>6 DEF SanitizedBlock
  <2> QED
    BY <1>2, <1>3, <1>4, <1>6, <2>1 DEF Block, AnyCallIds
<1>7. CASE b.kind = "thinking"
  <2>1. s = [b EXCEPT !.payload = b.payload /\ b.valid, !.valid = TRUE]
    BY <1>7 DEF SanitizedBlock
  <2> QED
    BY <1>1, <1>7, <2>1 DEF Block
<1>8. CASE b.kind \notin {"tool_use", "tool_result", "thinking"}
  <2>1. s = b
    BY <1>8 DEF SanitizedBlock
  <2> QED
    BY <1>1, <1>8, <2>1
<1> QED
  BY <1>5, <1>6, <1>7, <1>8

\* The items of a result.
LEMMA ItemsReplaced ==
    ASSUME NEW calls, NEW b \in Block, b.kind = "tool_result", NEW s, s = SanitizedBlock(b, calls)
    PROVE  s.items = [i \in DOMAIN b.items |-> SanitizedItem(b.items[i])]
<1>1. PICK items : items = [i \in DOMAIN b.items |-> SanitizedItem(b.items[i])]
  OBVIOUS
<1>2. PICK id : id = Pseudonym(CallPseudonyms, calls, b.id)
  OBVIOUS
<1>3. s = [b EXCEPT !.id = id, !.items = items]
  BY <1>1, <1>2 DEF SanitizedBlock
<1>4. s.items = items
  BY <1>3 DEF Block
<1> QED
  BY <1>1, <1>4

\* Blocks are told apart by their fields.
LEMMA SameBlock ==
    ASSUME NEW a \in Block, NEW b \in Block,
           a.kind = b.kind, a.valid = b.valid, a.payload = b.payload, a.id = b.id,
           a.is_error = b.is_error, a.items = b.items
    PROVE  a = b
BY DEF Block

\* A block that the sanitizer has seen is left as it is if its id is.
LEMMA BlockStays ==
    ASSUME NEW calls, NEW b \in Block, Pseudonym(CallPseudonyms, calls, b.id) \in AnyCallIds \cup {NoCallId},
           NEW s, s = SanitizedBlock(b, calls),
           NEW again, b.kind \in {"tool_use", "tool_result"} => Pseudonym(CallPseudonyms, again, s.id) = s.id
    PROVE  SanitizedBlock(s, again) = s
<1>1. /\ s \in Block /\ s.kind = b.kind
      /\ s.valid = (b.kind = "thinking" \/ b.valid)
      /\ s.payload = IF b.kind = "thinking" THEN (b.payload /\ b.valid) ELSE b.payload
  BY BlockSanitized
<1>2. b.items \in Seq(ItemKinds) /\ s.items \in Seq(ItemKinds) /\ s.valid \in BOOLEAN /\ s.payload \in BOOLEAN
  BY <1>1 DEF Block
<1>3. CASE b.kind = "tool_use"
  <2>1. SanitizedBlock(s, again) = [s EXCEPT !.id = s.id]
    BY <1>1, <1>3 DEF SanitizedBlock
  <2> QED
    BY <1>1, <2>1 DEF Block
<1>4. CASE b.kind = "tool_result"
  <2>1. PICK items : items = [i \in DOMAIN b.items |-> SanitizedItem(b.items[i])]
    OBVIOUS
  <2>2. s.items = items
    BY <1>4, <2>1, ItemsReplaced
  <2>3. items = [i \in DOMAIN items |-> items[i]] /\ \A i \in DOMAIN items : SanitizedItem(items[i]) = items[i]
    BY <1>2, <2>1, ItemsSanitized
  <2>4. [i \in DOMAIN s.items |-> SanitizedItem(s.items[i])] = s.items
    BY <2>2, <2>3
  <2>5. SanitizedBlock(s, again) = [s EXCEPT !.id = s.id, !.items = s.items]
    BY <1>1, <1>4, <2>4 DEF SanitizedBlock
  <2> QED
    BY <1>1, <2>5 DEF Block
<1>5. CASE b.kind = "thinking"
  <2>1. SanitizedBlock(s, again) = [s EXCEPT !.payload = s.payload /\ s.valid, !.valid = TRUE]
    BY <1>1, <1>5 DEF SanitizedBlock
  <2>2. s.valid = TRUE /\ (s.payload /\ s.valid) = s.payload
    BY <1>1, <1>2, <1>5
  <2>3. SanitizedBlock(s, again) = [s EXCEPT !.payload = s.payload, !.valid = s.valid]
    BY <2>1, <2>2
  <2> QED
    BY <1>1, <2>3 DEF Block
<1>6. CASE b.kind \notin {"tool_use", "tool_result", "thinking"}
  BY <1>1, <1>6 DEF SanitizedBlock
<1> QED
  BY <1>3, <1>4, <1>5, <1>6

\* What the sanitizer keeps of a record,
LEMMA KeptFields ==
    ASSUME NEW l \in FileLines, NEW calls, NEW messages, NEW s, s = SanitizedMessage(l, calls, messages)
    PROVE  /\ s.shape = l.shape /\ s.type = l.type /\ s.subtype = l.subtype /\ s.message = l.message
           /\ s.role = l.role /\ s.timestamp = l.timestamp /\ s.model = l.model /\ s.usage = l.usage
           /\ s.ignored = l.ignored
<1>1. l \in Line
  BY LineFields
<1>2. PICK blocks, kind, text, id, data :
         s = [l EXCEPT !.blocks = blocks, !.content = kind, !.text = text, !.id = id, !.meta = data]
  BY DEF SanitizedMessage
<1> QED
  BY <1>1, <1>2 DEF Line

\* what it makes of its id,
LEMMA ChangedId ==
    ASSUME NEW l \in FileLines, NEW calls, NEW messages, NEW s, s = SanitizedMessage(l, calls, messages)
    PROVE  s.id = Pseudonym(MessagePseudonyms, messages, l.id)
<1>1. l \in Line
  BY LineFields
<1>2. PICK id : id = Pseudonym(MessagePseudonyms, messages, l.id)
  OBVIOUS
<1>3. \E blocks, kind, text, data :
         s = [l EXCEPT !.blocks = blocks, !.content = kind, !.text = text, !.id = id, !.meta = data]
  BY <1>2 DEF SanitizedMessage
<1>4. PICK blocks, kind, text, data :
         s = [l EXCEPT !.blocks = blocks, !.content = kind, !.text = text, !.id = id, !.meta = data]
  BY <1>3
<1>5. s.id = id
  BY <1>1, <1>4 DEF Line
<1> QED
  BY <1>2, <1>5

\* of its blocks,
LEMMA ChangedBlocks ==
    ASSUME NEW l \in FileLines, NEW calls, NEW messages, NEW s, s = SanitizedMessage(l, calls, messages)
    PROVE  /\ DOMAIN s.blocks = DOMAIN l.blocks
           /\ \A b \in DOMAIN l.blocks : s.blocks[b] = SanitizedBlock(l.blocks[b], calls)
<1>1. l \in Line
  BY LineFields
<1>2. PICK blocks : blocks = [b \in DOMAIN l.blocks |-> SanitizedBlock(l.blocks[b], calls)]
  OBVIOUS
<1>3. \E kind, text, id, data :
         s = [l EXCEPT !.blocks = blocks, !.content = kind, !.text = text, !.id = id, !.meta = data]
  BY <1>2 DEF SanitizedMessage
<1>4. PICK kind, text, id, data :
         s = [l EXCEPT !.blocks = blocks, !.content = kind, !.text = text, !.id = id, !.meta = data]
  BY <1>3
<1>5. s.blocks = blocks
  BY <1>1, <1>4 DEF Line
<1> QED
  BY <1>2, <1>5

\* of a session and a directory,
LEMMA ChangedMeta ==
    ASSUME NEW l \in FileLines, NEW calls, NEW messages, NEW s, s = SanitizedMessage(l, calls, messages)
    PROVE  \A f \in MetaFields :
              s.meta[f] = IF f \in ReplacedMeta(l.meta) THEN Placeholder ELSE l.meta[f]
<1>1. l \in Line
  BY LineFields
<1>2. PICK data : data = [f \in MetaFields |->
                IF f \in ReplacedMeta(l.meta) THEN Placeholder ELSE l.meta[f]]
  OBVIOUS
<1>3. \E blocks, kind, text, id :
         s = [l EXCEPT !.blocks = blocks, !.content = kind, !.text = text, !.id = id, !.meta = data]
  BY <1>2 DEF SanitizedMessage
<1>4. PICK blocks, kind, text, id :
         s = [l EXCEPT !.blocks = blocks, !.content = kind, !.text = text, !.id = id, !.meta = data]
  BY <1>3
<1>5. s.meta = data
  BY <1>1, <1>4 DEF Line
<1> QED
  BY <1>2, <1>5

\* and of content that is neither a string nor a list.
LEMMA ChangedContent ==
    ASSUME NEW l \in FileLines, NEW calls, NEW messages, NEW s, s = SanitizedMessage(l, calls, messages)
    PROVE  /\ NonListContent(l) => s.content = "string" /\ s.text
           /\ ~NonListContent(l) => s.content = l.content /\ s.text = l.text
<1>1. l \in Line /\ l.text \in BOOLEAN
  BY LineFields DEF Line
<1>2. PICK kind : kind = IF NonListContent(l) THEN "string" ELSE l.content
  OBVIOUS
<1>3. PICK text : text = (l.text \/ NonListContent(l))
  OBVIOUS
<1>4. \E blocks, id, data :
         s = [l EXCEPT !.blocks = blocks, !.content = kind, !.text = text, !.id = id, !.meta = data]
  BY <1>2, <1>3 DEF SanitizedMessage
<1>5. PICK blocks, id, data :
         s = [l EXCEPT !.blocks = blocks, !.content = kind, !.text = text, !.id = id, !.meta = data]
  BY <1>4
<1>6. s.content = kind /\ s.text = text
  BY <1>1, <1>5 DEF Line
<1> QED
  BY <1>1, <1>2, <1>3, <1>6

\* A record with other values in the fields that a message is reduced in is a record.
LEMMA LineUpdated ==
    ASSUME NEW l \in Line, NEW blocks \in Seq(Block), NEW text \in BOOLEAN,
           NEW kind \in {"string", "list", "empty", "other"},
           NEW id \in MessageIds \cup {NoMessageId},
           NEW data \in [MetaFields -> MetaValues \cup {NoMeta}]
    PROVE  [l EXCEPT !.blocks = blocks, !.content = kind, !.text = text, !.id = id, !.meta = data]
             \in Line
BY DEF Line

\* It stays a line of a file.
LEMMA KeptSanitized ==
    ASSUME NEW file, File(file), NEW calls, calls = CallIdsOf(file),
           NEW messages, messages = MessageIdsOf(file),
           NEW l \in FileLines, NEW s, s = SanitizedMessage(l, calls, messages)
    PROVE  s \in FileLines
<1> DEFINE blocks == [b \in DOMAIN l.blocks |-> SanitizedBlock(l.blocks[b], calls)]
           kind == IF NonListContent(l) THEN "string" ELSE l.content
           text == l.text \/ NonListContent(l)
           id == Pseudonym(MessagePseudonyms, messages, l.id)
           data == [f \in MetaFields |->
                      IF f \in ReplacedMeta(l.meta) THEN Placeholder ELSE l.meta[f]]
<1>1. l \in Line /\ l.blocks \in Seq(Block) /\ l.text \in BOOLEAN
  BY LineFields DEF Line
<1>2. kind \in {"string", "list", "empty", "other"} /\ text \in BOOLEAN
  BY <1>1 DEF Line, NonListContent
<1>3. id \in MessageIds \cup {NoMessageId}
  BY LineFields, MessageRenamed
<1>4. data \in [MetaFields -> MetaValues \cup {NoMeta}]
  BY LineFields, PseudonymAssumption
<1>5. DOMAIN l.blocks = 1 .. Len(l.blocks) /\ Len(l.blocks) \in 0 .. MaxBlocks
      /\ \A b \in DOMAIN l.blocks : l.blocks[b] \in Block
  BY LineFields, ElementOfSeq
<1>6. ASSUME NEW b \in DOMAIN l.blocks
      PROVE  blocks[b] \in Block
  <2>1. PICK c : c = l.blocks[b]
    OBVIOUS
  <2>2. PICK d : d = SanitizedBlock(c, calls)
    OBVIOUS
  <2>3. c \in Block
    BY <1>5, <2>1
  <2>4. c.id \in AnyCallIds \cup {NoCallId}
    BY <2>3 DEF Block, AnyCallIds
  <2>5. Pseudonym(CallPseudonyms, calls, c.id) \in AnyCallIds \cup {NoCallId}
    BY <2>4, CallRenamed
  <2>6. d \in Block
    BY <2>2, <2>3, <2>5, BlockSanitized
  <2> QED
    BY <2>1, <2>2, <2>6
<1>7. blocks \in Seq(Block) /\ Len(blocks) = Len(l.blocks) /\ DOMAIN blocks = DOMAIN l.blocks
  <2>1. DOMAIN blocks = 1 .. Len(l.blocks) /\ Len(l.blocks) \in Nat
    BY <1>5, BoundAssumption
  <2>2. blocks \in [1 .. Len(l.blocks) -> Block]
    BY <1>6, <2>1
  <2>3. blocks \in Seq(Block)
    BY <2>1, <2>2, SeqDef
  <2> QED
    BY <2>1, <2>3, LenProperties
<1>8. s = [l EXCEPT !.blocks = blocks, !.content = kind, !.text = text, !.id = id, !.meta = data]
  BY DEF SanitizedMessage
<1>9. l.content # "list" => blocks = <<>>
  <2>1. ASSUME l.content # "list" PROVE blocks = <<>>
    <3>1. l.blocks = <<>>
      BY <2>1 DEF FileLines
    <3> QED
      BY <1>7, <3>1
  <2> QED
    BY <2>1
<1> HIDE DEF blocks, kind, text, id, data
<1>10. s \in Line
  <2>1. l \in Line /\ blocks \in Seq(Block) /\ text \in BOOLEAN
    BY <1>1, <1>2, <1>7
  <2>2. [l EXCEPT !.blocks = blocks, !.content = kind, !.text = text, !.id = id, !.meta = data] \in Line
    BY ONLY <1>2, <1>3, <1>4, <2>1, LineUpdated
  <2> QED
    BY <1>8, <2>2
<1>11. /\ s.shape = l.shape /\ s.type = l.type /\ s.subtype = l.subtype /\ s.message = l.message
       /\ s.role = l.role /\ s.timestamp = l.timestamp /\ s.model = l.model /\ s.usage = l.usage
       /\ s.ignored = l.ignored /\ s.content = kind /\ s.text = text /\ s.id = id
       /\ s.meta = data /\ s.blocks = blocks
  BY <1>1, <1>8 DEF Line
<1>12. kind # "list" => blocks = <<>>
  BY <1>9 DEF kind, NonListContent
<1> QED
  BY <1>5, <1>6, <1>7, <1>10, <1>11, <1>12 DEF FileLines

\* A record of which the type is left.
LEMMA SkeletonLine ==
    ASSUME NEW type \in RecordTypes, NEW subtype \in {"none", "turn_duration", "compact_boundary", "other"},
           NEW s, s = Skeleton(type, subtype)
    PROVE  s \in FileLines /\ ~Kept(s) /\ s.shape = "object" /\ s.type = type
           /\ s.subtype = (IF type = "system" THEN subtype ELSE "none") /\ s.blocks = <<>>
           /\ Skeleton(s.type, s.subtype) = s
<1>1. PICK data : data = [f \in MetaFields |-> NoMeta]
  OBVIOUS
<1>2. PICK rest : rest = IF type = "system" THEN subtype ELSE "none"
  OBVIOUS
<1>3. s = [shape |-> "object", type |-> type, subtype |-> rest,
           message |-> FALSE, role |-> "other", timestamp |-> "absent", content |-> "list", text |-> FALSE,
           blocks |-> <<>>, model |-> "absent", usage |-> NoUsage, id |-> NoMessageId,
           ignored |-> {}, meta |-> data]
  BY <1>1, <1>2 DEF Skeleton
<1>4. data \in [MetaFields -> MetaValues \cup {NoMeta}]
  BY <1>1
<1>5. <<>> \in Seq(Block) /\ Len(<<>>) = 0 /\ DOMAIN <<>> = {} /\ 0 <= MaxBlocks
  BY BoundAssumption
<1>6. rest \in {"none", "turn_duration", "compact_boundary", "other"}
  BY <1>2
<1>7. s \in Line
  BY <1>3, <1>4, <1>5, <1>6 DEF Line
<1>8. s.content = "list" /\ s.blocks = <<>> /\ ~s.message
  BY <1>3
<1>9. s \in FileLines
  BY <1>5, <1>7, <1>8 DEF FileLines
<1>10. Skeleton(type, rest) = s
  BY <1>2 DEF Skeleton
<1> QED
  BY <1>2, <1>3, <1>8, <1>9, <1>10 DEF Kept

\* What becomes of the lines of a file.
LEMMA LinesSanitized ==
    ASSUME NEW file, File(file), NEW new, new = SanitizeRecords(file)
    PROVE  /\ File(new) /\ Len(new) = Len(file) /\ DOMAIN new = DOMAIN file
           /\ \A n \in DOMAIN file :
                 /\ Kept(new[n]) <=> Kept(file[n])
                 /\ Kept(file[n]) =>
                       new[n] = SanitizedMessage(file[n], CallIdsOf(file), MessageIdsOf(file))
                 /\ ~Kept(file[n]) =>
                       /\ new[n].shape = "object" /\ new[n] = Skeleton(new[n].type, new[n].subtype)
                       /\ new[n].blocks = <<>>
                       /\ new[n].type = IF file[n].shape = "object" THEN file[n].type ELSE "unknown"
                       /\ file[n].shape = "object" /\ file[n].type = "system"
                             => new[n].subtype = file[n].subtype
<1>1. PICK calls : calls = CallIdsOf(file)
  OBVIOUS
<1>2. PICK messages : messages = MessageIdsOf(file)
  OBVIOUS
<1>3. new = [n \in DOMAIN file |->
               IF Kept(file[n]) THEN SanitizedMessage(file[n], calls, messages)
               ELSE IF file[n].shape = "object" THEN Skeleton(file[n].type, file[n].subtype)
               ELSE Skeleton("unknown", "none")]
  BY <1>1, <1>2 DEF SanitizeRecords
<1>4. Len(file) \in Nat /\ DOMAIN file = 1 .. Len(file) /\ \A n \in DOMAIN file : file[n] \in FileLines
  BY FileFields
<1>5. ASSUME NEW n \in DOMAIN file, Kept(file[n])
      PROVE  new[n] = SanitizedMessage(file[n], calls, messages) /\ new[n] \in FileLines /\ Kept(new[n])
  <2>1. PICK l \in FileLines : l = file[n]
    BY <1>4
  <2>2. PICK s : s = SanitizedMessage(l, calls, messages)
    OBVIOUS
  <2>3. s \in FileLines /\ s.shape = l.shape /\ s.type = l.type /\ s.message = l.message
    BY <1>1, <1>2, <2>1, <2>2, KeptSanitized, KeptFields
  <2>4. Kept(s)
    BY <1>5, <2>1, <2>3 DEF Kept
  <2>5. new[n] = s
    BY <1>3, <1>5, <2>1, <2>2
  <2> QED
    BY <2>1, <2>2, <2>3, <2>4, <2>5
<1>6. ASSUME NEW n \in DOMAIN file, ~Kept(file[n])
      PROVE  /\ new[n] \in FileLines /\ ~Kept(new[n])
             /\ new[n].shape = "object" /\ new[n] = Skeleton(new[n].type, new[n].subtype)
             /\ new[n].blocks = <<>>
             /\ new[n].type = IF file[n].shape = "object" THEN file[n].type ELSE "unknown"
             /\ file[n].shape = "object" /\ file[n].type = "system" => new[n].subtype = file[n].subtype
  <2>1. PICK l \in FileLines : l = file[n]
    BY <1>4
  <2>2. l.type \in RecordTypes /\ l.subtype \in {"none", "turn_duration", "compact_boundary", "other"}
    <3>1. l \in Line
      BY <2>1, LineFields
    <3> QED
      BY <3>1 DEF Line
  <2>3. PICK s : s = new[n]
    OBVIOUS
  <2>4. CASE l.shape = "object"
    <3>1. s = Skeleton(l.type, l.subtype)
      BY <1>3, <1>6, <2>1, <2>3, <2>4
    <3>2. /\ s \in FileLines /\ ~Kept(s) /\ s.shape = "object" /\ s.type = l.type
          /\ s.subtype = (IF l.type = "system" THEN l.subtype ELSE "none") /\ s.blocks = <<>>
          /\ Skeleton(s.type, s.subtype) = s
      BY <2>2, <3>1, SkeletonLine
    <3> QED
      BY <2>1, <2>3, <2>4, <3>2
  <2>5. CASE l.shape # "object"
    <3>1. s = Skeleton("unknown", "none")
      BY <1>3, <1>6, <2>1, <2>3, <2>5
    <3>2. "unknown" \in RecordTypes
      BY DEF RecordTypes
    <3>3. /\ s \in FileLines /\ ~Kept(s) /\ s.shape = "object" /\ s.type = "unknown" /\ s.blocks = <<>>
          /\ Skeleton(s.type, s.subtype) = s
      BY <3>1, <3>2, SkeletonLine
    <3> QED
      BY <2>1, <2>3, <2>5, <3>3
  <2> QED
    BY <2>4, <2>5
<1>7. DOMAIN new = DOMAIN file /\ \A n \in DOMAIN file : new[n] \in FileLines
  BY <1>3, <1>5, <1>6
<1>8. new \in Seq(FileLines) /\ Len(new) = Len(file)
  <2>1. new \in [1 .. Len(file) -> FileLines]
    BY <1>3, <1>4, <1>7
  <2>2. new \in Seq(FileLines)
    BY <1>4, <2>1, SeqDef
  <2> QED
    BY <1>4, <1>7, <2>2, LenProperties
<1>9. File(new)
  BY <1>8 DEF File
<1> QED
  BY <1>1, <1>2, <1>5, <1>6, <1>7, <1>8, <1>9

\* What becomes of the blocks of a record that is kept.
LEMMA BlocksReduced ==
    ASSUME NEW file, File(file), NEW new, new = SanitizeRecords(file), NEW calls, calls = CallIdsOf(file),
           NEW n \in DOMAIN file, Kept(file[n])
    PROVE  /\ DOMAIN new[n].blocks = DOMAIN file[n].blocks
           /\ \A k \in DOMAIN file[n].blocks :
                 /\ file[n].blocks[k] \in Block
                 /\ Pseudonym(CallPseudonyms, calls, file[n].blocks[k].id) \in AnyCallIds \cup {NoCallId}
                 /\ new[n].blocks[k] = SanitizedBlock(file[n].blocks[k], calls)
                 /\ new[n].blocks[k].kind = file[n].blocks[k].kind
                 /\ file[n].blocks[k].kind \in {"tool_use", "tool_result"} =>
                       new[n].blocks[k].id = Pseudonym(CallPseudonyms, calls, file[n].blocks[k].id)
<1>1. PICK l \in FileLines : l = file[n]
  BY FileFields
<1>2. PICK messages : messages = MessageIdsOf(file)
  OBVIOUS
<1>3. PICK s : s = new[n]
  OBVIOUS
<1>4. s = SanitizedMessage(l, calls, messages)
  BY <1>1, <1>2, <1>3, LinesSanitized
<1>5. /\ DOMAIN s.blocks = DOMAIN l.blocks
      /\ \A b \in DOMAIN l.blocks : s.blocks[b] = SanitizedBlock(l.blocks[b], calls)
  BY <1>1, <1>4, ChangedBlocks
<1>6. ASSUME NEW k \in DOMAIN l.blocks, NEW b, b = l.blocks[k], NEW d, d = s.blocks[k]
      PROVE  /\ b \in Block /\ d = SanitizedBlock(b, calls) /\ d.kind = b.kind
             /\ Pseudonym(CallPseudonyms, calls, b.id) \in AnyCallIds \cup {NoCallId}
             /\ b.kind \in {"tool_use", "tool_result"} => d.id = Pseudonym(CallPseudonyms, calls, b.id)
  <2>1. b \in Block
    BY <1>1, <1>6, FileFields
  <2>2. b.id \in AnyCallIds \cup {NoCallId}
    BY <2>1 DEF Block, AnyCallIds
  <2>3. Pseudonym(CallPseudonyms, calls, b.id) \in AnyCallIds \cup {NoCallId}
    BY <2>2, CallRenamed
  <2>4. d = SanitizedBlock(b, calls)
    BY <1>5, <1>6
  <2>5. d.kind = b.kind
    BY <2>1, <2>3, <2>4, BlockSanitized
  <2>6. PICK id, items :
           /\ id = Pseudonym(CallPseudonyms, calls, b.id)
           /\ items = [i \in DOMAIN b.items |-> SanitizedItem(b.items[i])]
    OBVIOUS
  <2>7. ASSUME b.kind \in {"tool_use", "tool_result"} PROVE d.id = id
    <3>1. d = [b EXCEPT !.id = id] \/ d = [b EXCEPT !.id = id, !.items = items]
      BY <2>4, <2>6, <2>7 DEF SanitizedBlock
    <3> QED
      BY <2>1, <3>1 DEF Block
  <2> QED
    BY <2>1, <2>3, <2>4, <2>5, <2>6, <2>7
<1> QED
  BY <1>1, <1>3, <1>5, <1>6

\* The ids of a reduced log are where those of the log are, and are their pseudonyms.
LEMMA CallIdsReduced ==
    ASSUME NEW file, File(file), NEW new, new = SanitizeRecords(file), NEW calls, calls = CallIdsOf(file)
    PROVE  CallIdsOf(new) = [p \in DOMAIN calls |-> Pseudonym(CallPseudonyms, calls, calls[p])]
<1>1. PICK again : again = CallIdsOf(new)
  OBVIOUS
<1>2. /\ \A p : p \in DOMAIN calls <=>
            /\ \E n \in DOMAIN file : p \in {n} \X DOMAIN file[n].blocks
            /\ Kept(file[p[1]])
            /\ file[p[1]].blocks[p[2]].kind \in {"tool_use", "tool_result"}
            /\ file[p[1]].blocks[p[2]].id # NoCallId
      /\ \A p \in DOMAIN calls : calls[p] = file[p[1]].blocks[p[2]].id
      /\ Range(calls) \subseteq AnyCallIds
  BY CallIdsNumbered
<1>3. /\ File(new) /\ DOMAIN new = DOMAIN file
      /\ \A n \in DOMAIN file : Kept(new[n]) <=> Kept(file[n])
  BY LinesSanitized
<1>4. /\ \A p : p \in DOMAIN again <=>
            /\ \E n \in DOMAIN new : p \in {n} \X DOMAIN new[n].blocks
            /\ Kept(new[p[1]])
            /\ new[p[1]].blocks[p[2]].kind \in {"tool_use", "tool_result"}
            /\ new[p[1]].blocks[p[2]].id # NoCallId
      /\ \A p \in DOMAIN again : again[p] = new[p[1]].blocks[p[2]].id
  BY <1>1, <1>3, CallIdsNumbered
<1>5. ASSUME NEW n \in DOMAIN file, Kept(file[n]), NEW k \in DOMAIN file[n].blocks
      PROVE  /\ <<n, k>> \in DOMAIN again <=> <<n, k>> \in DOMAIN calls
             /\ <<n, k>> \in DOMAIN calls => again[<<n, k>>] = Pseudonym(CallPseudonyms, calls, calls[<<n, k>>])
  <2>1. PICK b : b = file[n].blocks[k]
    OBVIOUS
  <2>2. PICK d : d = new[n].blocks[k]
    OBVIOUS
  <2>3. /\ DOMAIN new[n].blocks = DOMAIN file[n].blocks
        /\ b \in Block /\ d.kind = b.kind
        /\ b.kind \in {"tool_use", "tool_result"} => d.id = Pseudonym(CallPseudonyms, calls, b.id)
    BY <1>5, <2>1, <2>2, BlocksReduced
  <2>4. b.id \in AnyCallIds \cup {NoCallId}
    BY <2>3 DEF Block, AnyCallIds
  <2>5. /\ b.id = NoCallId => Pseudonym(CallPseudonyms, calls, b.id) = NoCallId
        /\ b.id \in Range(calls) => Pseudonym(CallPseudonyms, calls, b.id) # NoCallId
    BY <2>4, CallRenamed, SentinelAssumption
  <2>6. PICK p : p = <<n, k>>
    OBVIOUS
  <2>7. p[1] = n /\ p[2] = k /\ p \in {n} \X DOMAIN file[n].blocks /\ p \in {n} \X DOMAIN new[n].blocks
    BY <2>3, <2>6
  <2>8. p \in DOMAIN calls <=> b.kind \in {"tool_use", "tool_result"} /\ b.id # NoCallId
    BY <1>2, <1>5, <2>1, <2>7
  <2>9. p \in DOMAIN again <=> d.kind \in {"tool_use", "tool_result"} /\ d.id # NoCallId
    BY <1>3, <1>4, <1>5, <2>2, <2>7
  <2>10. p \in DOMAIN calls => calls[p] = b.id
    BY <1>2, <2>1, <2>7
  <2>11. p \in DOMAIN again => again[p] = d.id
    BY <1>4, <2>2, <2>7
  <2>12. p \in DOMAIN calls => b.id \in Range(calls)
    BY <2>10 DEF Range
  <2> QED
    BY <2>3, <2>5, <2>6, <2>8, <2>9, <2>10, <2>11, <2>12
<1>6. ASSUME NEW p \in DOMAIN calls
      PROVE  p \in DOMAIN again /\ again[p] = Pseudonym(CallPseudonyms, calls, calls[p])
  <2>1. PICK n \in DOMAIN file : p \in {n} \X DOMAIN file[n].blocks
    BY <1>2
  <2>2. PICK k \in DOMAIN file[n].blocks : p = <<n, k>>
    BY <2>1
  <2>3. Kept(file[n])
    BY <1>2, <2>2
  <2> QED
    BY <1>5, <2>1, <2>2, <2>3
<1>7. ASSUME NEW p \in DOMAIN again PROVE p \in DOMAIN calls
  <2>1. PICK n \in DOMAIN file : p \in {n} \X DOMAIN new[n].blocks
    BY <1>3, <1>4
  <2>2. PICK k \in DOMAIN new[n].blocks : p = <<n, k>>
    BY <2>1
  <2>3. Kept(file[n])
    BY <1>3, <1>4, <2>1, <2>2
  <2>4. k \in DOMAIN file[n].blocks
    BY <2>1, <2>2, <2>3, BlocksReduced
  <2> QED
    BY <1>5, <2>1, <2>2, <2>3, <2>4
<1>8. again = [p \in DOMAIN again |-> again[p]]
  BY <1>1 DEF CallIdsOf
<1>9. DOMAIN again = DOMAIN calls
  BY <1>6, <1>7
<1> QED
  BY <1>1, <1>6, <1>8, <1>9

LEMMA MessageIdsReduced ==
    ASSUME NEW file, File(file), NEW new, new = SanitizeRecords(file),
           NEW messages, messages = MessageIdsOf(file)
    PROVE  MessageIdsOf(new) = [p \in DOMAIN messages |-> Pseudonym(MessagePseudonyms, messages, messages[p])]
<1>1. PICK again : again = MessageIdsOf(new)
  OBVIOUS
<1>2. PICK lines : lines = {n \in DOMAIN file : Kept(file[n]) /\ file[n].id # NoMessageId}
  OBVIOUS
<1>3. DOMAIN messages = lines \X {1} /\ \A p \in DOMAIN messages : messages[p] = file[p[1]].id
  BY <1>2, MessageIdsNumbered
<1>4. /\ File(new) /\ DOMAIN new = DOMAIN file
      /\ \A n \in DOMAIN file : Kept(new[n]) <=> Kept(file[n])
  BY LinesSanitized
<1>5. PICK fresh : fresh = {n \in DOMAIN new : Kept(new[n]) /\ new[n].id # NoMessageId}
  OBVIOUS
<1>6. DOMAIN again = fresh \X {1} /\ \A p \in DOMAIN again : again[p] = new[p[1]].id
  <2>1. File(new)
    BY <1>4
  <2>2. LET ids == MessageIdsOf(new) IN
        /\ DOMAIN ids = {n \in DOMAIN new : Kept(new[n]) /\ new[n].id # NoMessageId} \X {1}
        /\ \A p \in DOMAIN ids : ids[p] = new[p[1]].id
    BY ONLY <2>1, MessageIdsNumbered
  <2> QED
    BY <1>1, <1>5, <2>2
<1>7. ASSUME NEW n \in DOMAIN file, Kept(file[n])
      PROVE  /\ new[n].id = Pseudonym(MessagePseudonyms, messages, file[n].id)
             /\ new[n].id = NoMessageId <=> file[n].id = NoMessageId
  <2>1. PICK l \in FileLines : l = file[n]
    BY FileFields
  <2>2. PICK calls : calls = CallIdsOf(file)
    OBVIOUS
  <2>3. PICK s : s = SanitizedMessage(l, calls, messages)
    OBVIOUS
  <2>4. new[n] = s
    BY <1>7, <2>1, <2>2, <2>3, LinesSanitized
  <2>5. s.id = Pseudonym(MessagePseudonyms, messages, l.id)
    BY <2>1, <2>3, ChangedId
  <2>6. l.id \in MessageIds \cup {NoMessageId}
    BY <2>1, LineFields
  <2>7. Pseudonym(MessagePseudonyms, messages, l.id) = NoMessageId <=> l.id = NoMessageId
    BY <2>6, MessageRenamed, SentinelAssumption
  <2> QED
    BY <2>1, <2>4, <2>5, <2>7
<1>8. fresh = lines
  BY <1>2, <1>4, <1>5, <1>7
<1>9. DOMAIN again = DOMAIN messages
  BY <1>3, <1>8, <1>6
<1>10. ASSUME NEW p \in DOMAIN messages PROVE again[p] = Pseudonym(MessagePseudonyms, messages, messages[p])
  <2>1. PICK n \in lines : p = <<n, 1>>
    BY <1>3
  <2>2. n \in DOMAIN file /\ Kept(file[n]) /\ p[1] = n
    BY <1>2, <2>1
  <2> QED
    BY <1>3, <1>7, <1>9, <1>6, <2>2
<1>11. again = [p \in DOMAIN again |-> again[p]]
  BY <1>1 DEF MessageIdsOf
<1> QED
  BY <1>1, <1>9, <1>10, <1>11

\* Numbering a reduced log gives its ids the numbers that they have.
LEMMA CallIdStays ==
    ASSUME NEW file, File(file), NEW new, new = SanitizeRecords(file), NEW again, again = CallIdsOf(new),
           NEW n \in DOMAIN file, Kept(file[n]), NEW k \in DOMAIN file[n].blocks,
           NEW b, b = file[n].blocks[k], NEW d, d = new[n].blocks[k],
           b.kind \in {"tool_use", "tool_result"}
    PROVE  Pseudonym(CallPseudonyms, again, d.id) = d.id
<1>1. PICK calls : calls = CallIdsOf(file)
  OBVIOUS
<1>2. again = [p \in DOMAIN calls |-> Pseudonym(CallPseudonyms, calls, calls[p])]
  BY <1>1, CallIdsReduced
<1>3. /\ DOMAIN calls \in SUBSET (Nat \X Nat) /\ IsFiniteSet(DOMAIN calls)
      /\ Cardinality(Range(calls)) <= Len(CallPseudonyms) /\ Range(calls) \subseteq AnyCallIds
  BY <1>1, CallIdsNumbered
<1>4. \A p \in DOMAIN calls : Pseudonym(CallPseudonyms, again, again[p]) = again[p]
  <2>1. CallPseudonyms \in Seq(CallIds) /\ IsInjective(CallPseudonyms)
    BY PseudonymAssumption
  <2> QED
    BY <1>2, <1>3, <2>1, Renumbered, SMTT(60)
<1>5. b \in Block /\ d.id = Pseudonym(CallPseudonyms, calls, b.id)
  BY <1>1, BlocksReduced
<1>6. b.id \in AnyCallIds \cup {NoCallId}
  BY <1>5 DEF Block, AnyCallIds
<1>7. CASE b.id = NoCallId
  <2>1. d.id = NoCallId
    BY <1>1, <1>5, <1>7, CallRenamed
  <2>2. File(new)
    BY LinesSanitized
  <2> QED
    BY <1>6, <1>7, <2>1, <2>2, CallRenamed
<1>8. CASE b.id # NoCallId
  <2>1. PICK p : p = <<n, k>>
    OBVIOUS
  <2>2. p[1] = n /\ p[2] = k /\ p \in {n} \X DOMAIN file[n].blocks
    BY <2>1
  <2>3. p \in DOMAIN calls /\ calls[p] = b.id
    BY <1>1, <1>8, <2>2, CallIdsNumbered
  <2>4. again[p] = d.id
    BY <1>2, <1>5, <2>3
  <2> QED
    BY <1>4, <2>3, <2>4
<1> QED
  BY <1>7, <1>8

LEMMA MessageIdStays ==
    ASSUME NEW file, File(file), NEW new, new = SanitizeRecords(file), NEW again, again = MessageIdsOf(new),
           NEW n \in DOMAIN file, Kept(file[n])
    PROVE  Pseudonym(MessagePseudonyms, again, new[n].id) = new[n].id
<1>1. PICK messages : messages = MessageIdsOf(file)
  OBVIOUS
<1>2. again = [p \in DOMAIN messages |-> Pseudonym(MessagePseudonyms, messages, messages[p])]
  BY <1>1, MessageIdsReduced
<1>3. /\ DOMAIN messages \in SUBSET (Nat \X Nat) /\ IsFiniteSet(DOMAIN messages)
      /\ Cardinality(Range(messages)) <= Len(MessagePseudonyms) /\ Range(messages) \subseteq MessageIds
  BY <1>1, MessageIdsNumbered
<1>4. \A p \in DOMAIN messages : Pseudonym(MessagePseudonyms, again, again[p]) = again[p]
  <2>1. MessagePseudonyms \in Seq(MessageIds) /\ IsInjective(MessagePseudonyms)
    BY PseudonymAssumption
  <2> QED
    BY <1>2, <1>3, <2>1, Renumbered, SMTT(60)
<1>5. File(new) /\ DOMAIN new = DOMAIN file /\ Kept(new[n])
  BY LinesSanitized
<1>6. PICK s : s = new[n]
  OBVIOUS
<1>7. s.id \in MessageIds \cup {NoMessageId}
  <2>1. s \in FileLines
    BY <1>5, <1>6, FileFields
  <2> QED
    BY <2>1, LineFields
<1>8. CASE s.id = NoMessageId
  BY <1>5, <1>6, <1>8, MessageRenamed
<1>9. CASE s.id # NoMessageId
  <2>1. PICK fresh : fresh = {m \in DOMAIN new : Kept(new[m]) /\ new[m].id # NoMessageId}
    OBVIOUS
  <2>2. DOMAIN again = fresh \X {1} /\ \A p \in DOMAIN again : again[p] = new[p[1]].id
    <3>1. File(new)
      BY <1>5
    <3>2. LET ids == MessageIdsOf(new) IN
          /\ DOMAIN ids = {m \in DOMAIN new : Kept(new[m]) /\ new[m].id # NoMessageId} \X {1}
          /\ \A p \in DOMAIN ids : ids[p] = new[p[1]].id
      BY ONLY <3>1, MessageIdsNumbered
    <3> QED
      BY <2>1, <3>2
  <2>3. n \in fresh
    BY <1>5, <1>6, <1>9, <2>1
  <2>4. PICK p : p = <<n, 1>>
    OBVIOUS
  <2>5. p \in DOMAIN again /\ again[p] = s.id
    BY <1>6, <2>2, <2>3, <2>4
  <2>6. p \in DOMAIN messages
    BY <1>2, <2>5
  <2> QED
    BY <1>4, <1>6, <2>5, <2>6
<1> QED
  BY <1>6, <1>8, <1>9

\* What is reduced is left as it is.
LEMMA ReducedTwice ==
    ASSUME NEW file, File(file), NEW new, new = SanitizeRecords(file)
    PROVE  SanitizeRecords(new) = new
<1>1. /\ File(new) /\ DOMAIN new = DOMAIN file
      /\ \A n \in DOMAIN file : Kept(new[n]) <=> Kept(file[n])
  BY LinesSanitized
<1>2. PICK calls : calls = CallIdsOf(new)
  OBVIOUS
<1>3. PICK messages : messages = MessageIdsOf(new)
  OBVIOUS
<1>4. ASSUME NEW n \in DOMAIN new, Kept(new[n])
      PROVE  SanitizedMessage(new[n], calls, messages) = new[n]
  <2>1. n \in DOMAIN file /\ Kept(file[n])
    BY <1>1, <1>4
  <2>2. PICK l \in FileLines : l = file[n]
    BY <2>1, FileFields
  <2>3. PICK s : s = new[n]
    OBVIOUS
  <2>4. PICK before : before = CallIdsOf(file)
    OBVIOUS
  <2>5. PICK named : named = MessageIdsOf(file)
    OBVIOUS
  <2>6. s = SanitizedMessage(l, before, named)
    BY <2>1, <2>2, <2>3, <2>4, <2>5, LinesSanitized
  <2>7. s \in FileLines
    BY <1>1, <2>3, FileFields
  <2>8. s \in Line
    BY <2>7, LineFields
  <2>9. [b \in DOMAIN s.blocks |-> SanitizedBlock(s.blocks[b], calls)] = s.blocks
    <3>1. ASSUME NEW k \in DOMAIN l.blocks
          PROVE  SanitizedBlock(s.blocks[k], calls) = s.blocks[k]
      <4>1. PICK b : b = l.blocks[k]
        OBVIOUS
      <4>2. PICK d : d = s.blocks[k]
        OBVIOUS
      <4>3. /\ b \in Block /\ d = SanitizedBlock(b, before)
            /\ Pseudonym(CallPseudonyms, before, b.id) \in AnyCallIds \cup {NoCallId}
        BY <2>1, <2>2, <2>3, <2>4, <4>1, <4>2, BlocksReduced
      <4>4. b.kind \in {"tool_use", "tool_result"} => Pseudonym(CallPseudonyms, calls, d.id) = d.id
        BY <1>2, <2>1, <2>2, <2>3, <4>1, <4>2, CallIdStays
      <4> QED
        BY <4>2, <4>3, <4>4, BlockStays
    <3>2. DOMAIN s.blocks = DOMAIN l.blocks
      BY <2>1, <2>2, <2>3, BlocksReduced
    <3>3. s.blocks \in Seq(Block) /\ s.blocks = [b \in DOMAIN s.blocks |-> s.blocks[b]]
      BY <2>7, LineFields
    <3> QED
      BY <3>1, <3>2, <3>3
  <2>10. ~NonListContent(s)
    <3>1. /\ NonListContent(l) => s.content = "string"
          /\ ~NonListContent(l) => s.content = l.content
      BY <2>2, <2>6, ChangedContent
    <3> QED
      BY <3>1 DEF NonListContent
  <2>11. Pseudonym(MessagePseudonyms, messages, s.id) = s.id
    BY <1>3, <2>1, <2>3, MessageIdStays
  <2>12. [f \in MetaFields |->
             IF f \in ReplacedMeta(s.meta) THEN Placeholder ELSE s.meta[f]] = s.meta
    <3>1. \A f \in MetaFields :
             s.meta[f] = IF f \in ReplacedMeta(l.meta) THEN Placeholder ELSE l.meta[f]
      BY <2>2, <2>6, ChangedMeta
    <3>2. s.meta = [f \in MetaFields |-> s.meta[f]]
      BY <2>7, LineFields
    <3>3. \A f \in ReplacedMeta(s.meta) : f \in ReplacedMeta(l.meta)
      BY <3>1 DEF ReplacedMeta, MetaFields
    <3> QED
      BY <3>1, <3>2, <3>3 DEF ReplacedMeta
  <2>13. SanitizedMessage(s, calls, messages)
           = [s EXCEPT !.blocks = s.blocks, !.content = s.content, !.text = s.text \/ FALSE,
                       !.id = s.id, !.meta = s.meta]
    BY <2>9, <2>10, <2>11, <2>12 DEF SanitizedMessage
  <2>14. (s.text \/ FALSE) = s.text
    BY <2>8 DEF Line
  <2>15. SanitizedMessage(s, calls, messages)
           = [s EXCEPT !.blocks = s.blocks, !.content = s.content, !.text = s.text,
                       !.id = s.id, !.meta = s.meta]
    BY <2>13, <2>14
  <2>16. [s EXCEPT !.blocks = s.blocks, !.content = s.content, !.text = s.text,
                   !.id = s.id, !.meta = s.meta] = s
    BY <2>8 DEF Line
  <2> QED
    BY <2>3, <2>15, <2>16
<1>5. ASSUME NEW n \in DOMAIN new, ~Kept(new[n])
      PROVE  new[n].shape = "object" /\ Skeleton(new[n].type, new[n].subtype) = new[n]
  BY <1>1, <1>5, LinesSanitized
<1>6. SanitizeRecords(new) =
        [n \in DOMAIN new |->
            IF Kept(new[n]) THEN SanitizedMessage(new[n], calls, messages)
            ELSE IF new[n].shape = "object" THEN Skeleton(new[n].type, new[n].subtype)
            ELSE Skeleton("unknown", "none")]
  BY <1>2, <1>3 DEF SanitizeRecords
<1>7. new = [n \in DOMAIN new |-> new[n]]
  BY <1>1 DEF File
<1> QED
  BY <1>4, <1>5, <1>6, <1>7

-----------------------------------------------------------------------------
(***************************************************************************)
(* The two passes of the parser.  Each starts as the parser does, and each *)
(* step of them is one of the parser on some file.                         *)
(***************************************************************************)

\* The sanitized log is empty before there is one, and then the reduction of a file.
ReducedInv == \E file : File(file) /\ sanitized = SanitizeRecords(file)

\* There is an empty log, and nothing is left of it.
LEMMA NothingReduced == File(<<>>) /\ SanitizeRecords(<<>>) = <<>>
<1>1. File(<<>>)
  BY BoundAssumption DEF File
<1>2. Len(SanitizeRecords(<<>>)) = 0 /\ SanitizeRecords(<<>>) \in Seq(FileLines)
  BY <1>1, LinesSanitized DEF File
<1> QED
  BY <1>1, <1>2

\* Each step is one of the parser, or the start of the second pass.
LEMMA SanitizerSteps ==
    ASSUME TypeInv, ReducedInv, [SanitizerNext]_sanitizerVars
    PROVE  \/ [AnyNext]_vars /\ UNCHANGED <<raw, sanitized>>
           \/ Sanitize
<1>1. CASE ParseRaw
  BY <1>1, NextIsAny DEF ParseRaw
<1>2. CASE ParseSanitized
  <2>1. PICK file : File(file) /\ sanitized = SanitizeRecords(file)
    BY DEF ReducedInv
  <2>2. sanitized \in Seq(FileLines)
    BY <2>1, LinesSanitized DEF File
  <2>3. ASSUME line_number < Len(sanitized) PROVE sanitized[line_number + 1] \in FileLines
    <3>1. line_number \in Nat /\ Len(sanitized) \in Nat
      BY <2>2 DEF TypeInv, TypeOK, line_number
    <3>2. line_number + 1 \in DOMAIN sanitized
      BY <2>2, <2>3, <3>1
    <3> QED
      BY <2>2, <3>2
  <2> QED
    BY <1>2, <2>3 DEF ParseSanitized, AnyNext
<1>3. CASE SanitizerEnded \/ UNCHANGED sanitizerVars
  BY <1>3 DEF SanitizerEnded, sanitizerVars
<1> QED
  BY <1>1, <1>2, <1>3 DEF SanitizerNext

\* The second pass starts as the first.
LEMMA SanitizeStarts == Sanitize => Init'
BY DEF Sanitize, ResetLocals, Init

\* The start of either pass, in the next state.
LEMMA TypeInvStart == Init' => TypeInv'
BY TypeInvInit, PTL

LEMMA ReducedStep ==
    ASSUME TypeInv, ReducedInv, [SanitizerNext]_sanitizerVars
    PROVE  TypeInv' /\ ReducedInv'
<1>1. CASE [AnyNext]_vars /\ UNCHANGED <<raw, sanitized>>
  BY <1>1, TypeInvStep DEF ReducedInv
<1>2. CASE Sanitize
  <2>1. TypeInv'
    BY <1>2, SanitizeStarts, TypeInvStart
  <2>2. File(log)
    BY DEF TypeInv, TypeOK, File
  <2>3. sanitized' = SanitizeRecords(log)
    BY <1>2 DEF Sanitize
  <2>4. PICK file : file = log
    OBVIOUS
  <2>5. File(file) /\ sanitized' = SanitizeRecords(file)
    BY <2>2, <2>3, <2>4
  <2> QED
    BY <2>1, <2>5 DEF ReducedInv
<1> QED
  BY <1>1, <1>2, SanitizerSteps

LEMMA ReducedInvariance == SanitizerSpec => [](TypeInv /\ ReducedInv)
<1>1. SanitizerInit => TypeInv /\ ReducedInv
  <2>1. SanitizerInit => TypeInv
    BY TypeInvInit DEF SanitizerInit
  <2>2. SanitizerInit => ReducedInv
    BY NothingReduced DEF SanitizerInit, ReducedInv
  <2> QED
    BY <2>1, <2>2
<1>2. TypeInv /\ ReducedInv /\ [SanitizerNext]_sanitizerVars => (TypeInv /\ ReducedInv)'
  BY ReducedStep
<1> QED
  BY <1>1, <1>2, PTL DEF SanitizerSpec

\* A reduced log is its own reduction, whatever the raw log holds.
THEOREM ReductionIsStable == SanitizerSpec => []SanitizingIsIdempotent
<1>1. ReducedInv => SanitizingIsIdempotent
  <2> SUFFICES ASSUME ReducedInv PROVE SanitizingIsIdempotent
    OBVIOUS
  <2>1. PICK file : File(file) /\ sanitized = SanitizeRecords(file)
    BY DEF ReducedInv
  <2>2. PICK new : new = sanitized
    OBVIOUS
  <2>3. SanitizeRecords(new) = new
    BY <2>1, <2>2, ReducedTwice
  <2> QED
    BY <2>2, <2>3 DEF SanitizingIsIdempotent
<1> QED
  BY <1>1, ReducedInvariance, PTL

-----------------------------------------------------------------------------
(***************************************************************************)
(* What a file says of its trajectory.  It says all of it that correlates: *)
(* a trajectory that follows a file has its turns, its calls and, at their *)
(* latest earlier callers, its results, each in the order of the file.     *)
(***************************************************************************)

\* The step of a turn has the id of an assistant's response, and no other id.
StepsNamed ==
    \A i \in DOMAIN steps :
        steps[i].source_message_id = (IF log[steps[i].source_line].role = "assistant"
                                      THEN log[steps[i].source_line].id ELSE NoMessageId)

LEMMA StepsNamedStep ==
    ASSUME TypeInv, CorrelationInv, TurnsInv, StepsNamed, [AnyNext]_vars
    PROVE  StepsNamed'
<1>1. \A n \in Turns : n \in 1 .. line_number /\ log'[n] = log[n]
  BY TurnsStep
<1>2. \A i \in DOMAIN steps : log'[steps[i].source_line] = log[steps[i].source_line]
  BY <1>1 DEF TurnsInv, TurnAt
<1>3. \A i \in DOMAIN steps : /\ i \in DOMAIN steps'
                              /\ steps'[i].source_line = steps[i].source_line
                              /\ steps'[i].source_message_id = steps[i].source_message_id
  BY TurnEffect DEF TurnsInv
<1>4. ASSUME NEW i \in DOMAIN steps
      PROVE  steps'[i].source_message_id = (IF log'[steps'[i].source_line].role = "assistant"
                                            THEN log'[steps'[i].source_line].id ELSE NoMessageId)
  BY <1>2, <1>3 DEF StepsNamed
<1>5. CASE Finishing /\ ~OnlyResults(line_number)
  <2>1. PICK n : /\ DOMAIN steps' = DOMAIN steps \cup {n}
                 /\ steps'[n].source_line = line_number
                 /\ steps'[n].source_message_id = (IF ConvertAssistant THEN record.id ELSE NoMessageId)
    BY <1>5, TurnEffect DEF TurnsInv
  <2>2. log' = log /\ record = log[line_number]
    BY <1>5, EndEffect DEF Finishing, record
  <2>3. ConvertAssistant <=> record.role = "assistant"
    BY <1>5 DEF Finishing, ConvertAssistant, ConvertUserOrSystem
  <2> QED
    BY <1>4, <2>1, <2>2, <2>3 DEF StepsNamed
<1>6. CASE ~(Finishing /\ ~OnlyResults(line_number))
  <2>1. DOMAIN steps' = DOMAIN steps
    BY <1>6, TurnEffect DEF TurnsInv
  <2> QED
    BY <1>4, <2>1 DEF StepsNamed
<1> QED
  BY <1>5, <1>6

\* A turn, and one that has a step of its own.
TurnLine(l) == Kept(l) /\ l.role \in SupportedTypes

TextLine(l) ==
    \/ l.content = "string" /\ l.text
    \/ \E b \in DOMAIN l.blocks : l.blocks[b].kind = "text" /\ l.blocks[b].valid /\ l.blocks[b].payload

StepLine(l) ==
    /\ TurnLine(l)
    /\ ~(/\ l.role = "user" /\ ~TextLine(l)
         /\ \E b \in DOMAIN l.blocks : l.blocks[b].kind = "tool_result")

\* A tool result of a user's turn.
ResultPlace(file, a) ==
    /\ a \in Nat \X Nat /\ a[1] \in DOMAIN file /\ TurnLine(file[a[1]]) /\ file[a[1]].role = "user"
    /\ a[2] \in DOMAIN file[a[1]].blocks /\ file[a[1]].blocks[a[2]].kind = "tool_result"

\* The latest step before a line that makes a call.
Makes(s, id) == \E c \in DOMAIN s.tool_calls : s.tool_calls[c] = id

LatestCaller(trajectory, i, n, id) ==
    /\ i \in DOMAIN trajectory /\ Makes(trajectory[i], id) /\ trajectory[i].source_line < n
    /\ \A k \in DOMAIN trajectory :
          k > i /\ Makes(trajectory[k], id) => trajectory[k].source_line > n

FollowsTurns(file, trajectory) ==
    /\ trajectory \in Seq(Step)
    /\ \A i, j \in DOMAIN trajectory : i < j => trajectory[i].source_line < trajectory[j].source_line
    /\ \A i \in DOMAIN trajectory :
          trajectory[i].source_line \in DOMAIN file /\ StepLine(file[trajectory[i].source_line])
    /\ \A n \in DOMAIN file :
          StepLine(file[n]) => \E i \in DOMAIN trajectory : trajectory[i].source_line = n

FollowsIds(file, trajectory) ==
    \A i \in DOMAIN trajectory : \A l : l = file[trajectory[i].source_line] =>
        /\ trajectory[i].source_message_id = (IF l.role = "assistant" THEN l.id ELSE NoMessageId)
        /\ IF l.role = "assistant"
             THEN IdsInOrder(trajectory[i].tool_calls, l.blocks, Len(l.blocks) + 1)
             ELSE trajectory[i].tool_calls = <<>>

Place(r) == <<r.line, r.item>>

FollowsResults(file, trajectory) ==
    /\ \A i \in DOMAIN trajectory : \A o \in DOMAIN trajectory[i].observation :
          \A a : a = Place(trajectory[i].observation[o]) =>
             /\ ResultPlace(file, a)
             /\ LatestCaller(trajectory, i, a[1], file[a[1]].blocks[a[2]].id)
    /\ \A i \in DOMAIN trajectory : \A o, p \in DOMAIN trajectory[i].observation :
          o < p => Precedes(Place(trajectory[i].observation[o]), Place(trajectory[i].observation[p]))
    /\ \A a : \A k \in DOMAIN trajectory :
          /\ ResultPlace(file, a)
          /\ trajectory[k].source_line < a[1]
          /\ Makes(trajectory[k], file[a[1]].blocks[a[2]].id)
          => \E i \in DOMAIN trajectory : \E o \in DOMAIN trajectory[i].observation :
                Place(trajectory[i].observation[o]) = a

\* What the parser has at its end follows what it has read.
ParserInv ==
    /\ TypeInv /\ CorrelationInv /\ DeliveryInv /\ OrphanHasNoCall
    /\ TurnsInv /\ CallsInOrder /\ StepsNamed

LEMMA TurnsFollow ==
    ASSUME ParserInv, pc = "done"
    PROVE  /\ line_number \in Nat /\ DOMAIN log = 1 .. line_number
           /\ \A n \in DOMAIN log : /\ Converted(n) <=> TurnLine(log[n])
                                    /\ n \in Turns /\ ~OnlyResults(n) <=> StepLine(log[n])
           /\ FollowsTurns(log, steps) /\ FollowsIds(log, steps)
<1>0. TypeInv /\ TurnsInv /\ CallsInOrder /\ StepsNamed
  BY DEF ParserInv
<1>1. line_number \in Nat /\ DOMAIN log = 1 .. line_number /\ Finished = 1 .. line_number
  BY <1>0 DEF TypeInv, TypeOK, line_number, Finished
<1>2. ASSUME NEW n \in DOMAIN log
      PROVE  /\ Converted(n) <=> TurnLine(log[n])
             /\ n \in Turns /\ ~OnlyResults(n) <=> StepLine(log[n])
  <2>1. Converted(n) <=> TurnLine(log[n])
    BY DEF Converted, Supported, TurnLine, Kept
  <2>2. HasText(n) <=> TextLine(log[n])
    BY DEF HasText, TextLine
  <2>3. OnlyResults(n) <=> log[n].role = "user" /\ ~TextLine(log[n])
                           /\ \E b \in DOMAIN log[n].blocks : log[n].blocks[b].kind = "tool_result"
    BY <2>2 DEF OnlyResults
  <2> QED
    BY <1>1, <2>1, <2>3 DEF StepLine, Turns
<1>3. steps \in Seq(Step)
  BY <1>0, StepFields
<1>4. \A i \in DOMAIN steps : steps[i].source_line \in Turns /\ ~OnlyResults(steps[i].source_line)
  BY <1>0 DEF TurnsInv, TurnAt
<1>5. \A i \in DOMAIN steps : steps[i].source_line \in DOMAIN log
  BY <1>1, <1>4 DEF Turns
<1>6. \A n \in DOMAIN log : StepLine(log[n]) => \E i \in DOMAIN steps : steps[i].source_line = n
  BY <1>0, <1>2 DEF TurnsInv
<1>7. FollowsTurns(log, steps)
  BY <1>0, <1>2, <1>3, <1>4, <1>5, <1>6 DEF FollowsTurns, TurnsInv
<1>8. FollowsIds(log, steps)
  BY <1>0 DEF FollowsIds, StepsNamed, CallsInOrder
<1> QED
  BY <1>1, <1>2, <1>7, <1>8

LEMMA ResultsFollow ==
    ASSUME ParserInv, pc = "done"
    PROVE  FollowsResults(log, steps)
<1>0. TypeInv /\ CorrelationInv /\ DeliveryInv /\ OrphanHasNoCall
  BY DEF ParserInv
<1>1. /\ line_number \in Nat /\ DOMAIN log = 1 .. line_number /\ Finished = 1 .. line_number
      /\ \A n \in DOMAIN log : Converted(n) <=> TurnLine(log[n])
  BY TurnsFollow DEF Finished
<1>2. \A n \in DOMAIN log : /\ DOMAIN log[n].blocks = 1 .. Len(log[n].blocks)
                            /\ Len(log[n].blocks) \in Nat /\ Len(log[n].blocks) <= MaxBlocks
  <2>1. ASSUME NEW n \in DOMAIN log
        PROVE  log[n].blocks \in Seq(Block) /\ Len(log[n].blocks) \in 0 .. MaxBlocks
    <3>1. log \in Seq(FileLines)
      BY <1>0 DEF TypeInv, TypeOK
    <3>2. log[n] \in FileLines
      BY <3>1
    <3> QED
      BY <3>2, LineFields
  <2> QED
    BY <2>1, BoundAssumption
<1>3. ASSUME NEW a PROVE a \in Arrived <=> ResultPlace(log, a)
  <2>1. ASSUME a \in Arrived PROVE ResultPlace(log, a)
    <3>1. a \in (1 .. line_number) \X (1 .. MaxBlocks) /\ a[2] <= Len(log[a[1]].blocks)
          /\ Converted(a[1]) /\ log[a[1]].role = "user" /\ log[a[1]].blocks[a[2]].kind = "tool_result"
      BY <2>1 DEF Arrived
    <3>2. a \in Nat \X Nat /\ a[1] \in DOMAIN log /\ a[2] \in 1 .. MaxBlocks
      BY <1>1, <3>1, BoundAssumption
    <3>3. a[2] \in DOMAIN log[a[1]].blocks
      BY <1>2, <3>1, <3>2
    <3> QED
      BY <1>1, <3>1, <3>2, <3>3 DEF ResultPlace
  <2>2. ASSUME ResultPlace(log, a) PROVE a \in Arrived
    <3>1. a \in Nat \X Nat /\ a[1] \in 1 .. line_number /\ a[2] \in 1 .. MaxBlocks
          /\ a[2] <= Len(log[a[1]].blocks)
      BY <1>1, <1>2, <2>2, BoundAssumption DEF ResultPlace
    <3>2. a \in (1 .. line_number) \X (1 .. MaxBlocks)
      BY <3>1
    <3> QED
      BY <1>1, <2>2, <3>1, <3>2 DEF ResultPlace, Arrived
  <2> QED
    BY <2>1, <2>2
<1>4. ASSUME NEW i \in DOMAIN steps, NEW o \in DOMAIN steps[i].observation,
             NEW a, a = Place(steps[i].observation[o])
      PROVE  /\ ResultPlace(log, a)
             /\ LatestCaller(steps, i, a[1], log[a[1]].blocks[a[2]].id)
  <2>1. PICK p : p = <<i, o>>
    OBVIOUS
  <2>2. p \in Placed /\ At(p) = steps[i].observation[o]
    BY <2>1 DEF Placed, At
  <2>3. FromFile(At(p))
    BY <1>0, <2>2 DEF DeliveryInv
  <2>4. a[1] = At(p).line /\ a[2] = At(p).item /\ a \in Arrived
    BY <1>4, <2>2, <2>3 DEF FromFile, Place
  <2>5. At(p).source_call_id = log[a[1]].blocks[a[2]].id
    BY <1>0, <2>2, <2>4, DeliveredId
  <2>6. LatestAt(i, o)
    BY <1>0 DEF CorrelationInv, Delivered
  <2>7. PICK id : id = log[a[1]].blocks[a[2]].id
    OBVIOUS
  <2>8. /\ MakesCall(i, id) /\ steps[i].source_line < a[1]
        /\ \A k \in i + 1 .. Len(steps) : MakesCall(k, id) => steps[k].source_line > a[1]
    BY <2>2, <2>4, <2>5, <2>6, <2>7 DEF LatestAt
  <2>9. i \in Nat /\ Len(steps) \in Nat /\ DOMAIN steps = 1 .. Len(steps)
    BY <1>0, StepFields
  <2>10. \A k \in DOMAIN steps : k > i => k \in i + 1 .. Len(steps)
    BY <2>9
  <2>11. LatestCaller(steps, i, a[1], id)
    BY <2>8, <2>10 DEF LatestCaller, Makes, MakesCall
  <2> QED
    BY <1>3, <2>4, <2>7, <2>11
<1>5. ASSUME NEW i \in DOMAIN steps, NEW o \in DOMAIN steps[i].observation,
             NEW p \in DOMAIN steps[i].observation, o < p
      PROVE  Precedes(Place(steps[i].observation[o]), Place(steps[i].observation[p]))
  <2>1. PICK x, y : x = <<i, o>> /\ y = <<i, p>>
    OBVIOUS
  <2>2. /\ x \in Placed /\ y \in Placed /\ x[1] = y[1] /\ x[2] < y[2]
        /\ At(x) = steps[i].observation[o] /\ At(y) = steps[i].observation[p]
    BY <1>5, <2>1 DEF Placed, At
  <2>3. Before(At(x), At(y))
    BY <1>0, <2>2 DEF DeliveryInv, InStepOrder
  <2> QED
    BY <2>2, <2>3 DEF Before, Precedes, Place
<1>6. ASSUME NEW a, NEW k \in DOMAIN steps, ResultPlace(log, a), steps[k].source_line < a[1],
             Makes(steps[k], log[a[1]].blocks[a[2]].id)
      PROVE  \E i \in DOMAIN steps : \E o \in DOMAIN steps[i].observation :
                Place(steps[i].observation[o]) = a
  <2>1. Waiting = {}
    <3>1. tool_results = <<>> /\ attached = 0
      BY <1>0 DEF TypeInv, LocalsOK
    <3>2. attached + 1 .. Len(tool_results) = {}
      BY <3>1
    <3> QED
      BY <3>2 DEF Waiting
  <2>2. a \in Arrived /\ MakesCall(k, log[a[1]].blocks[a[2]].id)
    BY <1>3, <1>6 DEF Makes, MakesCall
  <2>3. a \in {Origin(p) : p \in Placed}
    BY <1>0, <1>6, <2>1, <2>2 DEF OrphanHasNoCall
  <2>4. PICK p \in Placed : a = Origin(p)
    BY <2>3
  <2>5. p[1] \in DOMAIN steps /\ p[2] \in DOMAIN steps[p[1]].observation
    BY <2>4 DEF Placed
  <2> QED
    BY <2>4, <2>5 DEF Origin, At, Place
<1> QED
  BY <1>4, <1>5, <1>6 DEF FollowsResults

-----------------------------------------------------------------------------
(***************************************************************************)
(* A trajectory that follows a file is known from the file: of a list in   *)
(* order there is nothing to know but what is in it.                       *)
(***************************************************************************)

\* A list of places in order, and one that has the places of another.
Listed(m, s) ==
    /\ m \in Nat /\ DOMAIN s = 1 .. m /\ \A k \in 1 .. m : s[k] \in Nat \X Nat
    /\ \A j, k \in 1 .. m : j < k => Precedes(s[j], s[k])

Includes(n, t, m, s) == \A k \in 1 .. m : \E j \in 1 .. n : s[k] = t[j]

\* A list of places in order is the list of these places.
LEMMA ListIsInOrder ==
    ASSUME NEW m, NEW s, Listed(m, s)
    PROVE  /\ IsFiniteSet(Range(s)) /\ Cardinality(Range(s)) = m /\ Range(s) \in SUBSET (Nat \X Nat)
           /\ \A k \in 1 .. m : s[k] = InOrder(Range(s))[k]
<1> DEFINE R == Range(s)
           before(k) == {s[j] : j \in 1 .. k - 1}
<1>0. /\ m \in Nat /\ DOMAIN s = 1 .. m /\ \A k \in 1 .. m : s[k] \in Nat \X Nat
      /\ \A j, k \in 1 .. m : j < k => Precedes(s[j], s[k])
  BY DEF Listed
<1>1. /\ R \in SUBSET (Nat \X Nat) /\ \A t \in R : \E k \in 1 .. m : s[k] = t
      /\ \A k \in 1 .. m : s[k] \in R
  BY <1>0 DEF Range
<1>2. \A j, k \in 1 .. m : s[j] = s[k] => j = k
  <2>1. ASSUME NEW j \in 1 .. m, NEW k \in 1 .. m, s[j] = s[k] PROVE ~(j < k)
    BY <1>0, <2>1, PlacesOrdered
  <2>2. ASSUME NEW j \in 1 .. m, NEW k \in 1 .. m, s[j] = s[k] PROVE j = k
    <3>1. ~(j < k) /\ ~(k < j)
      BY <1>0, <2>1, <2>2
    <3> QED
      BY <3>1
  <2> QED
    BY <2>2
<1> HIDE DEF R
<1>3. IsFiniteSet(R) /\ Cardinality(R) = m
  <2>1. PICK f : f = [k \in 1 .. m |-> s[k]]
    OBVIOUS
  <2>2. f \in [1 .. m -> R] /\ (\A a, b \in 1 .. m : f[a] = f[b] => a = b)
        /\ \A t \in R : \E k \in 1 .. m : f[k] = t
    BY <1>0, <1>1, <1>2, <2>1
  <2>3. IsFiniteSet(1 .. m) /\ Cardinality(1 .. m) = m
    BY <1>0, UpTo
  <2>4. PICK M : M = 1 .. m
    OBVIOUS
  <2>5. IsFiniteSet(M) /\ f \in [M -> R] /\ (\A a, b \in M : f[a] = f[b] => a = b)
        /\ \A t \in R : \E k \in M : f[k] = t
    BY <2>2, <2>3, <2>4
  <2>6. IsFiniteSet(R) /\ Cardinality(R) = Cardinality(M)
    BY <2>5, SameSize
  <2> QED
    BY <2>3, <2>4, <2>6
<1>4. ASSUME NEW k \in 1 .. m PROVE s[k] = InOrder(R)[k]
  <2>1. Preceding(R, s[k]) = before(k)
    <3>1. \A j \in 1 .. m : Precedes(s[j], s[k]) <=> j < k
      <4>1. ASSUME NEW j \in 1 .. m, Precedes(s[j], s[k]) PROVE j < k
        <5>1. s[j] # s[k] /\ ~Precedes(s[k], s[j])
          BY <1>0, <4>1, PlacesOrdered
        <5>2. j # k /\ ~(k < j)
          BY <1>0, <5>1
        <5> QED
          BY <1>0, <5>2
      <4> QED
        BY <1>0, <4>1
    <3>2. \A j : j \in 1 .. k - 1 <=> j \in 1 .. m /\ j < k
      BY <1>0
    <3> QED
      BY <1>0, <1>1, <3>1, <3>2 DEF Preceding
  <2>2. Cardinality(before(k)) = k - 1
    <3>1. PICK f : f = [j \in 1 .. k - 1 |-> s[j]]
      OBVIOUS
    <3>2. PICK B : B = before(k)
      OBVIOUS
    <3>3. k - 1 \in Nat /\ \A j \in 1 .. k - 1 : j \in 1 .. m
      BY <1>0
    <3>4. f \in [1 .. k - 1 -> B] /\ (\A a, b \in 1 .. k - 1 : f[a] = f[b] => a = b)
          /\ \A t \in B : \E j \in 1 .. k - 1 : f[j] = t
      BY <1>0, <1>2, <3>1, <3>2, <3>3
    <3>5. IsFiniteSet(1 .. k - 1) /\ Cardinality(1 .. k - 1) = k - 1
      BY <3>3, UpTo
    <3> HIDE DEF before
    <3>6. Cardinality(B) = k - 1
      BY <3>4, <3>5, SameSize
    <3> QED
      BY <3>2, <3>6
  <2>3. s[k] \in R /\ Cardinality(Preceding(R, s[k])) = k - 1
    BY <1>0, <1>1, <2>1, <2>2
  <2>4. PICK p : p = s[k]
    OBVIOUS
  <2>5. PICK i : i = Cardinality(Preceding(R, p))
    OBVIOUS
  <2>6. InOrder(R)[i + 1] = p
    BY <1>1, <1>3, <2>3, <2>4, <2>5, ListedInOrder
  <2>7. i + 1 = k
    BY <1>0, <2>3, <2>4, <2>5
  <2> QED
    BY <2>4, <2>6, <2>7
<1> QED
  BY <1>0, <1>1, <1>3, <1>4 DEF R

\* So two lists of the same places are the same.
LEMMA SameList ==
    ASSUME NEW m, NEW s, Listed(m, s), NEW n, NEW t, Listed(n, t),
           Includes(n, t, m, s), Includes(m, s, n, t)
    PROVE  m = n /\ \A k \in 1 .. m : s[k] = t[k]
<1>0. DOMAIN s = 1 .. m /\ DOMAIN t = 1 .. n
  BY DEF Listed
<1>1. Range(s) = Range(t)
  <2>1. ASSUME NEW p \in Range(s) PROVE p \in Range(t)
    <3>1. PICK k \in 1 .. m : s[k] = p
      BY <1>0 DEF Range
    <3> QED
      BY <1>0, <3>1 DEF Range, Includes
  <2>2. ASSUME NEW p \in Range(t) PROVE p \in Range(s)
    <3>1. PICK k \in 1 .. n : t[k] = p
      BY <1>0 DEF Range
    <3> QED
      BY <1>0, <3>1 DEF Range, Includes
  <2> QED
    BY <2>1, <2>2
<1>2. Cardinality(Range(s)) = m /\ \A k \in 1 .. m : s[k] = InOrder(Range(s))[k]
  BY ListIsInOrder
<1>3. Cardinality(Range(t)) = n /\ \A k \in 1 .. n : t[k] = InOrder(Range(t))[k]
  BY ListIsInOrder
<1> QED
  BY <1>1, <1>2, <1>3

-----------------------------------------------------------------------------
(***************************************************************************)
(* What is correlated in a log is correlated in its reduction.             *)
(***************************************************************************)

\* The turns of a reduced log are those of the log.
LEMMA SameTurn ==
    ASSUME NEW file, File(file), NEW new, new = SanitizeRecords(file), NEW n \in DOMAIN file
    PROVE  /\ TurnLine(new[n]) <=> TurnLine(file[n])
           /\ StepLine(new[n]) <=> StepLine(file[n])
           /\ TurnLine(file[n]) => /\ Kept(file[n]) /\ new[n].role = file[n].role
                                   /\ new[n].id = Pseudonym(MessagePseudonyms, MessageIdsOf(file), file[n].id)
                                   /\ DOMAIN new[n].blocks = DOMAIN file[n].blocks
                                   /\ \A b \in DOMAIN file[n].blocks :
                                         /\ new[n].blocks[b].kind = file[n].blocks[b].kind
                                         /\ file[n].blocks[b].kind = "tool_use" =>
                                              new[n].blocks[b].valid = file[n].blocks[b].valid
                                         /\ file[n].blocks[b].kind \in {"tool_use", "tool_result"} =>
                                              new[n].blocks[b].id = Pseudonym(CallPseudonyms,
                                                  CallIdsOf(file), file[n].blocks[b].id)
<1>1. PICK calls : calls = CallIdsOf(file)
  OBVIOUS
<1>2. PICK messages : messages = MessageIdsOf(file)
  OBVIOUS
<1>3. PICK l \in FileLines : l = file[n]
  BY FileFields
<1>4. PICK s : s = new[n]
  OBVIOUS
<1>5. Kept(s) <=> Kept(l)
  BY <1>3, <1>4, LinesSanitized
<1>6. CASE ~Kept(l)
  BY <1>3, <1>4, <1>5, <1>6 DEF TurnLine, StepLine
<1>7. CASE Kept(l)
  <2>1. s = SanitizedMessage(l, calls, messages)
    BY <1>1, <1>2, <1>3, <1>4, <1>7, LinesSanitized
  <2>2. s.role = l.role /\ s.id = Pseudonym(MessagePseudonyms, messages, l.id)
    BY <2>1, KeptFields, ChangedId
  <2>3. DOMAIN s.blocks = DOMAIN l.blocks
        /\ \A b \in DOMAIN l.blocks : s.blocks[b] = SanitizedBlock(l.blocks[b], calls)
    BY <2>1, ChangedBlocks
  <2>4. ASSUME NEW b \in DOMAIN l.blocks
        PROVE  /\ s.blocks[b].kind = l.blocks[b].kind
               /\ l.blocks[b].kind \in {"tool_use", "text"} => /\ s.blocks[b].valid = l.blocks[b].valid
                                                               /\ s.blocks[b].payload = l.blocks[b].payload
               /\ l.blocks[b].kind \in {"tool_use", "tool_result"} =>
                     s.blocks[b].id = Pseudonym(CallPseudonyms, calls, l.blocks[b].id)
    <3>1. PICK x \in Block : x = l.blocks[b]
      BY <1>3, FileFields
    <3>2. PICK y : y = s.blocks[b]
      OBVIOUS
    <3>3. y = SanitizedBlock(x, calls)
      BY <2>3, <3>1, <3>2
    <3>4. Pseudonym(CallPseudonyms, calls, x.id) \in AnyCallIds \cup {NoCallId}
      <4>1. x.id \in AnyCallIds \cup {NoCallId}
        BY DEF Block, AnyCallIds
      <4> QED
        BY <1>1, <4>1, CallRenamed
    <3>5. /\ y.kind = x.kind
          /\ y.valid = (x.kind = "thinking" \/ x.valid)
          /\ y.payload = IF x.kind = "thinking" THEN (x.payload /\ x.valid) ELSE x.payload
          /\ x.kind \in {"tool_use", "tool_result"} => y.id = Pseudonym(CallPseudonyms, calls, x.id)
      BY <3>3, <3>4, BlockSanitized
    <3>6. x.valid \in BOOLEAN /\ x.payload \in BOOLEAN
      BY DEF Block
    <3> QED
      BY <3>1, <3>2, <3>5, <3>6
  <2>5. /\ NonListContent(l) => s.content = "string" /\ s.text
        /\ ~NonListContent(l) => s.content = l.content /\ s.text = l.text
    BY <2>1, ChangedContent
  <2>6. NonListContent(l) => l.blocks = <<>> /\ DOMAIN l.blocks = {}
    BY DEF FileLines, NonListContent
  <2>7. TurnLine(s) <=> TurnLine(l)
    BY <1>5, <2>2 DEF TurnLine
  <2>8. (\E b \in DOMAIN s.blocks : s.blocks[b].kind = "tool_result")
            <=> (\E b \in DOMAIN l.blocks : l.blocks[b].kind = "tool_result")
    BY <2>3, <2>4
  <2>9. ASSUME ~NonListContent(l) PROVE TextLine(s) <=> TextLine(l)
    <3>1. (s.content = "string" /\ s.text) <=> (l.content = "string" /\ l.text)
      BY <2>5, <2>9
    <3>2. (\E b \in DOMAIN s.blocks : s.blocks[b].kind = "text" /\ s.blocks[b].valid /\ s.blocks[b].payload)
            <=> (\E b \in DOMAIN l.blocks : l.blocks[b].kind = "text" /\ l.blocks[b].valid /\ l.blocks[b].payload)
      BY <2>3, <2>4
    <3> QED
      BY <3>1, <3>2 DEF TextLine
  <2>10. StepLine(s) <=> StepLine(l)
    BY <2>2, <2>6, <2>7, <2>8, <2>9 DEF StepLine
  <2> QED
    BY <1>1, <1>2, <1>3, <1>4, <1>7, <2>2, <2>3, <2>4, <2>7, <2>10
<1> QED
  BY <1>6, <1>7

\* So are its steps.
LEMMA StepsCarried ==
    ASSUME NEW file, File(file), NEW new, new = SanitizeRecords(file),
           NEW t, FollowsTurns(file, t), NEW u, FollowsTurns(new, u)
    PROVE  DOMAIN u = DOMAIN t /\ \A i \in DOMAIN t : u[i].source_line = t[i].source_line
<1>1. DOMAIN new = DOMAIN file /\ \A n \in DOMAIN file : n \in Nat /\ (StepLine(new[n]) <=> StepLine(file[n]))
  BY FileFields, LinesSanitized, SameTurn
<1>2. /\ t \in Seq(Step) /\ u \in Seq(Step)
      /\ \A i, j \in DOMAIN t : i < j => t[i].source_line < t[j].source_line
      /\ \A i, j \in DOMAIN u : i < j => u[i].source_line < u[j].source_line
      /\ \A i \in DOMAIN t : t[i].source_line \in DOMAIN file /\ StepLine(file[t[i].source_line])
      /\ \A i \in DOMAIN u : u[i].source_line \in DOMAIN new /\ StepLine(new[u[i].source_line])
      /\ \A n \in DOMAIN file : StepLine(file[n]) => \E i \in DOMAIN t : t[i].source_line = n
      /\ \A n \in DOMAIN new : StepLine(new[n]) => \E i \in DOMAIN u : u[i].source_line = n
  BY DEF FollowsTurns
<1>3. PICK p : p = [i \in DOMAIN t |-> <<t[i].source_line, 1>>]
  OBVIOUS
<1>4. PICK q : q = [i \in DOMAIN u |-> <<u[i].source_line, 1>>]
  OBVIOUS
<1>5. /\ Len(t) \in Nat /\ DOMAIN p = 1 .. Len(t) /\ Len(u) \in Nat /\ DOMAIN q = 1 .. Len(u)
      /\ DOMAIN t = 1 .. Len(t) /\ DOMAIN u = 1 .. Len(u)
  BY <1>2, <1>3, <1>4
<1>6. /\ \A i \in 1 .. Len(t) : p[i] = <<t[i].source_line, 1>> /\ p[i] \in Nat \X Nat
      /\ \A i \in 1 .. Len(u) : q[i] = <<u[i].source_line, 1>> /\ q[i] \in Nat \X Nat
  BY <1>1, <1>2, <1>3, <1>4, <1>5
<1>7. /\ \A i, j \in 1 .. Len(t) : i < j => Precedes(p[i], p[j])
      /\ \A i, j \in 1 .. Len(u) : i < j => Precedes(q[i], q[j])
  <2>1. ASSUME NEW i \in 1 .. Len(t), NEW j \in 1 .. Len(t), i < j PROVE Precedes(p[i], p[j])
    <3>1. t[i].source_line < t[j].source_line
      BY <1>2, <1>5, <2>1
    <3>2. p[i][1] = t[i].source_line /\ p[j][1] = t[j].source_line
      BY <1>6
    <3> QED
      BY <3>1, <3>2 DEF Precedes
  <2>2. ASSUME NEW i \in 1 .. Len(u), NEW j \in 1 .. Len(u), i < j PROVE Precedes(q[i], q[j])
    <3>1. u[i].source_line < u[j].source_line
      BY <1>2, <1>5, <2>2
    <3>2. q[i][1] = u[i].source_line /\ q[j][1] = u[j].source_line
      BY <1>6
    <3> QED
      BY <3>1, <3>2 DEF Precedes
  <2> QED
    BY <2>1, <2>2
<1>8. /\ \A i \in 1 .. Len(t) : \E j \in 1 .. Len(u) : p[i] = q[j]
      /\ \A i \in 1 .. Len(u) : \E j \in 1 .. Len(t) : q[i] = p[j]
  <2>1. ASSUME NEW i \in DOMAIN t PROVE \E j \in DOMAIN u : u[j].source_line = t[i].source_line
    BY <1>1, <1>2
  <2>2. ASSUME NEW i \in DOMAIN u PROVE \E j \in DOMAIN t : u[i].source_line = t[j].source_line
    BY <1>1, <1>2
  <2>3. ASSUME NEW i \in 1 .. Len(t) PROVE \E j \in 1 .. Len(u) : p[i] = q[j]
    <3>1. PICK j \in DOMAIN u : u[j].source_line = t[i].source_line
      BY <1>5, <2>1
    <3> QED
      BY <1>5, <1>6, <3>1
  <2>4. ASSUME NEW i \in 1 .. Len(u) PROVE \E j \in 1 .. Len(t) : q[i] = p[j]
    <3>1. PICK j \in DOMAIN t : u[i].source_line = t[j].source_line
      BY <1>5, <2>2
    <3> QED
      BY <1>5, <1>6, <3>1
  <2> QED
    BY <2>3, <2>4
<1>9. Len(t) = Len(u) /\ \A i \in 1 .. Len(t) : p[i] = q[i]
  <2>1. Listed(Len(t), p) /\ Listed(Len(u), q)
    BY <1>5, <1>6, <1>7 DEF Listed
  <2>2. Includes(Len(u), q, Len(t), p) /\ Includes(Len(t), p, Len(u), q)
    BY <1>8 DEF Includes
  <2> QED
    BY <2>1, <2>2, SameList
<1> QED
  BY <1>5, <1>6, <1>9

\* Each call of a message is that of a block.
LEMMA CallOfBlock ==
    ASSUME NEW blocks \in Seq(Block), NEW m \in Nat, NEW c \in 1 .. Cardinality(UsableBefore(blocks, m))
    PROVE  \E b \in UsableBefore(blocks, m) : Cardinality(UsableBefore(blocks, b)) + 1 = c
<1>1. PICK S : S = UsableBefore(blocks, m)
  OBVIOUS
<1>2. PICK f : f = [b \in S |-> Cardinality(UsableBefore(blocks, b)) + 1]
  OBVIOUS
<1>3. PICK N : N = Cardinality(S)
  OBVIOUS
<1>4. /\ IsFiniteSet(S) /\ N \in Nat
      /\ \A b \in S : b \in Nat /\ f[b] \in 1 .. N /\ f[b] = Cardinality(UsableBefore(blocks, b)) + 1
  <2>1. /\ IsFiniteSet(S) /\ N \in Nat
        /\ \A b \in S : /\ b \in Nat /\ Cardinality(UsableBefore(blocks, b)) \in Nat
                        /\ Cardinality(UsableBefore(blocks, b)) < N
    BY <1>1, <1>3, CallRank
  <2>2. \A b \in S : f[b] = Cardinality(UsableBefore(blocks, b)) + 1
    BY <1>2
  <2>3. ASSUME NEW b \in S PROVE f[b] \in 1 .. N
    <3>1. PICK r \in Nat : r = Cardinality(UsableBefore(blocks, b)) /\ r < N
      BY <2>1
    <3> QED
      BY <2>1, <2>2, <3>1
  <2> QED
    BY <2>1, <2>2, <2>3
<1>5. \A a, b \in S : f[a] = f[b] => a = b
  <2>1. ASSUME NEW a \in S, NEW b \in S, a < b PROVE f[a] < f[b]
    <3>1. a \in UsableBefore(blocks, b) /\ b \in Nat
      BY <1>1, <1>4, <2>1 DEF UsableBefore
    <3>2. /\ Cardinality(UsableBefore(blocks, a)) \in Nat /\ Cardinality(UsableBefore(blocks, b)) \in Nat
          /\ Cardinality(UsableBefore(blocks, a)) < Cardinality(UsableBefore(blocks, b))
      BY <3>1, CallRank
    <3> QED
      BY <1>4, <3>2
  <2>2. \A b \in S : f[b] \in Nat /\ b \in Nat
    BY <1>4
  <2>3. ASSUME NEW a \in S, NEW b \in S, f[a] = f[b] PROVE a = b
    <3>1. ~(a < b) /\ ~(b < a)
      BY <2>1, <2>2, <2>3
    <3> QED
      BY <2>2, <3>1
  <2> QED
    BY <2>3
<1>6. PICK T : T = Range(f)
  OBVIOUS
<1>7. T \subseteq 1 .. N /\ \A t \in T : \E b \in S : f[b] = t
  BY <1>2, <1>4, <1>6 DEF Range
<1>8. Cardinality(T) = N
  <2>1. f \in [S -> T]
    BY <1>2, <1>6 DEF Range
  <2>2. Cardinality(T) = Cardinality(S)
    BY <1>4, <1>5, <1>7, <2>1, SameSize
  <2> QED
    BY <1>3, <2>2
<1>9. PICK M : M = 1 .. N
  OBVIOUS
<1>10. IsFiniteSet(M) /\ Cardinality(M) = N /\ T \in SUBSET M
  BY <1>4, <1>7, <1>9, UpTo
<1>11. T = M
  BY <1>4, <1>8, <1>10, FS_Subset
<1> QED
  BY <1>1, <1>2, <1>3, <1>4, <1>7, <1>9, <1>11

\* The id of a call or of a result, if there is one, is one of the file.
LEMMA IdOfFile ==
    ASSUME NEW file, File(file), NEW calls, calls = CallIdsOf(file), NEW n \in DOMAIN file, Kept(file[n]),
           NEW k \in DOMAIN file[n].blocks, file[n].blocks[k].kind \in {"tool_use", "tool_result"},
           file[n].blocks[k].id # NoCallId
    PROVE  file[n].blocks[k].id \in Range(calls)
<1>1. PICK p : p = <<n, k>>
  OBVIOUS
<1>2. p \in {n} \X DOMAIN file[n].blocks /\ p[1] = n /\ p[2] = k
  BY <1>1
<1>3. p \in DOMAIN calls /\ calls[p] = file[n].blocks[k].id
  BY <1>2, CallIdsNumbered
<1> QED
  BY <1>3 DEF Range

\* So is that of a response.
LEMMA ResponseOfFile ==
    ASSUME NEW file, File(file), NEW messages, messages = MessageIdsOf(file),
           NEW n \in DOMAIN file, Kept(file[n]), file[n].id # NoMessageId
    PROVE  file[n].id \in Range(messages)
<1>1. PICK p : p = <<n, 1>>
  OBVIOUS
<1>2. p \in {m \in DOMAIN file : Kept(file[m]) /\ file[m].id # NoMessageId} \X {1} /\ p[1] = n
  BY <1>1
<1>3. p \in DOMAIN messages /\ messages[p] = file[n].id
  BY <1>2, MessageIdsNumbered
<1> QED
  BY <1>3 DEF Range

\* The usable calls of a reduced message are those of the message, and those that only a
\* blank id had kept out.
LEMMA CallsRevived ==
    ASSUME NEW file, File(file), NEW new, new = SanitizeRecords(file), NEW n \in DOMAIN file,
           TurnLine(file[n]), file[n].role = "assistant", NEW k
    PROVE  UsableBefore(new[n].blocks, k) =
              UsableBefore(file[n].blocks, k) \cup {b \in RevivedCalls(file[n]) : b < k}
<1>1. PICK calls : calls = CallIdsOf(file)
  OBVIOUS
<1>2. PICK l \in FileLines : l = file[n]
  BY FileFields
<1>3. PICK s : s = new[n]
  OBVIOUS
<1>4. /\ Kept(l) /\ DOMAIN s.blocks = DOMAIN l.blocks
      /\ \A b \in DOMAIN l.blocks :
            /\ s.blocks[b].kind = l.blocks[b].kind
            /\ l.blocks[b].kind = "tool_use" =>
                  /\ s.blocks[b].valid = l.blocks[b].valid
                  /\ s.blocks[b].id = Pseudonym(CallPseudonyms, calls, l.blocks[b].id)
  BY <1>1, <1>2, <1>3, SameTurn
<1>5. ASSUME NEW b \in DOMAIN l.blocks, l.blocks[b].kind = "tool_use"
      PROVE  s.blocks[b].id \in CallIds <=> l.blocks[b].id \in AnyCallIds
  <2>1. PICK id : id = l.blocks[b].id
    OBVIOUS
  <2>2. id \in AnyCallIds \cup {NoCallId} /\ s.blocks[b].id = Pseudonym(CallPseudonyms, calls, id)
    <3>1. PICK x \in Block : x = l.blocks[b]
      BY <1>2, FileFields
    <3>2. x.id \in AnyCallIds \cup {NoCallId}
      BY DEF Block, AnyCallIds
    <3> QED
      BY <1>4, <1>5, <2>1, <3>1, <3>2
  <2>3. id # NoCallId => id \in Range(calls)
    BY <1>1, <1>2, <1>4, <1>5, <2>1, IdOfFile
  <2> QED
    BY <1>1, <2>1, <2>2, <2>3, CallRenamed, SentinelAssumption DEF AnyCallIds
<1>6. ASSUME NEW b
      PROVE  b \in UsableBefore(s.blocks, k) <=>
                b \in UsableBefore(l.blocks, k) \/ (b \in RevivedCalls(l) /\ b < k)
  BY <1>2, <1>4, <1>5 DEF UsableBefore, UsableCall, RevivedCalls, AnyCallIds
<1> QED
  BY <1>2, <1>3, <1>6

\* They are that many more.
LEMMA RevivedCounted ==
    ASSUME NEW file, File(file), NEW new, new = SanitizeRecords(file), NEW n \in DOMAIN file,
           TurnLine(file[n]), file[n].role = "assistant",
           NEW m \in Nat, m = Len(file[n].blocks) + 1
    PROVE  /\ Cardinality(RevivedCalls(file[n])) \in Nat
           /\ Cardinality(UsableBefore(new[n].blocks, m)) =
                 Cardinality(UsableBefore(file[n].blocks, m)) + Cardinality(RevivedCalls(file[n]))
<1>1. PICK l \in FileLines : l = file[n]
  BY FileFields
<1>2. PICK U : U = UsableBefore(l.blocks, m)
  OBVIOUS
<1>3. PICK R : R = RevivedCalls(l)
  OBVIOUS
<1>4. l.blocks \in Seq(Block) /\ DOMAIN l.blocks = 1 .. Len(l.blocks) /\ Len(l.blocks) \in Nat
  BY <1>1, LineFields
<1>5. \A b \in R : b \in DOMAIN l.blocks /\ b < m
  BY <1>1, <1>3, <1>4 DEF RevivedCalls
<1>6. UsableBefore(new[n].blocks, m) = U \cup R
  BY <1>1, <1>2, <1>3, <1>5, CallsRevived
<1>7. U \cap R = {}
  BY <1>1, <1>2, <1>3, SentinelAssumption DEF UsableBefore, UsableCall, RevivedCalls
<1>8. IsFiniteSet(U)
  BY <1>2, <1>4, CallRank
<1>9. IsFiniteSet(R)
  <2>1. IsFiniteSet(1 .. Len(l.blocks)) /\ R \in SUBSET (1 .. Len(l.blocks))
    BY <1>4, <1>5, UpTo
  <2> QED
    BY <2>1, FS_Subset
<1> QED
  BY <1>1, <1>2, <1>3, <1>6, <1>7, <1>8, <1>9, DisjointUnion, FS_CardinalityType

\* No call of the file is kept out by a blank id only.
NoneRevived(file) == \A n \in DOMAIN file : RevivedCalls(file[n]) = {}

\* The steps of the reduced log have the pseudonyms of the responses of the log's steps,
\* and as many calls and the revived ones.
Renames(file, t, u) ==
    \A i \in DOMAIN t :
        /\ t[i].source_message_id \in Range(MessageIdsOf(file)) \cup {NoMessageId}
        /\ u[i].source_message_id = Pseudonym(MessagePseudonyms, MessageIdsOf(file), t[i].source_message_id)
        /\ Len(u[i].tool_calls) = Len(t[i].tool_calls) + Cardinality(RevivedCalls(file[t[i].source_line]))

\* If there are none of these, the calls have the pseudonyms of theirs.
RenamesCalls(file, t, u) ==
    \A i \in DOMAIN t :
        /\ DOMAIN u[i].tool_calls = DOMAIN t[i].tool_calls
        /\ \A c \in DOMAIN t[i].tool_calls :
              /\ t[i].tool_calls[c] \in Range(CallIdsOf(file))
              /\ u[i].tool_calls[c] = Pseudonym(CallPseudonyms, CallIdsOf(file), t[i].tool_calls[c])
              /\ u[i].tool_calls[c] # NoCallId

LEMMA StepsRenamed ==
    ASSUME NEW file, File(file), NEW new, new = SanitizeRecords(file),
           NEW t, FollowsTurns(file, t), FollowsIds(file, t),
           NEW u, FollowsTurns(new, u), FollowsIds(new, u)
    PROVE  Renames(file, t, u) /\ (NoneRevived(file) => RenamesCalls(file, t, u))
<1>1. PICK calls : calls = CallIdsOf(file)
  OBVIOUS
<1>2. PICK messages : messages = MessageIdsOf(file)
  OBVIOUS
<1>3. ASSUME NEW i \in DOMAIN t
      PROVE  /\ t[i].source_message_id \in Range(messages) \cup {NoMessageId}
             /\ u[i].source_message_id = Pseudonym(MessagePseudonyms, messages, t[i].source_message_id)
             /\ Len(u[i].tool_calls) = Len(t[i].tool_calls)
                                       + Cardinality(RevivedCalls(file[t[i].source_line]))
             /\ RevivedCalls(file[t[i].source_line]) = {} =>
                   /\ DOMAIN u[i].tool_calls = DOMAIN t[i].tool_calls
                   /\ \A c \in DOMAIN t[i].tool_calls :
                         /\ t[i].tool_calls[c] \in Range(calls)
                         /\ u[i].tool_calls[c] = Pseudonym(CallPseudonyms, calls, t[i].tool_calls[c])
                         /\ u[i].tool_calls[c] # NoCallId
  <2>1. PICK n \in DOMAIN file : n = t[i].source_line /\ TurnLine(file[n])
    BY DEF FollowsTurns, StepLine
  <2>2. i \in DOMAIN u /\ u[i].source_line = n
    BY <2>1, StepsCarried
  <2>3. PICK l \in FileLines : l = file[n]
    BY FileFields
  <2>4. PICK s : s = new[n]
    OBVIOUS
  <2>5. /\ Kept(l) /\ s.role = l.role /\ s.id = Pseudonym(MessagePseudonyms, messages, l.id)
        /\ DOMAIN s.blocks = DOMAIN l.blocks
        /\ \A b \in DOMAIN l.blocks :
              /\ s.blocks[b].kind = l.blocks[b].kind
              /\ l.blocks[b].kind = "tool_use" => s.blocks[b].valid = l.blocks[b].valid
              /\ l.blocks[b].kind \in {"tool_use", "tool_result"} =>
                    s.blocks[b].id = Pseudonym(CallPseudonyms, calls, l.blocks[b].id)
    BY <1>1, <1>2, <2>1, <2>3, <2>4, SameTurn
  <2>6. PICK x \in Step : x = t[i]
    BY ElementOfSeq DEF FollowsTurns
  <2>7. PICK y \in Step : y = u[i]
    BY <2>2, ElementOfSeq DEF FollowsTurns
  <2>8. /\ x.source_message_id = (IF l.role = "assistant" THEN l.id ELSE NoMessageId)
        /\ IF l.role = "assistant" THEN IdsInOrder(x.tool_calls, l.blocks, Len(l.blocks) + 1)
           ELSE x.tool_calls = <<>>
    BY <2>1, <2>3, <2>6 DEF FollowsIds
  <2>9. /\ y.source_message_id = (IF s.role = "assistant" THEN s.id ELSE NoMessageId)
        /\ IF s.role = "assistant" THEN IdsInOrder(y.tool_calls, s.blocks, Len(s.blocks) + 1)
           ELSE y.tool_calls = <<>>
    BY <2>2, <2>4, <2>7 DEF FollowsIds
  <2>10. Pseudonym(MessagePseudonyms, messages, NoMessageId) = NoMessageId
    BY <1>2, MessageRenamed
  <2>11. l.id = NoMessageId \/ l.id \in Range(messages)
    BY <1>2, <2>3, <2>5, ResponseOfFile
  <2>12. /\ x.source_message_id \in Range(messages) \cup {NoMessageId}
         /\ y.source_message_id = Pseudonym(MessagePseudonyms, messages, x.source_message_id)
    BY <2>5, <2>8, <2>9, <2>10, <2>11
  <2>13. x.tool_calls \in Seq(CallIds) /\ y.tool_calls \in Seq(CallIds)
    BY DEF Step
  <2>14. CASE l.role # "assistant"
    <3>1. x.tool_calls = <<>> /\ y.tool_calls = <<>>
      BY <2>5, <2>8, <2>9, <2>14
    <3>2. Cardinality(RevivedCalls(l)) = 0
      BY <2>14, FS_EmptySet DEF RevivedCalls
    <3> QED
      BY <2>1, <2>3, <2>6, <2>7, <2>12, <3>1, <3>2
  <2>15. CASE l.role = "assistant"
    <3>1. /\ l.blocks \in Seq(Block) /\ s.blocks \in Seq(Block) /\ Len(s.blocks) = Len(l.blocks)
          /\ Len(l.blocks) \in Nat
      <4>1. s \in FileLines /\ n \in DOMAIN new
        BY <2>1, <2>4, LinesSanitized, FileFields
      <4>2. l.blocks \in Seq(Block) /\ s.blocks \in Seq(Block)
        BY <4>1, LineFields
      <4>3. DOMAIN s.blocks = 1 .. Len(s.blocks) /\ Len(s.blocks) \in Nat
            /\ DOMAIN l.blocks = 1 .. Len(l.blocks) /\ Len(l.blocks) \in Nat
        BY <4>2
      <4>4. Len(s.blocks) = Cardinality(1 .. Len(s.blocks)) /\ Len(l.blocks) = Cardinality(1 .. Len(l.blocks))
        BY <4>3, UpTo
      <4>5. 1 .. Len(s.blocks) = 1 .. Len(l.blocks)
        BY <2>5, <4>3
      <4> QED
        BY <4>2, <4>3, <4>4, <4>5
    <3>2. PICK m \in Nat : m = Len(l.blocks) + 1
      BY <3>1
    <3>3. /\ Len(x.tool_calls) = Cardinality(UsableBefore(l.blocks, m))
          /\ Len(y.tool_calls) = Cardinality(UsableBefore(s.blocks, m))
      BY <2>5, <2>8, <2>9, <2>15, <3>1, <3>2 DEF IdsInOrder
    <3>4. Len(y.tool_calls) = Len(x.tool_calls) + Cardinality(RevivedCalls(l))
      BY <2>1, <2>3, <2>4, <2>15, <3>2, <3>3, RevivedCounted
    <3>5. ASSUME RevivedCalls(l) = {}
          PROVE  /\ DOMAIN y.tool_calls = DOMAIN x.tool_calls
                 /\ \A c \in DOMAIN x.tool_calls :
                       /\ x.tool_calls[c] \in Range(calls)
                       /\ y.tool_calls[c] = Pseudonym(CallPseudonyms, calls, x.tool_calls[c])
                       /\ y.tool_calls[c] # NoCallId
      <4>1. \A k : UsableBefore(s.blocks, k) = UsableBefore(l.blocks, k)
        <5>1. TurnLine(file[n]) /\ file[n].role = "assistant"
          BY <2>1, <2>3, <2>15
        <5>2. RevivedCalls(file[n]) = {}
          BY <2>3, <3>5
        <5>3. ASSUME NEW k PROVE UsableBefore(new[n].blocks, k) = UsableBefore(file[n].blocks, k)
          <6>1. UsableBefore(new[n].blocks, k) =
                   UsableBefore(file[n].blocks, k) \cup {b \in RevivedCalls(file[n]) : b < k}
            BY <5>1, CallsRevived
          <6>2. {b \in RevivedCalls(file[n]) : b < k} = {}
            BY <5>2
          <6> QED
            BY <6>1, <6>2
        <5> QED
          BY <2>3, <2>4, <5>3
      <4>2. /\ Len(y.tool_calls) = Cardinality(UsableBefore(l.blocks, m))
            /\ \A b \in UsableBefore(l.blocks, m) :
                  /\ x.tool_calls[Cardinality(UsableBefore(l.blocks, b)) + 1] = l.blocks[b].id
                  /\ y.tool_calls[Cardinality(UsableBefore(l.blocks, b)) + 1] = s.blocks[b].id
        BY <2>5, <2>8, <2>9, <2>15, <3>1, <3>2, <3>3, <4>1 DEF IdsInOrder
      <4>3. ASSUME NEW c \in DOMAIN x.tool_calls
            PROVE  /\ x.tool_calls[c] \in Range(calls)
                   /\ y.tool_calls[c] = Pseudonym(CallPseudonyms, calls, x.tool_calls[c])
                   /\ y.tool_calls[c] # NoCallId
        <5>1. c \in 1 .. Cardinality(UsableBefore(l.blocks, m)) /\ c \in DOMAIN y.tool_calls
          BY <2>13, <3>3, <4>2
        <5>2. PICK b \in UsableBefore(l.blocks, m) : Cardinality(UsableBefore(l.blocks, b)) + 1 = c
          BY <3>1, <5>1, CallOfBlock
        <5>3. x.tool_calls[c] = l.blocks[b].id /\ y.tool_calls[c] = s.blocks[b].id
          BY <4>2, <5>2
        <5>4. b \in DOMAIN l.blocks /\ l.blocks[b].kind = "tool_use"
          BY DEF UsableBefore
        <5>5. x.tool_calls[c] \in CallIds /\ y.tool_calls[c] \in CallIds
          BY <2>13, <5>1, ElementOfSeq
        <5>6. l.blocks[b].id # NoCallId /\ y.tool_calls[c] # NoCallId
          BY <5>3, <5>5, SentinelAssumption
        <5>7. l.blocks[b].id \in Range(calls)
          BY <1>1, <2>1, <2>3, <2>5, <5>4, <5>6, IdOfFile
        <5> QED
          BY <2>5, <5>3, <5>4, <5>6, <5>7
      <4>4. Len(x.tool_calls) = Len(y.tool_calls) /\ DOMAIN x.tool_calls = DOMAIN y.tool_calls
        <5>1. DOMAIN x.tool_calls = 1 .. Len(x.tool_calls) /\ DOMAIN y.tool_calls = 1 .. Len(y.tool_calls)
          BY <2>13
        <5> QED
          BY <3>3, <4>2, <5>1
      <4> QED
        BY <4>3, <4>4
    <3>6. t[i].source_line = n /\ file[n] = l /\ t[i] = x /\ u[i] = y
      BY <2>1, <2>3, <2>6, <2>7
    <3> QED
      BY ONLY <2>12, <3>4, <3>5, <3>6
  <2> QED
    BY <2>14, <2>15
<1>4. \A i \in DOMAIN t : t[i].source_line \in DOMAIN file
  BY DEF FollowsTurns
<1> QED
  BY <1>1, <1>2, <1>3, <1>4 DEF Renames, RenamesCalls, NoneRevived

\* Pseudonyms tell apart what the ids do.
LEMMA CallsToldApart ==
    ASSUME NEW file, File(file), NEW calls, calls = CallIdsOf(file),
           NEW a \in Range(calls), NEW b \in Range(calls)
    PROVE  Pseudonym(CallPseudonyms, calls, a) = Pseudonym(CallPseudonyms, calls, b) <=> a = b
<1>1. /\ DOMAIN calls \in SUBSET (Nat \X Nat) /\ IsFiniteSet(DOMAIN calls)
      /\ Cardinality(Range(calls)) <= Len(CallPseudonyms)
  BY CallIdsNumbered
<1>2. CallPseudonyms \in Seq(CallIds) /\ IsInjective(CallPseudonyms)
  BY PseudonymAssumption
<1> QED
  BY <1>1, <1>2, Renamed

LEMMA ResponsesToldApart ==
    ASSUME NEW file, File(file), NEW messages, messages = MessageIdsOf(file),
           NEW a \in Range(messages) \cup {NoMessageId}, NEW b \in Range(messages) \cup {NoMessageId}
    PROVE  Pseudonym(MessagePseudonyms, messages, a) = Pseudonym(MessagePseudonyms, messages, b) <=> a = b
<1>1. /\ DOMAIN messages \in SUBSET (Nat \X Nat) /\ IsFiniteSet(DOMAIN messages)
      /\ Cardinality(Range(messages)) <= Len(MessagePseudonyms) /\ Range(messages) \subseteq MessageIds
  BY MessageIdsNumbered
<1>2. MessagePseudonyms \in Seq(MessageIds) /\ IsInjective(MessagePseudonyms)
  BY PseudonymAssumption
<1>3. \A x, y \in Range(messages) :
         Pseudonym(MessagePseudonyms, messages, x) = Pseudonym(MessagePseudonyms, messages, y) => x = y
  BY <1>1, <1>2, Renamed
<1>4. \A x \in Range(messages) :
         Pseudonym(MessagePseudonyms, messages, x) \in MessageIds /\ x \in MessageIds
  BY <1>1, MessageRenamed
<1>5. Pseudonym(MessagePseudonyms, messages, NoMessageId) = NoMessageId
  BY MessageRenamed
<1> QED
  BY <1>3, <1>4, <1>5, SentinelAssumption

\* A result of the log is one of the reduced log, and the same steps make its call.
LEMMA ResultsCarried ==
    ASSUME NEW file, File(file), NEW new, new = SanitizeRecords(file),
           NEW t, NEW u, RenamesCalls(file, t, u), NEW a
    PROVE  /\ ResultPlace(new, a) <=> ResultPlace(file, a)
           /\ ResultPlace(file, a) =>
                 \A k \in DOMAIN t : Makes(t[k], file[a[1]].blocks[a[2]].id)
                                        <=> Makes(u[k], new[a[1]].blocks[a[2]].id)
<1>1. DOMAIN new = DOMAIN file
  BY LinesSanitized
<1>2. ResultPlace(new, a) <=> ResultPlace(file, a)
  BY <1>1, SameTurn DEF ResultPlace
<1>3. ASSUME ResultPlace(file, a), NEW k \in DOMAIN t
      PROVE  Makes(t[k], file[a[1]].blocks[a[2]].id) <=> Makes(u[k], new[a[1]].blocks[a[2]].id)
  <2>1. PICK calls : calls = CallIdsOf(file)
    OBVIOUS
  <2>2. PICK n, b : n \in DOMAIN file /\ n = a[1] /\ b = a[2]
    BY <1>3 DEF ResultPlace
  <2>3. TurnLine(file[n]) /\ b \in DOMAIN file[n].blocks /\ file[n].blocks[b].kind = "tool_result"
    BY <1>3, <2>2 DEF ResultPlace
  <2>4. PICK id : id = file[n].blocks[b].id
    OBVIOUS
  <2>5. Kept(file[n]) /\ new[n].blocks[b].id = Pseudonym(CallPseudonyms, calls, id)
    BY <2>1, <2>2, <2>3, <2>4, SameTurn
  <2>6. id = NoCallId \/ id \in Range(calls)
    BY <2>1, <2>2, <2>3, <2>4, <2>5, IdOfFile
  <2>7. NoCallId \notin Range(calls)
    <3>1. Range(calls) \subseteq AnyCallIds
      BY <2>1, CallIdsNumbered
    <3> QED
      BY <3>1, SentinelAssumption DEF AnyCallIds
  <2>8. Pseudonym(CallPseudonyms, calls, NoCallId) = NoCallId
    BY <2>1, CallRenamed
  <2>9. /\ DOMAIN u[k].tool_calls = DOMAIN t[k].tool_calls
        /\ \A c \in DOMAIN t[k].tool_calls :
              /\ t[k].tool_calls[c] \in Range(calls)
              /\ u[k].tool_calls[c] = Pseudonym(CallPseudonyms, calls, t[k].tool_calls[c])
              /\ u[k].tool_calls[c] # NoCallId
    BY <2>1 DEF RenamesCalls
  <2>10. \A c \in DOMAIN t[k].tool_calls :
            t[k].tool_calls[c] = id <=> u[k].tool_calls[c] = Pseudonym(CallPseudonyms, calls, id)
    <3>1. ASSUME NEW c \in DOMAIN t[k].tool_calls
          PROVE  t[k].tool_calls[c] = id <=> u[k].tool_calls[c] = Pseudonym(CallPseudonyms, calls, id)
      <4>1. PICK x \in Range(calls) : x = t[k].tool_calls[c]
        BY <2>9
      <4>2. CASE id = NoCallId
        BY <2>7, <2>8, <2>9, <4>1, <4>2
      <4>3. CASE id \in Range(calls)
        BY <2>1, <2>9, <4>1, <4>3, CallsToldApart
      <4> QED
        BY <2>6, <4>2, <4>3
    <3> QED
      BY <3>1
  <2> QED
    BY <2>2, <2>4, <2>5, <2>9, <2>10 DEF Makes
<1> QED
  BY <1>2, <1>3

\* So each result that a step of one trajectory has, the same step of the other has.
LEMMA CarriedOver ==
    ASSUME NEW file, NEW t, FollowsResults(file, t), NEW new, NEW u, FollowsResults(new, u),
           DOMAIN u = DOMAIN t, DOMAIN t \subseteq Nat,
           \A i \in DOMAIN t : u[i].source_line = t[i].source_line /\ t[i].source_line \in Nat,
           \A a : ResultPlace(file, a) =>
               /\ ResultPlace(new, a)
               /\ \A k \in DOMAIN t : Makes(t[k], file[a[1]].blocks[a[2]].id)
                                         <=> Makes(u[k], new[a[1]].blocks[a[2]].id),
           NEW i \in DOMAIN t, NEW o \in DOMAIN t[i].observation
    PROVE  \E p \in DOMAIN u[i].observation : Place(u[i].observation[p]) = Place(t[i].observation[o])
<1>1. PICK a : a = Place(t[i].observation[o])
  OBVIOUS
<1>2. PICK id : id = file[a[1]].blocks[a[2]].id
  OBVIOUS
<1>3. PICK name : name = new[a[1]].blocks[a[2]].id
  OBVIOUS
<1>4. ResultPlace(file, a) /\ LatestCaller(t, i, a[1], id)
  BY <1>1, <1>2 DEF FollowsResults
<1>5. ResultPlace(new, a) /\ \A k \in DOMAIN t : Makes(t[k], id) <=> Makes(u[k], name)
  BY <1>2, <1>3, <1>4
<1>6. /\ Makes(u[i], name) /\ u[i].source_line < a[1]
      /\ \A k \in DOMAIN t : k > i /\ Makes(u[k], name) => u[k].source_line > a[1]
  BY <1>4, <1>5 DEF LatestCaller
<1>7. PICK j \in DOMAIN u : \E p \in DOMAIN u[j].observation : Place(u[j].observation[p]) = a
  BY <1>3, <1>5, <1>6 DEF FollowsResults
<1>8. LatestCaller(u, j, a[1], name)
  BY <1>3, <1>7 DEF FollowsResults
<1>9. /\ Makes(u[j], name) /\ u[j].source_line < a[1]
      /\ \A k \in DOMAIN u : k > j /\ Makes(u[k], name) => u[k].source_line > a[1]
  BY <1>8 DEF LatestCaller
<1>10. a[1] \in Nat /\ u[i].source_line \in Nat /\ u[j].source_line \in Nat /\ i \in Nat /\ j \in Nat
  BY <1>5, <1>7 DEF ResultPlace
<1>11. i = j
  BY <1>6, <1>9, <1>10
<1> QED
  BY <1>1, <1>7, <1>11

\* The results of a step are a list in order of their places.
LEMMA ResultsListed ==
    ASSUME NEW file, NEW t, FollowsTurns(file, t), FollowsResults(file, t), NEW i \in DOMAIN t
    PROVE  \E m, s : /\ Listed(m, s) /\ DOMAIN t[i].observation = 1 .. m
                     /\ \A o \in DOMAIN t[i].observation : s[o] = Place(t[i].observation[o])
<1>1. PICK results : results = t[i].observation
  OBVIOUS
<1>2. results \in Seq(Result)
  <2>1. PICK x \in Step : x = t[i]
    BY ElementOfSeq DEF FollowsTurns
  <2> QED
    BY <1>1, <2>1 DEF Step
<1>3. PICK m \in Nat : DOMAIN results = 1 .. m
  BY <1>2
<1>4. PICK s : s = [o \in DOMAIN results |-> Place(results[o])]
  OBVIOUS
<1>5. \A o \in DOMAIN results : s[o] = Place(results[o])
  BY <1>4
<1>6. \A o \in 1 .. m : s[o] \in Nat \X Nat
  BY <1>1, <1>3, <1>5 DEF FollowsResults, ResultPlace
<1>7. \A o, p \in 1 .. m : o < p => Precedes(s[o], s[p])
  BY <1>1, <1>3, <1>5 DEF FollowsResults
<1>8. Listed(m, s)
  BY <1>3, <1>4, <1>6, <1>7 DEF Listed
<1> QED
  BY <1>1, <1>3, <1>5, <1>8

\* Both trajectories have the same steps, with the same results at the same places if no
\* call is revived.
LEMMA Correlated ==
    ASSUME NEW file, File(file), NEW new, new = SanitizeRecords(file),
           NEW t, FollowsTurns(file, t), FollowsIds(file, t), FollowsResults(file, t),
           NEW u, FollowsTurns(new, u), FollowsIds(new, u), FollowsResults(new, u), NoneRevived(file)
    PROVE  \A i \in DOMAIN t :
                 /\ DOMAIN u[i].observation = DOMAIN t[i].observation
                 /\ \A o \in DOMAIN t[i].observation :
                       Place(u[i].observation[o]) = Place(t[i].observation[o])
<1>1. DOMAIN u = DOMAIN t /\ \A i \in DOMAIN t : u[i].source_line = t[i].source_line
  BY StepsCarried
<1>2. RenamesCalls(file, t, u)
  BY StepsRenamed
<1>3. DOMAIN t \subseteq Nat /\ \A i \in DOMAIN t : t[i].source_line \in Nat
  <2>1. t \in Seq(Step) /\ DOMAIN t = 1 .. Len(t)
    BY DEF FollowsTurns
  <2>2. \A i \in DOMAIN t : t[i].source_line \in DOMAIN file
    BY DEF FollowsTurns
  <2> QED
    BY <2>1, <2>2, FileFields
<1>4. \A a : /\ ResultPlace(new, a) <=> ResultPlace(file, a)
             /\ ResultPlace(file, a) =>
                   \A k \in DOMAIN t : Makes(t[k], file[a[1]].blocks[a[2]].id)
                                          <=> Makes(u[k], new[a[1]].blocks[a[2]].id)
  BY <1>2, ResultsCarried
<1>5. \A i \in DOMAIN t : \A o \in DOMAIN t[i].observation :
         \E p \in DOMAIN u[i].observation : Place(u[i].observation[p]) = Place(t[i].observation[o])
  BY <1>1, <1>3, <1>4, CarriedOver
<1>6. \A i \in DOMAIN u : \A o \in DOMAIN u[i].observation :
         \E p \in DOMAIN t[i].observation : Place(t[i].observation[p]) = Place(u[i].observation[o])
  <2>1. DOMAIN u \subseteq Nat /\ \A i \in DOMAIN u : t[i].source_line = u[i].source_line /\ u[i].source_line \in Nat
    BY <1>1, <1>3
  <2>2. \A a : ResultPlace(new, a) =>
            /\ ResultPlace(file, a)
            /\ \A k \in DOMAIN u : Makes(u[k], new[a[1]].blocks[a[2]].id)
                                      <=> Makes(t[k], file[a[1]].blocks[a[2]].id)
    BY <1>1, <1>4
  <2> QED
    BY <1>1, <2>1, <2>2, CarriedOver
<1>7. ASSUME NEW i \in DOMAIN t
      PROVE  /\ DOMAIN u[i].observation = DOMAIN t[i].observation
             /\ \A o \in DOMAIN t[i].observation : Place(u[i].observation[o]) = Place(t[i].observation[o])
  <2>1. PICK m, s : /\ Listed(m, s) /\ DOMAIN t[i].observation = 1 .. m
                    /\ \A o \in DOMAIN t[i].observation : s[o] = Place(t[i].observation[o])
    BY ResultsListed
  <2>2. PICK n, q : /\ Listed(n, q) /\ DOMAIN u[i].observation = 1 .. n
                    /\ \A o \in DOMAIN u[i].observation : q[o] = Place(u[i].observation[o])
    BY <1>1, ResultsListed
  <2>3. Includes(n, q, m, s)
    <3>1. ASSUME NEW o \in 1 .. m PROVE \E p \in 1 .. n : s[o] = q[p]
      <4>1. PICK p \in DOMAIN u[i].observation : Place(u[i].observation[p]) = Place(t[i].observation[o])
        BY <1>5, <2>1
      <4> QED
        BY <2>1, <2>2, <4>1
    <3> QED
      BY <3>1 DEF Includes
  <2>4. Includes(m, s, n, q)
    <3>1. ASSUME NEW o \in 1 .. n PROVE \E p \in 1 .. m : q[o] = s[p]
      <4>1. PICK p \in DOMAIN t[i].observation : Place(t[i].observation[p]) = Place(u[i].observation[o])
        BY <1>1, <1>6, <2>2
      <4> QED
        BY <2>1, <2>2, <4>1
    <3> QED
      BY <3>1 DEF Includes
  <2>5. m = n /\ \A k \in 1 .. m : s[k] = q[k]
    BY <2>1, <2>2, <2>3, <2>4, SameList
  <2> QED
    BY <2>1, <2>2, <2>5
<1> QED
  BY <1>7

-----------------------------------------------------------------------------
(***************************************************************************)
(* In the second pass there is a first trajectory, which follows its file, *)
(* and the file that is read is the reduction of the first, up to a line.  *)
(***************************************************************************)

ComparisonInv ==
    raw # <<>> =>
        /\ File(raw.log) /\ sanitized = SanitizeRecords(raw.log)
        /\ FollowsTurns(raw.log, raw.steps) /\ FollowsIds(raw.log, raw.steps)
        /\ FollowsResults(raw.log, raw.steps)
        /\ Len(log) <= Len(sanitized) /\ \A n \in DOMAIN log : log[n] = sanitized[n]
        /\ pc = "done" => Len(log) = Len(sanitized)

\* The invariants of the parser hold of either pass.
LEMMA ParserInvInit == Init => ParserInv
BY TypeInvInit, CorrelationInit, DeliveryInit, OrphanInit, TurnsInvInit, CallsInOrderInit
   DEF ParserInv, StepsNamed, Init

LEMMA ParserInvStart == Init' => ParserInv'
BY ParserInvInit, PTL

LEMMA ParserInvStep ==
    ASSUME ParserInv, [AnyNext]_vars
    PROVE  ParserInv'
<1>1. /\ TypeInv /\ CorrelationInv /\ DeliveryInv /\ OrphanHasNoCall
      /\ TurnsInv /\ CallsInOrder /\ StepsNamed
  BY DEF ParserInv
<1>2. TypeInv' /\ CorrelationInv' /\ DeliveryInv'
  BY <1>1, TypeInvStep, CorrelationStep, DeliveryStep
<1>3. OrphanHasNoCall' /\ TurnsInv'
  BY <1>1, OrphanStep, TurnsInvStep
<1>4. CallsInOrder' /\ StepsNamed'
  BY <1>1, CallsInOrderStep, StepsNamedStep
<1> QED
  BY <1>2, <1>3, <1>4 DEF ParserInv

\* A step of the second pass reads the next line of the reduced log, or none.
LEMMA ReadsReduced ==
    ASSUME ParserInv, ReducedInv, ParseSanitized
    PROVE  \/ /\ Len(log) < Len(sanitized) /\ log' = Append(log, sanitized[Len(log) + 1])
              /\ pc' # "done"
           \/ /\ log' = log /\ pc' # "done"
           \/ /\ log' = log /\ Len(log) = Len(sanitized)
<1>0. TypeInv /\ CorrelationInv
  BY DEF ParserInv
<1>1. sanitized \in Seq(FileLines) /\ Len(log) \in Nat
  <2>1. PICK file : File(file) /\ sanitized = SanitizeRecords(file)
    BY DEF ReducedInv
  <2>2. sanitized \in Seq(FileLines)
    BY <2>1, LinesSanitized DEF File
  <2> QED
    BY <1>0, <2>2 DEF TypeInv, TypeOK
<1>2. PICK l : l = sanitized[line_number + 1]
  OBVIOUS
<1>3. CASE line_number < Len(sanitized) /\ (SkipLine(l) \/ Raise(l) \/ ReadRecord(l))
  <2>1. Len(sanitized) \in Nat /\ line_number = Len(log)
    BY <1>1 DEF line_number
  <2>2. line_number + 1 \in DOMAIN sanitized
    BY <1>1, <1>3, <2>1
  <2>3. l \in FileLines
    BY <1>1, <1>2, <2>2, ElementOfSeq
  <2>4. log' = Append(log, l) /\ pc' # "done"
    BY <1>0, <1>3, <2>3, SkipEffect, ReadEffect
  <2> QED
    BY <1>2, <1>3, <2>1, <2>4
<1>4. CASE NextBlock
  BY <1>0, <1>4, BlockEffect
<1>5. CASE AttachResult \/ OrphanResult
  BY <1>0, <1>5, ResultEffect
<1>6. CASE ConvertAssistant \/ ConvertUserOrSystem
  BY <1>0, <1>6, EndEffect
<1>7. CASE line_number = Len(sanitized) /\ EndOfFile
  BY <1>7 DEF EndOfFile, line_number
<1> QED
  BY <1>2, <1>3, <1>4, <1>5, <1>6, <1>7 DEF ParseSanitized

LEMMA ComparisonStep ==
    ASSUME ParserInv, ReducedInv, ComparisonInv, [SanitizerNext]_sanitizerVars
    PROVE  ParserInv' /\ ReducedInv' /\ ComparisonInv'
<1>0. TypeInv
  BY DEF ParserInv
<1>1. ReducedInv'
  BY <1>0, ReducedStep
<1>2. ParserInv'
  <2>1. CASE [AnyNext]_vars
    BY <2>1, ParserInvStep
  <2>2. CASE Sanitize
    BY <2>2, SanitizeStarts, ParserInvStart
  <2> QED
    BY <1>0, <2>1, <2>2, SanitizerSteps
<1>3. CASE ParseRaw
  BY <1>1, <1>2, <1>3 DEF ParseRaw, ComparisonInv
<1>4. CASE Sanitize
  <2>1. /\ pc = "done" /\ log' = <<>> /\ pc' = "reading" /\ sanitized' = SanitizeRecords(log)
        /\ raw' = [log |-> log, steps |-> steps, fidelity |-> fidelity, breakdown |-> breakdown]
    BY <1>4 DEF Sanitize
  <2>2. File(log) /\ FollowsTurns(log, steps) /\ FollowsIds(log, steps) /\ FollowsResults(log, steps)
    BY <1>0, <2>1, TurnsFollow, ResultsFollow DEF TypeInv, TypeOK, File
  <2>3. PICK file, trajectory : file = log /\ trajectory = steps
    OBVIOUS
  <2>4. raw'.log = file /\ raw'.steps = trajectory /\ sanitized' = SanitizeRecords(file)
    BY <2>1, <2>3
  <2>5. PICK new : new = sanitized'
    OBVIOUS
  <2>6. Len(new) \in Nat
    BY <2>2, <2>3, <2>4, <2>5, LinesSanitized, FileFields
  <2>7. Len(log') <= Len(new) /\ DOMAIN log' = {} /\ pc' # "done"
    BY <2>1, <2>6
  <2>8. /\ File(file) /\ FollowsTurns(file, trajectory) /\ FollowsIds(file, trajectory)
        /\ FollowsResults(file, trajectory)
    BY <2>2, <2>3
  <2> QED
    BY <1>1, <1>2, <2>4, <2>5, <2>7, <2>8 DEF ComparisonInv
<1>5. CASE ParseSanitized
  <2>1. raw' = raw /\ sanitized' = sanitized /\ raw # <<>>
    BY <1>5 DEF ParseSanitized
  <2>2. /\ Len(log) <= Len(sanitized) /\ \A n \in DOMAIN log : log[n] = sanitized[n]
    BY <2>1 DEF ComparisonInv
  <2>3. log \in Seq(FileLines) /\ Len(log) \in Nat /\ DOMAIN log = 1 .. Len(log)
    BY <1>0 DEF TypeInv, TypeOK
  <2>4. Len(sanitized) \in Nat
    <3>1. PICK file : File(file) /\ sanitized = SanitizeRecords(file)
      BY DEF ReducedInv
    <3> QED
      BY <3>1, LinesSanitized, FileFields
  <2>5. /\ Len(log') <= Len(sanitized) /\ \A n \in DOMAIN log' : log'[n] = sanitized[n]
        /\ pc' = "done" => Len(log') = Len(sanitized)
    <3>1. CASE /\ Len(log) < Len(sanitized) /\ log' = Append(log, sanitized[Len(log) + 1])
               /\ pc' # "done"
      <4>1. PICK l : l = sanitized[Len(log) + 1]
        OBVIOUS
      <4>2. PICK longer : longer = log'
        OBVIOUS
      <4>3. longer = Append(log, l)
        BY <3>1, <4>1, <4>2
      <4>4. /\ Len(longer) = Len(log) + 1 /\ DOMAIN longer = 1 .. Len(log) + 1
            /\ \A n \in 1 .. Len(log) : longer[n] = log[n]
            /\ longer[Len(log) + 1] = l
        <5>1. PICK S : log \in Seq(S) /\ l \in S
          <6>1. FileLines \subseteq FileLines \cup {l}
            OBVIOUS
          <6>2. log \in Seq(FileLines \cup {l})
            BY <2>3, <6>1, SeqDef
          <6> QED
            BY <6>2
        <5> QED
          BY <2>3, <4>3, <5>1, AppendProperties
      <4> QED
        BY <2>2, <2>3, <2>4, <3>1, <4>1, <4>2, <4>4
    <3>2. CASE log' = log /\ pc' # "done"
      BY <2>2, <3>2
    <3>3. CASE log' = log /\ Len(log) = Len(sanitized)
      BY <2>2, <2>4, <3>3
    <3> QED
      BY <1>5, <3>1, <3>2, <3>3, ReadsReduced
  <2> QED
    BY <1>1, <1>2, <2>1, <2>5 DEF ComparisonInv
<1>6. CASE SanitizerEnded \/ UNCHANGED sanitizerVars
  BY <1>1, <1>2, <1>6 DEF SanitizerEnded, sanitizerVars, vars, output, ComparisonInv
<1> QED
  BY <1>1, <1>2, <1>3, <1>4, <1>5, <1>6 DEF SanitizerNext

LEMMA ComparisonInvariance == SanitizerSpec => [](ParserInv /\ ReducedInv /\ ComparisonInv)
<1>1. SanitizerInit => ParserInv /\ ReducedInv /\ ComparisonInv
  <2> SUFFICES ASSUME SanitizerInit PROVE ParserInv /\ ReducedInv /\ ComparisonInv
    OBVIOUS
  <2>1. Init /\ raw = <<>> /\ sanitized = <<>>
    BY DEF SanitizerInit
  <2>2. ReducedInv
    BY <2>1, NothingReduced DEF ReducedInv
  <2> QED
    BY <2>1, <2>2, ParserInvInit DEF ComparisonInv
<1>2. /\ ParserInv /\ ReducedInv /\ ComparisonInv /\ [SanitizerNext]_sanitizerVars
      => (ParserInv /\ ReducedInv /\ ComparisonInv)'
  BY ComparisonStep
<1> QED
  BY <1>1, <1>2, PTL DEF SanitizerSpec

\* Whatever the log, the reduced one is converted to the same steps, with the calls they
\* had and those that only a blank id had kept out; if there are none of these, with the
\* same results, and ids are equal in it where they were.
THEOREM CorrelationPreserved == SanitizerSpec => []CorrelationSurvives
<1>1. ParserInv /\ ComparisonInv => CorrelationSurvives
  <2> SUFFICES ASSUME ParserInv, ComparisonInv, Compared PROVE CorrelationSurvives
    BY DEF CorrelationSurvives
  <2>1. PICK file, t : file = raw.log /\ t = raw.steps
    OBVIOUS
  <2>2. PICK new : new = SanitizeRecords(file)
    OBVIOUS
  <2>3. /\ File(file) /\ FollowsTurns(file, t) /\ FollowsIds(file, t) /\ FollowsResults(file, t)
        /\ sanitized = new
        /\ Len(log) = Len(sanitized) /\ \A n \in DOMAIN log : log[n] = sanitized[n]
    BY <2>1, <2>2 DEF Compared, ComparisonInv
  <2>4. log = new
    <3>1. log \in Seq(FileLines) /\ new \in Seq(FileLines)
      BY <2>2, <2>3, LinesSanitized DEF ParserInv, TypeInv, TypeOK, File
    <3>2. \A n \in 1 .. Len(log) : log[n] = new[n]
      BY <2>3, <3>1
    <3> QED
      BY <2>3, <3>1, <3>2, SeqEqual
  <2>5. FollowsTurns(new, steps) /\ FollowsIds(new, steps) /\ FollowsResults(new, steps)
    BY <2>4, TurnsFollow, ResultsFollow DEF Compared
  <2>6. PICK u : u = steps
    OBVIOUS
  <2>7. /\ DOMAIN u = DOMAIN t /\ \A i \in DOMAIN t : u[i].source_line = t[i].source_line
        /\ Renames(file, t, u) /\ (NoneRevived(file) => RenamesCalls(file, t, u))
    BY <2>2, <2>3, <2>5, <2>6, StepsCarried, StepsRenamed
  <2>8. SameSteps
    BY <2>1, <2>6, <2>7 DEF SameSteps
  <2>9. \A i, j \in DOMAIN u :
           u[i].source_message_id = u[j].source_message_id <=> t[i].source_message_id = t[j].source_message_id
    BY <2>3, <2>7, ResponsesToldApart DEF Renames
  <2>10. \A i \in DOMAIN u : Len(u[i].tool_calls) = Len(t[i].tool_calls)
                                    + Cardinality(RevivedCalls(file[u[i].source_line]))
    BY <2>7 DEF Renames
  <2>11. ASSUME NoneRevived(file) PROVE SameResults
    <3>1. ASSUME NEW i \in DOMAIN u
          PROVE  [o \in DOMAIN u[i].observation |-> <<u[i].observation[o].line, u[i].observation[o].item>>]
                    = [o \in DOMAIN t[i].observation |-> <<t[i].observation[o].line, t[i].observation[o].item>>]
      <4>1. /\ DOMAIN u[i].observation = DOMAIN t[i].observation
            /\ \A o \in DOMAIN t[i].observation : Place(u[i].observation[o]) = Place(t[i].observation[o])
        BY <2>2, <2>3, <2>5, <2>6, <2>7, <2>11, Correlated
      <4> QED
        BY <4>1 DEF Place
    <3> QED
      BY <2>1, <2>6, <3>1 DEF SameResults, Origin, At
  <2>12. ASSUME NoneRevived(file) PROVE SameCalls
    <3>1. \A i \in DOMAIN u : Len(u[i].tool_calls) = Len(t[i].tool_calls)
      <4>1. \A i \in DOMAIN u : Cardinality(RevivedCalls(file[u[i].source_line])) = 0
        <5>1. \A i \in DOMAIN u : u[i].source_line \in DOMAIN file
          BY <2>3, <2>7 DEF FollowsTurns
        <5> QED
          BY <2>12, <5>1, FS_EmptySet DEF NoneRevived
      <4>2. \A i \in DOMAIN t : Len(t[i].tool_calls) \in Nat
        <5>1. \A i \in DOMAIN t : t[i] \in Step
          BY <2>3, ElementOfSeq DEF FollowsTurns
        <5>2. \A x \in Step : Len(x.tool_calls) \in Nat
          BY DEF Step
        <5> QED
          BY <5>1, <5>2
      <4> QED
        BY <2>7, <2>10, <4>1, <4>2
    <3>2. \A i, j \in DOMAIN u : \A c \in DOMAIN u[i].tool_calls, d \in DOMAIN u[j].tool_calls :
             u[i].tool_calls[c] = u[j].tool_calls[d] <=> t[i].tool_calls[c] = t[j].tool_calls[d]
      BY <2>3, <2>7, <2>12, CallsToldApart DEF RenamesCalls
    <3> QED
      BY <2>1, <2>6, <3>1, <3>2 DEF SameCalls
  <2> QED
    BY <2>1, <2>6, <2>8, <2>9, <2>10, <2>11, <2>12 DEF CorrelationSurvives, NoneRevived
<1> QED
  BY <1>1, ComparisonInvariance, PTL
=============================================================================
