------------------------- MODULE BazaarCatalogProofs -------------------------
(***************************************************************************)
(* Proofs about BazaarCatalog, for any number of identities, items,        *)
(* indexers and clients and any page size.                                 *)
(***************************************************************************)
EXTENDS BazaarCatalog, FunctionTheorems, FiniteSetTheorems, SequenceTheorems, TLAPS

(***************************************************************************)
(* Sorting                                                                 *)
(***************************************************************************)

\* Smaller(S, i) has as many elements as there are places before i.
Smaller(S, i) == {j \in S : j < i}

\* Counting the smaller ones tells the elements of a finite set apart, and
\* counts up to its cardinality.
LEMMA SmallerCounts ==
    ASSUME NEW S \in SUBSET Nat, IsFiniteSet(S)
    PROVE  /\ \A i \in S : Cardinality(Smaller(S, i)) \in 0 .. Cardinality(S) - 1
           /\ \A i, k \in S : i < k => Cardinality(Smaller(S, i)) < Cardinality(Smaller(S, k))
           /\ \A n \in 1 .. Cardinality(S) : \E i \in S : Cardinality(Smaller(S, i)) = n - 1
<1>1. Cardinality(S) \in Nat
  BY FS_CardinalityType
<1>2. \A i \in S : IsFiniteSet(Smaller(S, i)) /\ Cardinality(Smaller(S, i)) \in Nat
  <2> SUFFICES ASSUME NEW i \in S
               PROVE  IsFiniteSet(Smaller(S, i)) /\ Cardinality(Smaller(S, i)) \in Nat
    OBVIOUS
  <2>1. Smaller(S, i) \in SUBSET S
    BY DEF Smaller
  <2> QED BY <2>1, FS_Subset, FS_CardinalityType
<1>3. \A i \in S : Cardinality(Smaller(S, i)) \in 0 .. Cardinality(S) - 1
  <2> SUFFICES ASSUME NEW i \in S
               PROVE  Cardinality(Smaller(S, i)) \in 0 .. Cardinality(S) - 1
    OBVIOUS
  <2>1. Smaller(S, i) \in SUBSET S /\ i \notin Smaller(S, i)
    BY DEF Smaller
  <2>2. Smaller(S, i) # S
    BY <2>1
  <2>3. /\ Cardinality(Smaller(S, i)) <= Cardinality(S)
        /\ Cardinality(Smaller(S, i)) # Cardinality(S)
    BY <2>1, <2>2, FS_Subset
  <2> QED BY <1>1, <1>2, <2>3
<1>4. \A i, k \in S : i < k => Cardinality(Smaller(S, i)) < Cardinality(Smaller(S, k))
  <2> SUFFICES ASSUME NEW i \in S, NEW k \in S, i < k
               PROVE  Cardinality(Smaller(S, i)) < Cardinality(Smaller(S, k))
    OBVIOUS
  <2>1. Smaller(S, i) \in SUBSET Smaller(S, k)
    <3> SUFFICES ASSUME NEW j \in S, j < i
                 PROVE  j < k
      BY DEF Smaller
    <3>1. i \in Nat /\ j \in Nat /\ k \in Nat
      OBVIOUS
    <3> QED BY <3>1
  <2>2. i \in Smaller(S, k) /\ i \notin Smaller(S, i)
    BY DEF Smaller
  <2>3. /\ Cardinality(Smaller(S, i)) <= Cardinality(Smaller(S, k))
        /\ Cardinality(Smaller(S, i)) # Cardinality(Smaller(S, k))
    BY <1>2, <2>1, <2>2, FS_Subset
  <2> QED BY <1>2, <2>3
<1>5. \A n \in 1 .. Cardinality(S) : \E i \in S : Cardinality(Smaller(S, i)) = n - 1
  <2> DEFINE place == [i \in S |-> Cardinality(Smaller(S, i)) + 1]
  <2>1. place \in [S -> 1 .. Cardinality(S)]
    BY <1>1, <1>3
  <2>2. \A i, k \in S : place[i] = place[k] => i = k
    <3> SUFFICES ASSUME NEW i \in S, NEW k \in S, place[i] = place[k], i # k
                 PROVE  FALSE
      OBVIOUS
    <3>1. Cardinality(Smaller(S, i)) = Cardinality(Smaller(S, k))
      BY <1>2
    <3>2. i < k \/ k < i
      OBVIOUS
    <3> QED BY <1>2, <1>4, <3>1, <3>2
  <2>3. place \in Injection(S, 1 .. Cardinality(S))
    BY <2>1, <2>2, Fun_IsInj
  <2>4. /\ IsFiniteSet(1 .. Cardinality(S))
        /\ Cardinality(1 .. Cardinality(S)) = Cardinality(S)
    BY <1>1, FS_Interval
  <2> HIDE DEF place
  <2>5. place \in Surjection(S, 1 .. Cardinality(S))
    BY <2>3, <2>4, FS_Injection
  <2>6. \A n \in 1 .. Cardinality(S) : \E i \in S : place[i] = n
    BY <2>5, Fun_SurjectionProperties
  <2> QED BY <1>2, <2>6 DEF place
<1> QED BY <1>3, <1>4, <1>5

\* Sorted yields a sequence of the set's elements, as long as the set.
LEMMA SortedType ==
    ASSUME NEW S \in SUBSET Nat, IsFiniteSet(S)
    PROVE  /\ Sorted(S) \in Seq(S) /\ Len(Sorted(S)) = Cardinality(S)
           /\ \A n \in 1 .. Cardinality(S) :
                 Sorted(S)[n] \in S /\ Cardinality(Smaller(S, Sorted(S)[n])) = n - 1
<1>1. Cardinality(S) \in Nat
  BY FS_CardinalityType
<1>2. \A n \in 1 .. Cardinality(S) :
         Sorted(S)[n] \in S /\ Cardinality(Smaller(S, Sorted(S)[n])) = n - 1
  <2> SUFFICES ASSUME NEW n \in 1 .. Cardinality(S)
               PROVE  Sorted(S)[n] \in S /\ Cardinality(Smaller(S, Sorted(S)[n])) = n - 1
    OBVIOUS
  <2>1. Sorted(S)[n] = CHOOSE i \in S : Cardinality(Smaller(S, i)) = n - 1
    BY DEF Sorted, Smaller
  <2>2. \E i \in S : Cardinality(Smaller(S, i)) = n - 1
    BY SmallerCounts
  <2> QED BY <2>1, <2>2
<1>3. Sorted(S) \in [1 .. Cardinality(S) -> S]
  <2> DEFINE nth(n) == CHOOSE i \in S : Cardinality(Smaller(S, i)) = n - 1
  <2>1. \A n \in 1 .. Cardinality(S) : nth(n) \in S
    BY SmallerCounts
  <2>2. Sorted(S) = [n \in 1 .. Cardinality(S) |-> nth(n)]
    BY DEF Sorted, Smaller
  <2> HIDE DEF nth
  <2> QED BY <2>1, <2>2
<1>4. Sorted(S) \in Seq(S) /\ Len(Sorted(S)) = Cardinality(S)
  BY <1>1, <1>3
<1> QED BY <1>2, <1>4

\* It is the sorted one: every element is in it, and they ascend.
LEMMA SortedSorts ==
    ASSUME NEW S \in SUBSET Nat, IsFiniteSet(S)
    PROVE  /\ \A i \in S : \E n \in 1 .. Cardinality(S) : Sorted(S)[n] = i
           /\ \A m, n \in 1 .. Cardinality(S) : m < n => Sorted(S)[m] < Sorted(S)[n]
<1>1. Cardinality(S) \in Nat
  BY FS_CardinalityType
<1>2. \A n \in 1 .. Cardinality(S) :
         Sorted(S)[n] \in S /\ Cardinality(Smaller(S, Sorted(S)[n])) = n - 1
  BY SortedType
<1>3. \A i, k \in S :
         /\ Cardinality(Smaller(S, i)) = Cardinality(Smaller(S, k)) => i = k
         /\ Cardinality(Smaller(S, i)) < Cardinality(Smaller(S, k)) => i < k
  <2> SUFFICES ASSUME NEW i \in S, NEW k \in S
               PROVE  /\ Cardinality(Smaller(S, i)) = Cardinality(Smaller(S, k)) => i = k
                      /\ Cardinality(Smaller(S, i)) < Cardinality(Smaller(S, k)) => i < k
    OBVIOUS
  <2>1. /\ Cardinality(Smaller(S, i)) \in 0 .. Cardinality(S) - 1
        /\ Cardinality(Smaller(S, k)) \in 0 .. Cardinality(S) - 1
        /\ i < k => Cardinality(Smaller(S, i)) < Cardinality(Smaller(S, k))
        /\ k < i => Cardinality(Smaller(S, k)) < Cardinality(Smaller(S, i))
    BY SmallerCounts
  <2>2. i \in Nat /\ k \in Nat
    OBVIOUS
  <2> QED BY <1>1, <2>1, <2>2
<1>4. ASSUME NEW i \in S
      PROVE  \E n \in 1 .. Cardinality(S) : Sorted(S)[n] = i
  <2>1. Cardinality(Smaller(S, i)) \in 0 .. Cardinality(S) - 1
    BY SmallerCounts
  <2>2. PICK n \in 1 .. Cardinality(S) : Cardinality(Smaller(S, i)) = n - 1
    BY <1>1, <2>1
  <2> QED BY <1>2, <1>3, <2>2
<1>5. ASSUME NEW m \in 1 .. Cardinality(S), NEW n \in 1 .. Cardinality(S), m < n
      PROVE  Sorted(S)[m] < Sorted(S)[n]
  <2>1. /\ Sorted(S)[m] \in S /\ Cardinality(Smaller(S, Sorted(S)[m])) = m - 1
        /\ Sorted(S)[n] \in S /\ Cardinality(Smaller(S, Sorted(S)[n])) = n - 1
    BY <1>2
  <2>2. m - 1 < n - 1
    BY <1>1, <1>5
  <2>3. Cardinality(Smaller(S, Sorted(S)[m])) < Cardinality(Smaller(S, Sorted(S)[n]))
    BY <2>1, <2>2
  <2> QED BY <1>3, <2>1, <2>3
<1> QED BY <1>4, <1>5

(***************************************************************************)
(* Type correctness                                                        *)
(***************************************************************************)

\* The types, those of the history included.
CatalogTypes ==
    /\ TypeOK
    /\ steady \in [Client -> SUBSET Id]
    /\ quiet \in [Client -> BOOLEAN]

\* The identities are finitely many numbers, and so are those found.
LEMMA FewIds ==
    /\ Cardinality(Id) \in Nat
    /\ \A S \in SUBSET Id : /\ S \in SUBSET Nat /\ IsFiniteSet(S)
                           /\ Cardinality(S) \in Nat /\ Cardinality(S) <= Cardinality(Id)
<1>1. Cardinality(Id) \in Nat
  BY CatalogAssumption, FS_CardinalityType
<1>2. ASSUME NEW S \in SUBSET Id
      PROVE  /\ S \in SUBSET Nat /\ IsFiniteSet(S)
             /\ Cardinality(S) \in Nat /\ Cardinality(S) <= Cardinality(Id)
  <2>1. IsFiniteSet(S) /\ Cardinality(S) <= Cardinality(Id)
    BY CatalogAssumption, FS_Subset
  <2> QED BY <2>1, CatalogAssumption, FS_CardinalityType
<1> QED BY <1>1, <1>2

\* A slice of the sorted identities ends at the limit or at their end.
LEMMA SliceProperties ==
    ASSUME NEW S \in SUBSET Id, NEW from \in Nat
    PROVE  /\ Slice(Sorted(S), from) \in Seq(Id)
           /\ Len(Slice(Sorted(S), from)) \in Nat
           /\ from <= Cardinality(S) =>
                 /\ from + Len(Slice(Sorted(S), from)) =
                       IF from + Limit < Cardinality(S) THEN from + Limit ELSE Cardinality(S)
                 /\ SubSeq(Sorted(S), 1, from) \o Slice(Sorted(S), from) =
                       SubSeq(Sorted(S), 1, from + Len(Slice(Sorted(S), from)))
<1> DEFINE s == Sorted(S)
           end == IF from + Limit < Len(s) THEN from + Limit ELSE Len(s)
<1>1. s \in Seq(Id) /\ Len(s) = Cardinality(S) /\ Cardinality(S) \in Nat
  <2>1. S \in SUBSET Nat /\ IsFiniteSet(S) /\ Cardinality(S) \in Nat
    BY FewIds
  <2>2. Sorted(S) \in Seq(S) /\ Len(Sorted(S)) = Cardinality(S)
    BY <2>1, SortedType
  <2>3. Sorted(S) \in [1 .. Cardinality(S) -> Id]
    BY <2>2
  <2> QED BY <2>1, <2>2, <2>3
<1>2. Limit \in Nat /\ end \in 0 .. Len(s) /\ Slice(s, from) = SubSeq(s, from + 1, end)
  BY <1>1, CatalogAssumption DEF Slice
<1> HIDE DEF s, end
<1>3. \A i \in from + 1 .. end : s[i] \in Id
  BY <1>1, <1>2
<1>4. /\ SubSeq(s, from + 1, end) \in Seq(Id)
      /\ Len(SubSeq(s, from + 1, end)) = IF from + 1 <= end THEN end - (from + 1) + 1 ELSE 0
  BY <1>1, <1>2, <1>3, SubSeqProperties
<1>5. ASSUME from <= Cardinality(S)
      PROVE  /\ from + Len(Slice(s, from)) = end
             /\ SubSeq(s, 1, from) \o Slice(s, from) = SubSeq(s, 1, end)
  <2>1. from <= end
    BY <1>1, <1>2, <1>5 DEF end
  <2>2. from + Len(Slice(s, from)) = end
    BY <1>1, <1>2, <1>4, <2>1
  <2>3. SubSeq(s, 1, from) \o SubSeq(s, from + 1, end) = SubSeq(s, 1, end)
    BY <1>1, <1>2, <1>5, <2>1, ConcatAdjacentSubSeq
  <2> QED BY <1>2, <2>2, <2>3
<1>6. Slice(s, from) \in Seq(Id) /\ Len(Slice(s, from)) \in Nat
  BY <1>2, <1>4
<1> QED BY <1>1, <1>5, <1>6 DEF s, end

\* A page is made of identities, and the offset of a next one lies within
\* the catalog.
LEMMA PageType ==
    ASSUME TypeOK, NEW c \in Client
    PROVE  /\ Total(c) \in SUBSET Id
           /\ Page(c) \in Seq(Id) /\ NextOffset(c) \in Nat
           /\ More(c) => NextOffset(c) \in 0 .. Cardinality(Id) - 1
<1>1. Total(c) \in SUBSET Id /\ offset[c] \in Nat
  BY FewIds DEF Total, TypeOK
<1>2. Page(c) \in Seq(Id) /\ Len(Page(c)) \in Nat
  BY <1>1, SliceProperties DEF Page
<1>3. NextOffset(c) \in Nat
  BY <1>1, <1>2 DEF NextOffset
<1>4. Cardinality(Total(c)) \in Nat /\ Cardinality(Total(c)) <= Cardinality(Id)
  BY <1>1, FewIds
<1> QED BY <1>1, <1>2, <1>3, <1>4, FewIds DEF More

\* Every step of indexers, clients and the clock keeps the types.
LEMMA CatalogStepType == CatalogTypes /\ [Next]_vars => CatalogTypes'
<1> SUFFICES ASSUME CatalogTypes, [Next]_vars
             PROVE  CatalogTypes'
  OBVIOUS
<1>1. TypeOK /\ steady \in [Client -> SUBSET Id] /\ quiet \in [Client -> BOOLEAN]
  BY DEF CatalogTypes
<1>2. ASSUME NEW i \in Id, Disturb(i)
      PROVE  steady' \in [Client -> SUBSET Id] /\ quiet' \in [Client -> BOOLEAN]
  BY <1>1, <1>2 DEF Disturb
<1>3. ASSUME NEW x \in Indexer, SetEntry(x)
      PROVE  CatalogTypes'
  <2>1. PICK i \in Id, v \in Item : /\ entry' = [entry EXCEPT ![i] = v]
                                   /\ adding' = [adding EXCEPT ![x] = i]
                                   /\ Disturb(i)
    BY <1>3 DEF SetEntry
  <2>2. TypeOK'
    BY <1>1, <1>3, <2>1 DEF TypeOK, SetEntry, callVars, searchVars
  <2> QED BY <1>2, <2>1, <2>2 DEF CatalogTypes
<1>4. ASSUME NEW x \in Indexer, AddToIndex(x)
      PROVE  CatalogTypes'
  <2>1. TypeOK'
    BY <1>1, <1>4 DEF TypeOK, AddToIndex, callVars, searchVars
  <2>2. quiet' \in [Client -> BOOLEAN] /\ steady' = steady
    BY <1>1, <1>4 DEF AddToIndex
  <2> QED BY <1>1, <2>1, <2>2 DEF CatalogTypes
<1>5. ASSUME NEW x \in Indexer, IndexerDies(x)
      PROVE  CatalogTypes'
  <2>1. TypeOK'
    BY <1>1, <1>5 DEF TypeOK, IndexerDies, callVars, searchVars
  <2> QED BY <1>1, <1>5, <2>1 DEF CatalogTypes, IndexerDies, history
<1>6. ASSUME NEW i \in Id, Expire(i)
      PROVE  CatalogTypes'
  <2>1. TypeOK'
    BY <1>1, <1>6 DEF TypeOK, Expire, callVars, searchVars
  <2> QED BY <1>2, <1>6, <2>1 DEF CatalogTypes, Expire
<1>7. ASSUME NEW c \in Client, NEW first \in BOOLEAN, Begin(c, first)
      PROVE  CatalogTypes'
  <2>1. quiet' \in [Client -> BOOLEAN]
    BY <1>1, <1>7 DEF Begin
  <2>2. steady' \in [Client -> SUBSET Id]
    BY <1>1, <1>7 DEF Begin, TypeOK
  <2>3. busy' \in [Client -> BOOLEAN]
    BY <1>1, <1>7 DEF Begin, TypeOK
  <2>4. query' \in [Client -> Query]
    BY <1>1, <1>7 DEF Begin, TypeOK
  <2>5. offset' \in [Client -> 0 .. Cardinality(Id)]
    <3>1. cursor[c] \in -1 .. Cardinality(Id) - 1 /\ (first \/ cursor[c] # -1)
      BY <1>1, <1>7 DEF Begin, TypeOK
    <3>2. (IF first THEN 0 ELSE cursor[c]) \in 0 .. Cardinality(Id)
      BY <3>1, FewIds
    <3> QED BY <1>1, <1>7, <3>2 DEF Begin, TypeOK
  <2>6. keys' \in [Client -> SUBSET Id] /\ stale' \in [Client -> SUBSET Id]
    BY <1>1, <1>7 DEF Begin, TypeOK, Members
  <2>7. found' \in [Client -> [Id -> Item \union {NoItem}]]
    BY <1>1, <1>7 DEF Begin, TypeOK, NoFound
  <2>8. pages' \in [Client -> Seq(Id)]
    <3>1. (IF first THEN << >> ELSE pages[c]) \in Seq(Id)
      BY <1>1 DEF TypeOK
    <3> QED BY <1>1, <1>7, <3>1 DEF Begin, TypeOK
  <2>9. UNCHANGED <<entry, index, adding, cursor, raced>>
    BY <1>7 DEF Begin
  <2> QED BY <1>1, <2>1, <2>2, <2>3, <2>4, <2>5, <2>6, <2>7, <2>8, <2>9 DEF CatalogTypes, TypeOK
<1>8. ASSUME NEW c \in Client, NEW i \in Id, GetEntry(c, i)
      PROVE  CatalogTypes'
  <2>1. found' \in [Client -> [Id -> Item \union {NoItem}]]
    <3>1. [found EXCEPT ![c][i] = entry[i]] \in [Client -> [Id -> Item \union {NoItem}]]
      BY <1>1 DEF TypeOK
    <3> QED BY <1>1, <1>8, <3>1 DEF GetEntry, TypeOK
  <2>2. keys' \in [Client -> SUBSET Id] /\ stale' \in [Client -> SUBSET Id]
    BY <1>1, <1>8 DEF GetEntry, TypeOK
  <2>3. UNCHANGED <<entry, index, adding, busy, query, offset, cursor, pages, steady, quiet, raced>>
    BY <1>8 DEF GetEntry, searchVars, history
  <2> QED BY <1>1, <2>1, <2>2, <2>3 DEF CatalogTypes, TypeOK
<1>9. ASSUME NEW c \in Client, Return(c)
      PROVE  CatalogTypes'
  <2>1. quiet' \in [Client -> BOOLEAN]
    BY <1>1, <1>9 DEF Return
  <2>2. steady' \in [Client -> SUBSET Id]
    BY <1>1, <1>9 DEF Return
  <2>3. busy' \in [Client -> BOOLEAN]
    BY <1>1, <1>9 DEF Return, TypeOK
  <2>4. index' \subseteq Id
    BY <1>1, <1>9 DEF Return, TypeOK
  <2>5. keys' \in [Client -> SUBSET Id] /\ stale' \in [Client -> SUBSET Id]
    BY <1>1, <1>9 DEF Return, TypeOK
  <2>6. found' \in [Client -> [Id -> Item \union {NoItem}]]
    BY <1>1, <1>9 DEF Return, TypeOK, NoFound
  <2>7. cursor' \in [Client -> -1 .. Cardinality(Id) - 1]
    <3>1. (IF More(c) THEN NextOffset(c) ELSE -1) \in -1 .. Cardinality(Id) - 1
      BY <1>1, PageType, FewIds
    <3> QED BY <1>1, <1>9, <3>1 DEF Return, TypeOK
  <2>8. pages' \in [Client -> Seq(Id)]
    <3>1. pages[c] \o Page(c) \in Seq(Id)
      BY <1>1, PageType DEF TypeOK
    <3> QED BY <1>1, <1>9, <3>1 DEF Return, TypeOK
  <2>9. UNCHANGED <<entry, adding, query, offset, raced>>
    BY <1>9 DEF Return
  <2> QED BY <1>1, <2>1, <2>2, <2>3, <2>4, <2>5, <2>6, <2>7, <2>8, <2>9 DEF CatalogTypes, TypeOK
<1>10. CASE UNCHANGED vars
  BY <1>10 DEF CatalogTypes, TypeOK, vars, callVars, searchVars, history
<1> QED
  BY <1>3, <1>4, <1>5, <1>6, <1>7, <1>8, <1>9, <1>10 DEF Next, Indexing, Listing

\* The initial catalog is well typed.
LEMMA CatalogInitType == Init => CatalogTypes
<1> SUFFICES ASSUME Init
             PROVE  CatalogTypes
  OBVIOUS
<1>1. << >> \in Seq(Id) /\ Cardinality(Id) \in Nat
  BY FewIds
<1>2. TypeOK
  BY <1>1 DEF Init, TypeOK, NoFound
<1> QED BY <1>2 DEF Init, CatalogTypes

\* Types, with those of the history.
THEOREM CatalogTypesInvariant == Spec => []CatalogTypes
BY CatalogInitType, CatalogStepType, PTL DEF Spec

\* The catalog and the list calls on it have their types; in particular a
\* next offset is only ever given when it lies inside the catalog.
THEOREM TypeCorrect == Spec => []TypeOK
<1>1. CatalogTypes => TypeOK
  BY DEF CatalogTypes
<1> QED BY <1>1, CatalogTypesInvariant, PTL

(***************************************************************************)
(* list finds what is there all along                                      *)
(***************************************************************************)

\* A step of list, of an indexer or of the clock leaves nothing out that was
\* stored and indexed throughout.
LEMMA SteadyStep == CatalogTypes /\ SteadyIsFound /\ [Next]_vars => SteadyIsFound'
<1> SUFFICES ASSUME CatalogTypes, SteadyIsFound, [Next]_vars,
                    NEW c \in Client, busy'[c],
                    NEW i \in steady'[c], i \notin keys'[c], Matches(entry'[i], query'[c])
             PROVE  found'[c][i] = entry'[i]
  BY DEF SteadyIsFound, Matches
<1>1. TypeOK /\ steady \in [Client -> SUBSET Id] /\ quiet \in [Client -> BOOLEAN]
  BY DEF CatalogTypes
<1>2. CASE /\ busy[c] /\ i \in steady[c] /\ i \notin keys[c]
           /\ entry'[i] = entry[i] /\ query'[c] = query[c] /\ found'[c] = found[c]
  <2>1. Matches(entry[i], query[c])
    BY <1>2
  <2> QED BY <1>2, <2>1 DEF SteadyIsFound
<1>3. ASSUME NEW k \in Id, NEW v, Disturb(k), entry' = [entry EXCEPT ![k] = v], UNCHANGED callVars
      PROVE  found'[c][i] = entry'[i]
  <2>1. i \in steady[c] /\ i # k /\ i \in Id
    BY <1>1, <1>3 DEF Disturb
  <2>2. entry'[i] = entry[i]
    BY <1>1, <1>3, <2>1 DEF TypeOK
  <2> QED BY <1>2, <1>3, <2>1, <2>2 DEF callVars
<1>4. ASSUME NEW x \in Indexer, SetEntry(x)
      PROVE  found'[c][i] = entry'[i]
  BY <1>3, <1>4 DEF SetEntry
<1>5. ASSUME NEW k \in Id, Expire(k)
      PROVE  found'[c][i] = entry'[i]
  BY <1>3, <1>5 DEF Expire
<1>6. ASSUME NEW x \in Indexer, AddToIndex(x) \/ IndexerDies(x)
      PROVE  found'[c][i] = entry'[i]
  BY <1>2, <1>6 DEF AddToIndex, IndexerDies, callVars, history
<1>7. ASSUME NEW d \in Client, NEW first \in BOOLEAN, Begin(d, first)
      PROVE  found'[c][i] = entry'[i]
  <2>1. CASE c = d
    <3>1. keys'[c] = index /\ steady'[c] = {j \in index : entry[j] # NoItem}
      BY <1>1, <1>7, <2>1 DEF Begin, TypeOK, Members
    <3> QED BY <3>1
  <2>2. CASE c # d
    <3>1. /\ busy'[c] = busy[c] /\ steady'[c] = steady[c] /\ keys'[c] = keys[c]
          /\ query'[c] = query[c] /\ found'[c] = found[c] /\ entry' = entry
      BY <1>1, <1>7, <2>2 DEF Begin, TypeOK
    <3> QED BY <1>2, <3>1
  <2> QED BY <2>1, <2>2
<1>8. ASSUME NEW d \in Client, NEW k \in Id, GetEntry(d, k)
      PROVE  found'[c][i] = entry'[i]
  <2>1. UNCHANGED <<entry, index, busy, query, steady>>
    BY <1>8 DEF GetEntry, history
  <2>2. i \in Id /\ found \in [Client -> [Id -> Item \union {NoItem}]]
    BY <1>1, <2>1 DEF TypeOK
  <2>3. CASE c = d /\ i = k
    BY <1>8, <2>1, <2>2, <2>3 DEF GetEntry
  <2>4. CASE c = d /\ i # k
    <3>1. i \notin keys[c] /\ found'[c][i] = found[c][i]
      BY <1>1, <1>8, <2>2, <2>4 DEF GetEntry, TypeOK
    <3> QED BY <2>1, <3>1 DEF SteadyIsFound
  <2>5. CASE c # d
    <3>1. keys'[c] = keys[c] /\ found'[c] = found[c]
      BY <1>1, <1>8, <2>5 DEF GetEntry, TypeOK
    <3> QED BY <1>2, <2>1, <3>1
  <2> QED BY <2>3, <2>4, <2>5
<1>9. ASSUME NEW d \in Client, Return(d)
      PROVE  found'[c][i] = entry'[i]
  <2>1. c # d /\ busy[c]
    BY <1>1, <1>9 DEF Return, TypeOK
  <2>2. /\ i \in steady[c] /\ keys'[c] = keys[c] /\ found'[c] = found[c]
        /\ entry' = entry /\ query' = query
    BY <1>1, <1>9, <2>1 DEF Return, TypeOK
  <2> QED BY <1>2, <2>1, <2>2
<1>10. CASE UNCHANGED vars
  BY <1>2, <1>10 DEF vars, callVars, history
<1> QED
  BY <1>4, <1>5, <1>6, <1>7, <1>8, <1>9, <1>10 DEF Next, Indexing, Listing

\* Whatever comes and goes while list runs, an entry that is stored and
\* indexed all along is in its result if it matches.
THEOREM SteadyTheorem == Spec => []SteadyIsFound
<1>1. Init => SteadyIsFound
  BY DEF Init, SteadyIsFound
<1>2. CatalogTypes /\ SteadyIsFound /\ [Next]_vars => SteadyIsFound'
  BY SteadyStep
<1> QED BY <1>1, <1>2, CatalogTypesInvariant, PTL DEF Spec

(***************************************************************************)
(* What hides an entry                                                     *)
(***************************************************************************)

\* The inductive form: a list call that holds a stored entry for expired looked
\* before the entry was set again, and the index call that set it is marked.
RaceInv ==
    /\ CatalogTypes
    /\ \A i \in Id, c \in Client : entry[i] # NoItem /\ i \in stale[c] => i \in raced
    /\ HiddenOnlyByRace

\* Every command of index and list, and every expiry, keeps it.
LEMMA RaceStep == RaceInv /\ [Next]_vars => RaceInv'
<1> SUFFICES ASSUME RaceInv, [Next]_vars
             PROVE  RaceInv'
  OBVIOUS
<1>1. TypeOK
  BY DEF RaceInv, CatalogTypes
<1>2. CatalogTypes'
  BY CatalogStepType DEF RaceInv
<1> SUFFICES ASSUME NEW i \in Id, entry'[i] # NoItem
             PROVE  /\ \A c \in Client : i \in stale'[c] => i \in raced'
                    /\ i \notin index' => i \in raced' \/ \E x \in Indexer : adding'[x] = i
  BY <1>2 DEF RaceInv, HiddenOnlyByRace
<1> DEFINE Goal == /\ \A c \in Client : i \in stale'[c] => i \in raced'
                   /\ i \notin index' => i \in raced' \/ \E x \in Indexer : adding'[x] = i
<1>3. ASSUME entry[i] # NoItem
      PROVE  /\ \A c \in Client : i \in stale[c] => i \in raced
             /\ i \notin index => i \in raced \/ \E x \in Indexer : adding[x] = i
  BY <1>3 DEF RaceInv, HiddenOnlyByRace
<1>4. ASSUME NEW x \in Indexer, SetEntry(x)
      PROVE  Goal
  <2>1. PICK k \in Id, v \in Item :
          /\ entry' = [entry EXCEPT ![k] = v]
          /\ adding' = [adding EXCEPT ![x] = k]
          /\ raced' = IF \E c \in Client : k \in stale[c] THEN raced \union {k} ELSE raced \ {k}
    BY <1>4 DEF SetEntry
  <2>2. stale' = stale /\ index' = index /\ adding[x] = NoId /\ NoId \notin Id
    BY <1>4, CatalogAssumption DEF SetEntry, callVars
  <2>3. CASE i = k
    <3>1. adding'[x] = i
      BY <1>1, <2>1, <2>3 DEF TypeOK
    <3> QED BY <2>1, <2>2, <2>3, <3>1
  <2>4. CASE i # k
    <3>1. entry[i] # NoItem /\ (i \in raced => i \in raced')
      BY <1>1, <2>1, <2>4 DEF TypeOK
    <3>2. \A y \in Indexer : adding[y] = i => adding'[y] = i
      BY <1>1, <2>1, <2>2 DEF TypeOK
    <3> QED BY <1>3, <2>2, <3>1, <3>2
  <2> QED BY <2>3, <2>4
<1>5. ASSUME NEW x \in Indexer, AddToIndex(x)
      PROVE  Goal
  <2>1. /\ entry' = entry /\ stale' = stale /\ raced' = raced
        /\ index' = index \union {adding[x]} /\ adding' = [adding EXCEPT ![x] = NoId]
    BY <1>5 DEF AddToIndex, callVars
  <2>2. i \notin index' => \A y \in Indexer : adding[y] = i => adding'[y] = i
    BY <1>1, <2>1 DEF TypeOK
  <2> QED BY <1>3, <2>1, <2>2
<1>6. ASSUME NEW x \in Indexer, IndexerDies(x)
      PROVE  Goal
  <2>1. /\ entry' = entry /\ stale' = stale /\ index' = index
        /\ raced' = raced \union {adding[x]} /\ adding' = [adding EXCEPT ![x] = NoId]
    BY <1>6 DEF IndexerDies, callVars
  <2>2. i \notin raced' => \A y \in Indexer : adding[y] = i => adding'[y] = i
    BY <1>1, <2>1 DEF TypeOK
  <2> QED BY <1>3, <2>1, <2>2
<1>7. ASSUME NEW k \in Id, Expire(k)
      PROVE  Goal
  <2>1. UNCHANGED <<stale, index, raced, adding>> /\ entry[i] # NoItem
    BY <1>1, <1>7 DEF Expire, callVars, TypeOK
  <2> QED BY <1>3, <2>1
<1>8. ASSUME NEW d \in Client, NEW first \in BOOLEAN, Begin(d, first)
      PROVE  Goal
  <2>1. UNCHANGED <<entry, index, raced, adding>> /\ stale' = [stale EXCEPT ![d] = {}]
    BY <1>8 DEF Begin
  <2>2. \A c \in Client : i \in stale'[c] => i \in stale[c]
    BY <1>1, <2>1 DEF TypeOK
  <2> QED BY <1>3, <2>1, <2>2
<1>9. ASSUME NEW d \in Client, NEW k \in Id, GetEntry(d, k)
      PROVE  Goal
  <2>1. /\ UNCHANGED <<entry, index, raced, adding>>
        /\ stale' = IF entry[k] = NoItem THEN [stale EXCEPT ![d] = @ \union {k}] ELSE stale
    BY <1>9 DEF GetEntry, history
  <2>2. \A c \in Client : i \in stale'[c] => i \in stale[c]
    BY <1>1, <2>1 DEF TypeOK
  <2> QED BY <1>3, <2>1, <2>2
<1>10. ASSUME NEW d \in Client, Return(d)
      PROVE  Goal
  <2>1. /\ UNCHANGED <<entry, raced, adding>> /\ index' = index \ stale[d]
        /\ stale' = [stale EXCEPT ![d] = {}]
    BY <1>10 DEF Return, Removed
  <2>2. \A c \in Client : i \in stale'[c] => i \in stale[c]
    BY <1>1, <2>1 DEF TypeOK
  <2> QED BY <1>3, <2>1, <2>2
<1>11. CASE UNCHANGED vars
  <2>1. UNCHANGED <<entry, index, adding, stale, raced>>
    BY <1>11 DEF vars, callVars, history
  <2> QED BY <1>3, <2>1
<1> QED
  BY <1>4, <1>5, <1>6, <1>7, <1>8, <1>9, <1>10, <1>11 DEF Next, Indexing, Listing

\* However many settle calls index and clients list at once, a stored entry is
\* out of the index only before its ZADD, or because its worker died before it,
\* or because list's ZREM took the key of an entry set again after its GET.
THEOREM HiddenTheorem == Spec => []HiddenOnlyByRace
<1>1. Init => RaceInv
  <2> SUFFICES ASSUME Init
               PROVE  RaceInv
    OBVIOUS
  <2>1. \A i \in Id : entry[i] = NoItem
    BY DEF Init, NoFound
  <2> QED BY <2>1, CatalogInitType DEF RaceInv, HiddenOnlyByRace
<1>2. RaceInv => HiddenOnlyByRace
  BY DEF RaceInv
<1> QED BY <1>1, <1>2, RaceStep, PTL DEF Spec

(***************************************************************************)
(* Pages of a search                                                       *)
(***************************************************************************)

\* What client c is searching for.
Matching(c) == {i \in index : Matches(entry[i], query[c])}

\* While the catalog is quiet, list has found the matching entries among the
\* keys it has asked for, and asks for no key that has been removed from the
\* index under an entry.
FoundSoFar(c) ==
    /\ \A i \in keys[c] : entry[i] # NoItem => i \in index
    /\ \A i \in Matching(c) \ keys[c] : found[c][i] = entry[i]
    /\ \A i \in Id : found[c][i] # NoItem => i \in Matching(c)

\* The pages so far are the first n of the matching entries.
GivenSoFar(c, n) ==
    n <= Cardinality(Matching(c)) /\ pages[c] = SubSeq(Sorted(Matching(c)), 1, n)

\* The search of client c is at page one, between two pages, inside list, or
\* over.
Searching(c) ==
    /\ busy[c] => FoundSoFar(c) /\ GivenSoFar(c, offset[c])
    /\ ~ busy[c] /\ cursor[c] # -1 => GivenSoFar(c, cursor[c])
    /\ ~ busy[c] /\ cursor[c] = -1 /\ pages[c] # << >> => pages[c] = Sorted(Matching(c))

PagesInv == CatalogTypes /\ \A c \in Client : quiet[c] => Searching(c)

\* A step that does not concern a client's search, nor an entry that is
\* stored, leaves the search where it is.
LEMMA SearchUndisturbed ==
    ASSUME NEW c \in Client, Searching(c), entry' = entry,
           busy'[c] = busy[c], query'[c] = query[c], offset'[c] = offset[c],
           keys'[c] = keys[c], found'[c] = found[c], cursor'[c] = cursor[c],
           pages'[c] = pages[c],
           \A i : entry[i] # NoItem => (i \in index' <=> i \in index)
    PROVE  Searching(c)'
<1>1. Matching(c)' = Matching(c)
  <2>1. ASSUME NEW i
        PROVE  i \in Matching(c)' <=> i \in Matching(c)
    BY DEF Matching, Matches
  <2> QED BY <2>1
<1>2. FoundSoFar(c) => FoundSoFar(c)'
  BY <1>1 DEF FoundSoFar
<1>3. \A n : GivenSoFar(c, n) => (n <= Cardinality(Matching(c)') /\
                                 pages'[c] = SubSeq(Sorted(Matching(c)'), 1, n))
  BY <1>1 DEF GivenSoFar
<1>4. busy[c] => GivenSoFar(c, offset[c])'
  BY <1>3 DEF Searching, GivenSoFar
<1>5. ~ busy[c] /\ cursor[c] # -1 => GivenSoFar(c, cursor[c])'
  BY <1>3 DEF Searching, GivenSoFar
<1>6. ~ busy[c] /\ cursor[c] = -1 /\ pages[c] # << >> => pages'[c] = Sorted(Matching(c)')
  BY <1>1 DEF Searching
<1> QED BY <1>2, <1>4, <1>5, <1>6 DEF Searching

\* A search starts, or goes on, with nothing found of its next page.
LEMMA BeginSearches ==
    ASSUME PagesInv, NEW c \in Client, NEW first \in BOOLEAN, Begin(c, first), quiet'[c]
    PROVE  Searching(c)'
<1>1. TypeOK /\ steady \in [Client -> SUBSET Id] /\ quiet \in [Client -> BOOLEAN]
  BY DEF PagesInv, CatalogTypes
<1>2. /\ ~ busy[c] /\ (first \/ cursor[c] # -1) /\ busy'[c]
      /\ offset'[c] = (IF first THEN 0 ELSE cursor[c])
      /\ pages'[c] = (IF first THEN << >> ELSE pages[c])
      /\ keys'[c] = index /\ found'[c] = NoFound
      /\ entry' = entry /\ index' = index
  BY <1>1 DEF Begin, TypeOK, Members
<1>3. FoundSoFar(c)'
  BY <1>2 DEF FoundSoFar, Matching, NoFound
<1>4. GivenSoFar(c, offset[c])'
  <2>1. CASE first
    <3>1. SubSeq(Sorted(Matching(c)'), 1, 0) = << >>
      BY SubSeqEmpty
    <3>2. Matching(c)' \in SUBSET Id
      BY <1>1, <1>2 DEF Matching, TypeOK
    <3>3. 0 <= Cardinality(Matching(c)')
      BY <3>2, FewIds
    <3> QED BY <1>2, <2>1, <3>1, <3>3 DEF GivenSoFar
  <2>2. CASE ~ first
    <3>1. query'[c] = query[c] /\ quiet[c]
      BY <1>1, <2>2 DEF Begin, TypeOK
    <3>2. GivenSoFar(c, cursor[c])
      BY <1>2, <2>2, <3>1 DEF PagesInv, Searching
    <3>3. Matching(c)' = Matching(c)
      BY <1>2, <3>1 DEF Matching
    <3> QED BY <1>2, <2>2, <3>2, <3>3 DEF GivenSoFar
  <2> QED BY <2>1, <2>2
<1> QED BY <1>2, <1>3, <1>4 DEF Searching

\* GET of one key extends what has been found.
LEMMA GetSearches ==
    ASSUME PagesInv, NEW c \in Client, NEW k \in Id, GetEntry(c, k), quiet'[c]
    PROVE  Searching(c)'
<1>1. TypeOK
  BY DEF PagesInv, CatalogTypes
<1>2. /\ busy[c] /\ k \in keys[c] /\ keys'[c] = keys[c] \ {k}
      /\ UNCHANGED <<entry, index, busy, query, offset, pages, quiet>>
      /\ found' = IF Matches(entry[k], query[c])
                  THEN [found EXCEPT ![c][k] = entry[k]] ELSE found
  BY <1>1 DEF GetEntry, TypeOK, searchVars, history
<1>3. FoundSoFar(c) /\ GivenSoFar(c, offset[c])
  BY <1>2 DEF PagesInv, Searching
<1>4. Matching(c)' = Matching(c) /\ Matching(c) \in SUBSET Id
  BY <1>1, <1>2 DEF Matching, TypeOK
<1>5. \A i \in Id : i # k => found'[c][i] = found[c][i]
  BY <1>1, <1>2 DEF TypeOK
<1>6. Matches(entry[k], query[c]) => found'[c][k] = entry[k] /\ k \in Matching(c)
  <2>1. ASSUME Matches(entry[k], query[c])
        PROVE  found'[c][k] = entry[k]
    BY <1>1, <1>2, <2>1 DEF TypeOK
  <2>2. ASSUME Matches(entry[k], query[c])
        PROVE  k \in Matching(c)
    BY <1>2, <1>3, <2>2 DEF FoundSoFar, Matching, Matches
  <2> QED BY <2>1, <2>2
<1>7. ~ Matches(entry[k], query[c]) => found' = found /\ k \notin Matching(c)
  BY <1>2 DEF Matching
<1>8. FoundSoFar(c)'
  <2>1. \A i \in keys'[c] : entry'[i] # NoItem => i \in index'
    BY <1>2, <1>3 DEF FoundSoFar
  <2>2. \A i \in Matching(c)' \ keys'[c] : found'[c][i] = entry'[i]
    BY <1>2, <1>3, <1>4, <1>5, <1>6, <1>7 DEF FoundSoFar
  <2>3. \A i \in Id : found'[c][i] # NoItem => i \in Matching(c)'
    BY <1>3, <1>4, <1>5, <1>6, <1>7 DEF FoundSoFar
  <2> QED BY <2>1, <2>2, <2>3 DEF FoundSoFar
<1>9. GivenSoFar(c, offset[c])'
  BY <1>2, <1>3, <1>4 DEF GivenSoFar
<1> QED BY <1>2, <1>8, <1>9 DEF Searching

\* A page continues the pages before it, and the last one completes them.
LEMMA ReturnSearches ==
    ASSUME PagesInv, NEW c \in Client, Return(c), quiet'[c]
    PROVE  Searching(c)'
<1>1. TypeOK /\ quiet \in [Client -> BOOLEAN]
  BY DEF PagesInv, CatalogTypes
<1>2. /\ busy[c] /\ keys[c] = {} /\ ~ busy'[c]
      /\ entry' = entry /\ query' = query /\ index' \subseteq index
      /\ pages'[c] = pages[c] \o Page(c)
      /\ cursor'[c] = IF More(c) THEN NextOffset(c) ELSE -1
  BY <1>1 DEF Return, TypeOK
<1>3. quiet[c] /\ \A i \in index \ index' : entry[i] = NoItem
  BY <1>1 DEF Return
<1>4. FoundSoFar(c) /\ GivenSoFar(c, offset[c])
  BY <1>2, <1>3 DEF PagesInv, Searching
<1>5. Matching(c)' = Matching(c)
  <2>1. ASSUME NEW i
        PROVE  i \in Matching(c)' <=> i \in Matching(c)
    BY <1>2, <1>3 DEF Matching, Matches
  <2> QED BY <2>1
<1>6. Total(c) = Matching(c)
  <2>1. ASSUME NEW i \in Matching(c)
        PROVE  i \in Total(c)
    <3>1. i \in Id /\ entry[i] # NoItem
      BY <1>1 DEF Matching, Matches, TypeOK
    <3>2. found[c][i] = entry[i]
      BY <1>2, <1>4 DEF FoundSoFar
    <3> QED BY <3>1, <3>2 DEF Total
  <2>2. ASSUME NEW i \in Total(c)
        PROVE  i \in Matching(c)
    BY <1>4 DEF FoundSoFar, Total
  <2> QED BY <2>1, <2>2
<1> DEFINE s == Sorted(Matching(c))
           n == Cardinality(Matching(c))
<1>7. Matching(c) \in SUBSET Id /\ offset[c] \in Nat /\ n \in Nat
  <2>1. Matching(c) \in SUBSET Id
    BY <1>1 DEF Matching, TypeOK
  <2>2. offset[c] \in Nat
    BY <1>1, FewIds DEF TypeOK
  <2> QED BY <2>1, <2>2, FewIds
<1>8. /\ NextOffset(c) = IF offset[c] + Limit < n THEN offset[c] + Limit ELSE n
      /\ pages'[c] = SubSeq(s, 1, NextOffset(c))
  <2>1. offset[c] <= n /\ pages[c] = SubSeq(s, 1, offset[c])
    BY <1>4 DEF GivenSoFar
  <2>2. Page(c) = Slice(s, offset[c])
    BY <1>6 DEF Page
  <2>3. NextOffset(c) = offset[c] + Len(Slice(s, offset[c]))
    BY <2>2 DEF NextOffset
  <2> QED BY <1>2, <1>7, <2>1, <2>2, <2>3, SliceProperties
<1>9. NextOffset(c) \in Nat /\ NextOffset(c) <= n
  <2>1. Limit \in Nat
    BY CatalogAssumption
  <2> HIDE DEF n, s
  <2> QED BY <1>7, <1>8, <2>1
<1>10. CASE More(c)
  <2>1. cursor'[c] = NextOffset(c) /\ cursor'[c] # -1
    BY <1>2, <1>9, <1>10
  <2>2. GivenSoFar(c, cursor[c])'
    BY <1>5, <1>8, <1>9, <2>1 DEF GivenSoFar
  <2> QED BY <1>2, <2>1, <2>2 DEF Searching
<1>11. CASE ~ More(c)
  <2>1. NextOffset(c) = n
    BY <1>6, <1>7, <1>9, <1>11 DEF More
  <2>2. s \in Seq(Matching(c)) /\ Len(s) = n
    BY <1>7, FewIds, SortedType
  <2>3. SubSeq(s, 1, n) = s
    BY <2>2, SubSeqFull
  <2>4. pages'[c] = Sorted(Matching(c)') /\ cursor'[c] = -1
    BY <1>2, <1>5, <1>8, <1>11, <2>1, <2>3
  <2> QED BY <1>2, <2>4 DEF Searching
<1> QED BY <1>10, <1>11

\* Every step keeps the searches over a quiet catalog in order.
LEMMA PagesStep == PagesInv /\ [Next]_vars => PagesInv'
<1> SUFFICES ASSUME PagesInv, [Next]_vars
             PROVE  PagesInv'
  OBVIOUS
<1>1. TypeOK /\ steady \in [Client -> SUBSET Id] /\ quiet \in [Client -> BOOLEAN]
  BY DEF PagesInv, CatalogTypes
<1>2. CatalogTypes'
  BY CatalogStepType DEF PagesInv
<1> SUFFICES ASSUME NEW c \in Client, quiet'[c]
             PROVE  Searching(c)'
  BY <1>2 DEF PagesInv
<1>3. ASSUME NEW i \in Id, Disturb(i)
      PROVE  FALSE
  BY <1>3 DEF Disturb
<1>4. quiet[c] => Searching(c)
  BY DEF PagesInv
<1>5. ASSUME NEW x \in Indexer, AddToIndex(x)
      PROVE  Searching(c)'
  <2>1. quiet[c] /\ index' = index
    BY <1>1, <1>5 DEF AddToIndex
  <2> QED BY <1>4, <1>5, <2>1, SearchUndisturbed DEF AddToIndex, callVars, searchVars
<1>6. ASSUME NEW x \in Indexer, IndexerDies(x)
      PROVE  Searching(c)'
  BY <1>4, <1>6, SearchUndisturbed DEF IndexerDies, callVars, searchVars, history
<1>7. ASSUME NEW d \in Client, NEW first \in BOOLEAN, Begin(d, first)
      PROVE  Searching(c)'
  <2>1. CASE c = d
    BY <1>7, <2>1, BeginSearches
  <2>2. CASE c # d
    <3>1. /\ busy'[c] = busy[c] /\ query'[c] = query[c] /\ offset'[c] = offset[c]
          /\ keys'[c] = keys[c] /\ found'[c] = found[c] /\ pages'[c] = pages[c]
          /\ UNCHANGED <<entry, index, cursor>>
      BY <1>1, <1>7, <2>2 DEF Begin, TypeOK
    <3>2. quiet[c]
      BY <1>1, <1>7, <2>2 DEF Begin
    <3> QED BY <1>4, <3>1, <3>2, SearchUndisturbed
  <2> QED BY <2>1, <2>2
<1>8. ASSUME NEW d \in Client, NEW k \in Id, GetEntry(d, k)
      PROVE  Searching(c)'
  <2>1. CASE c = d
    BY <1>8, <2>1, GetSearches
  <2>2. CASE c # d
    <3>1. /\ keys'[c] = keys[c] /\ found'[c] = found[c]
          /\ UNCHANGED <<entry, index, busy, query, offset, cursor, pages, quiet>>
      BY <1>1, <1>8, <2>2 DEF GetEntry, TypeOK, searchVars, history
    <3> QED BY <1>4, <3>1, SearchUndisturbed
  <2> QED BY <2>1, <2>2
<1>9. ASSUME NEW d \in Client, Return(d)
      PROVE  Searching(c)'
  <2>1. CASE c = d
    BY <1>9, <2>1, ReturnSearches
  <2>2. CASE c # d
    <3>1. /\ busy'[c] = busy[c] /\ query'[c] = query[c] /\ offset'[c] = offset[c]
          /\ keys'[c] = keys[c] /\ found'[c] = found[c] /\ pages'[c] = pages[c]
          /\ cursor'[c] = cursor[c] /\ entry' = entry /\ index' \subseteq index
      BY <1>1, <1>9, <2>2 DEF Return, TypeOK
    <3>2. quiet[c] /\ \A i \in index \ index' : entry[i] = NoItem
      BY <1>1, <1>9 DEF Return
    <3> QED BY <1>4, <3>1, <3>2, SearchUndisturbed
  <2> QED BY <2>1, <2>2
<1>10. CASE UNCHANGED vars
  BY <1>4, <1>10, SearchUndisturbed DEF vars, callVars, searchVars, history
<1> QED
  BY <1>3, <1>5, <1>6, <1>7, <1>8, <1>9, <1>10 DEF Next, Indexing, Listing, SetEntry, Expire

\* Whatever the page size and whoever else lists meanwhile, the pages of a
\* search over a catalog that does not change are the matching entries, each
\* once and in order.
THEOREM PagesTheorem == Spec => []PagesCover
<1>1. Init => PagesInv
  <2> SUFFICES ASSUME Init
               PROVE  PagesInv
    OBVIOUS
  <2>1. \A c \in Client : ~ busy[c] /\ cursor[c] = -1 /\ pages[c] = << >>
    BY DEF Init
  <2> QED BY <2>1, CatalogInitType DEF PagesInv, Searching
<1>2. PagesInv => PagesCover
  BY DEF PagesInv, Searching, Matching, PagesCover
<1> QED BY <1>1, <1>2, PagesStep, PTL DEF Spec
=============================================================================
