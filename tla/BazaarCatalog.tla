---------------------------- MODULE BazaarCatalog ----------------------------
(***************************************************************************)
(* The Bazaar catalog (facilitator catalog.py) and the discovery endpoints *)
(* of factory.py.  An entry is a Redis string with a TTL; its key is also  *)
(* a member of one sorted set, the index, without a TTL.  Every Redis      *)
(* command is a step: settle calls index entries while clients page        *)
(* through the catalog.                                                    *)
(*                                                                         *)
(* An identity is a number; the numbers are in the order of list's sort.   *)
(***************************************************************************)
EXTENDS Integers, FiniteSets, Sequences

CONSTANTS
    Id,         \* identities (resource and method or tool), numbers
    Item,       \* what may be stored: [type, payTo, scheme, network,
                \* extensions, words]
    Query,      \* the queries asked, with "any" for a parameter not given
    Indexer,    \* settle calls that index
    Client,     \* clients of the discovery endpoints
    NoId, NoItem,
    Limit       \* the page size

ASSUME CatalogAssumption ==
    /\ Id \subseteq Nat /\ IsFiniteSet(Id)
    /\ NoId \notin Id /\ NoItem \notin Item
    /\ Limit \in 1 .. 100

VARIABLES
    entry,      \* Redis: the entries that have not expired
    index,      \* Redis: facilitator:bazaar:index
    adding,     \* per indexer: the entry set and not yet added to the index
    \* per client: the list call it waits for
    busy,       \* is there one?
    query, offset,
    keys,       \* keys ZRANGE returned and GET has not been asked for
    found,      \* the items that matched, by identity
    stale,      \* the keys that had expired
    \* per client: the search it is paging through
    cursor,     \* the offset of the next page, -1 if there is none
    pages,      \* identities in the order in which the pages gave them
    \* history
    steady,     \* per client: entries stored and indexed throughout the call
    quiet,      \* per client: has the catalog stayed the same since page one?
    raced       \* identities whose latest index call died before ZADD, or set
                \* the entry while a list call held it for expired

callVars == <<busy, query, offset, keys, found, stale>>
searchVars == <<cursor, pages>>
history == <<steady, quiet, raced>>
vars == <<entry, index, adding, callVars, searchVars, history>>

NoFound == [i \in Id |-> NoItem]

TypeOK ==
    /\ entry \in [Id -> Item \union {NoItem}]
    /\ index \subseteq Id
    /\ adding \in [Indexer -> Id \union {NoId}]
    /\ busy \in [Client -> BOOLEAN]
    /\ query \in [Client -> Query]
    /\ offset \in [Client -> 0 .. Cardinality(Id)]
    /\ keys \in [Client -> SUBSET Id] /\ stale \in [Client -> SUBSET Id]
    /\ found \in [Client -> [Id -> Item \union {NoItem}]]
    /\ cursor \in [Client -> -1 .. Cardinality(Id) - 1]
    /\ pages \in [Client -> Seq(Id)]
    /\ raced \subseteq Id

Init ==
    /\ entry = NoFound /\ index = {}
    /\ adding = [x \in Indexer |-> NoId]
    /\ busy = [c \in Client |-> FALSE]
    /\ query \in [Client -> Query]
    /\ offset = [c \in Client |-> 0]
    /\ keys = [c \in Client |-> {}] /\ stale = keys
    /\ found = [c \in Client |-> NoFound]
    /\ cursor = [c \in Client |-> -1] /\ pages = [c \in Client |-> << >>]
    /\ steady = [c \in Client |-> {}]
    /\ quiet = [c \in Client |-> TRUE]
    /\ raced = {}

\* The catalog has changed for identity i.
Disturb(i) ==
    /\ steady' = [c \in Client |-> steady[c] \ {i}]
    /\ quiet' = [c \in Client |-> FALSE]

-----------------------------------------------------------------------------
(* index *)

\* SET of a validated discovery
SetEntry(x) ==
    /\ adding[x] = NoId
    /\ \E i \in Id, v \in Item :
          /\ entry' = [entry EXCEPT ![i] = v]
          /\ adding' = [adding EXCEPT ![x] = i]
          /\ Disturb(i)
          /\ raced' = IF \E c \in Client : i \in stale[c] THEN raced \union {i} ELSE raced \ {i}
    /\ UNCHANGED <<index, callVars, searchVars>>

\* ZADD
AddToIndex(x) ==
    /\ adding[x] # NoId
    /\ index' = index \union {adding[x]}
    /\ quiet' = [c \in Client |-> quiet[c] /\ adding[x] \in index]
    /\ adding' = [adding EXCEPT ![x] = NoId]
    /\ UNCHANGED <<entry, callVars, searchVars, steady, raced>>

\* The worker dies between the two commands.
IndexerDies(x) ==
    /\ adding[x] # NoId
    /\ adding' = [adding EXCEPT ![x] = NoId]
    /\ raced' = raced \union {adding[x]}
    /\ UNCHANGED <<entry, index, callVars, searchVars, steady, quiet>>

\* The retention time of an entry is over.
Expire(i) ==
    /\ entry[i] # NoItem
    /\ entry' = [entry EXCEPT ![i] = NoItem]
    /\ Disturb(i)
    /\ UNCHANGED <<index, adding, callVars, searchVars, raced>>

-----------------------------------------------------------------------------
(* list *)

\* A parameter that is not given does not filter.
Passes(wanted, actual) == wanted = "any" \/ wanted = actual

\* The filters of list; payTo, scheme and network must hold of one accepted requirement,
\* and an entry has one.
Matches(v, q) ==
    /\ v # NoItem
    /\ Passes(q.type, v.type)
    /\ Passes(q.payTo, v.payTo) /\ Passes(q.scheme, v.scheme) /\ Passes(q.network, v.network)
    /\ q.extension = "any" \/ q.extension \in v.extensions
    /\ q.needle = "any" \/ q.needle \in v.words

\* Mutant: the last member is left out.
AllButLast == {i \in index : \E j \in index : j > i}

\* ZRANGE 0 -1
Members == index

\* A client asks for the first page or, in a search, for the next one.
Begin(c, first) ==
    /\ ~ busy[c]
    /\ first \/ cursor[c] # -1
    /\ busy' = [busy EXCEPT ![c] = TRUE]
    /\ \E q \in IF first THEN Query ELSE {query[c]} : query' = [query EXCEPT ![c] = q]
    /\ offset' = [offset EXCEPT ![c] = IF first THEN 0 ELSE cursor[c]]
    /\ pages' = [pages EXCEPT ![c] = IF first THEN << >> ELSE @]
    /\ keys' = [keys EXCEPT ![c] = Members]
    /\ found' = [found EXCEPT ![c] = NoFound]
    /\ stale' = [stale EXCEPT ![c] = {}]
    /\ steady' = [steady EXCEPT ![c] = {i \in index : entry[i] # NoItem}]
    /\ quiet' = [quiet EXCEPT ![c] = first \/ @]
    /\ UNCHANGED <<entry, index, adding, cursor, raced>>

\* GET of one key
GetEntry(c, i) ==
    /\ busy[c] /\ i \in keys[c]
    /\ keys' = [keys EXCEPT ![c] = @ \ {i}]
    /\ stale' = IF entry[i] = NoItem THEN [stale EXCEPT ![c] = @ \union {i}] ELSE stale
    /\ found' = IF Matches(entry[i], query[c]) THEN [found EXCEPT ![c][i] = entry[i]] ELSE found
    /\ UNCHANGED <<entry, index, adding, busy, query, offset, searchVars, history>>

Total(c) == {i \in Id : found[c][i] # NoItem}

\* sorted: the nth identity is the one with n - 1 smaller ones.
Sorted(S) == [n \in 1 .. Cardinality(S) |-> CHOOSE i \in S : Cardinality({j \in S : j < i}) = n - 1]

\* items[offset : offset + limit] of the sorted items
Slice(s, from) == SubSeq(s, from + 1, IF from + Limit < Len(s) THEN from + Limit ELSE Len(s))

Page(c) == Slice(Sorted(Total(c)), offset[c])

\* Mutant: an item is skipped between two pages.
SkipOne(c) == offset[c] + Len(Page(c)) + 1

\* discovery_search
NextOffset(c) == offset[c] + Len(Page(c))

\* Mutant: an empty page is announced after the last one.
OneMore(c) == NextOffset(c) <= Cardinality(Total(c))

\* partialResults
More(c) == NextOffset(c) < Cardinality(Total(c))

\* Mutant: expired keys stay in the index.
NoRemoval(c) == {}

\* Mutant: whatever the filters leave out is removed like an expired key.
UnmatchedToo(c) == index \ Total(c)

\* ZREM of the keys found stale
Removed(c) == stale[c]

\* The end of list, with the ZREM, and of discovery_search.
Return(c) ==
    /\ busy[c] /\ keys[c] = {}
    /\ index' = index \ Removed(c)
    /\ steady' = [d \in Client |-> steady[d] \ (index \ index')]
    /\ quiet' = [d \in Client |->
                    quiet[d] /\ \A i \in index \ index' : entry[i] = NoItem]
    /\ pages' = [pages EXCEPT ![c] = @ \o Page(c)]
    /\ cursor' = [cursor EXCEPT ![c] = IF More(c) THEN NextOffset(c) ELSE -1]
    /\ busy' = [busy EXCEPT ![c] = FALSE]
    /\ keys' = [keys EXCEPT ![c] = {}] /\ stale' = [stale EXCEPT ![c] = {}]
    /\ found' = [found EXCEPT ![c] = NoFound]
    /\ UNCHANGED <<entry, adding, query, offset, raced>>

-----------------------------------------------------------------------------
Indexing == \E x \in Indexer : SetEntry(x) \/ AddToIndex(x) \/ IndexerDies(x)
Listing(c) == (\E i \in Id : GetEntry(c, i)) \/ Return(c)

Next ==
    \/ Indexing
    \/ \E i \in Id : Expire(i)
    \/ \E c \in Client : Begin(c, TRUE) \/ Begin(c, FALSE) \/ Listing(c)

Spec == Init /\ [][Next]_vars

\* Requests are answered and clients keep listing.  Nothing is assumed of
\* expiry: every SET renews the retention time.
Fairness ==
    /\ \A x \in Indexer : WF_vars(AddToIndex(x) \/ IndexerDies(x))
    /\ \A c \in Client : WF_vars(Begin(c, TRUE)) /\ WF_vars(Listing(c))

FairSpec == Spec /\ Fairness

-----------------------------------------------------------------------------
(* Properties *)

\* An entry that is stored and indexed while list runs, however entries come
\* and go around it, is among its results if it matches.
SteadyIsFound ==
    \A c \in Client : busy[c] =>
        \A i \in steady[c] \ keys[c] :
            Matches(entry[i], query[c]) => found[c][i] = entry[i]

\* The pages of a search over a catalog that does not change meanwhile are a
\* partition of the matching entries, in order.
PagesCover ==
    \A c \in Client :
        ~ busy[c] /\ cursor[c] = -1 /\ quiet[c] /\ pages[c] # << >> =>
            pages[c] = Sorted({i \in index : Matches(entry[i], query[c])})

\* A stored entry is missing from the index only while its index call is
\* between SET and ZADD, or when that call raced: its worker died in between,
\* or it set the entry again after a list call had found the old one expired,
\* whose ZREM then takes the new key.  No other order of SET, ZADD, GET, ZREM
\* and expiry hides an entry.
HiddenOnlyByRace ==
    \A i \in Id : entry[i] # NoItem /\ i \notin index =>
        i \in raced \/ \E x \in Indexer : adding[x] = i

\* Keys of expired entries do not pile up in the index.
StaleGone == \A i \in Id : i \in index /\ entry[i] = NoItem ~> i \notin index \/ entry[i] # NoItem
=============================================================================
