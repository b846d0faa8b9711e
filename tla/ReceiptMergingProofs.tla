------------------------- MODULE ReceiptMergingProofs -------------------------
(***************************************************************************)
(* Proofs of the safety of ReceiptMerging for any sends, ids and bases, any *)
(* timeout and any maximum.  The invariant says what the two stores of the *)
(* merger hold of the sends: a group that collects is that of a send the   *)
(* peer took and lacks one of its segments (AllCollect), a report has them *)
(* all (AllWhole), and a send that is neither given up nor reported has its *)
(* group, with every segment reported so far (AllAwaited).                 *)
(***************************************************************************)
EXTENDS ReceiptMerging, SequenceTheorems, FiniteSetTheorems, TLAPS

-----------------------------------------------------------------------------
(* The stores.  ReassemblyProofs proves what ExpiringGroups promises to    *)
(* whoever owns a store; its lemmas on that are about a store alone, so    *)
(* any segments, bounds and state of a reassembler will do here.           *)

Store == INSTANCE ReassemblyProofs WITH
    Segments <- {}, MaxOctets <- 0, MaxIds <- 1,
    groups <- empty, issued <- 0, account <- <<>>

EntriesOf(K, G) == [key : K, left : 0 .. Timeout, weight : Nat, group : G]

OneToAKey(es) == \A i, j \in 1 .. Len(es) : es[i].key = es[j].key => i = j

IsStore(st, K, G) ==
    /\ st \in [entries : Seq(EntriesOf(K, G)), total : Nat, sweeper : BOOLEAN]
    /\ OneToAKey(st.entries)
    /\ st.total = weightOf(st.entries)

held(st) == ToSet(st.entries)

AddsUp(st, gone) ==
    /\ Len(take(st, gone).left.entries) + Len(take(st, gone).taken) = Len(st.entries)
    /\ take(st, gone).left.total = st.total - weightOf(take(st, gone).taken)

InOrderOf(es, fs) ==
    \A i, j \in 1 .. Len(fs) :
        i < j => \E k, l \in 1 .. Len(es) : k < l /\ fs[i] = es[k] /\ fs[j] = es[l]

\* A function on the naturals up to N that starts at base and goes on by step.
Steps(f, N, V, base, step) ==
    f \in [0 .. N -> V] /\ f[0] = base /\ \A n \in 1 .. N : f[n] = step[<<n, f[n - 1]>>]

\* The assumptions of Reassembly hold of what it is instantiated with here.
LEMMA NoSegments == Store!IsFiniteSet({})
<1>1. IsFiniteSet({})
  BY FS_EmptySet
<1>2. QED
  BY <1>1 DEF IsFiniteSet, Store!IsFiniteSet

\* Induction over the naturals, of a set of them.
LEMMA Inducts ==
    ASSUME NEW Good, 0 \in Good, \A n \in Nat : n \in Good => n + 1 \in Good
    PROVE  Nat \subseteq Good
  BY Store!Inducts, NoSegments, StoreAssumption

\* There is one.
LEMMA Recurs ==
    ASSUME NEW N \in Nat, NEW V, NEW base \in V, NEW step \in [(1 .. N) \X V -> V]
    PROVE  \E f : Steps(f, N, V, base, step)
<1>1. \E f : Store!Steps(f, N, V, base, step)
  <2>1. 1 \in Nat \ {0} /\ 0 \in Nat
    OBVIOUS
  <2>2. QED
    BY <2>1, Store!Recurs, NoSegments, StoreAssumption, Zenon
<1>2. QED
  BY <1>1 DEF Steps, Store!Steps

\* What is said of a store there and what is said of it here are the same.
LEMMA SameStores ==
    /\ \A es : keysOf(es) = Store!keysOf(es) /\ weightOf(es) = Store!weightOf(es)
    /\ \A st : held(st) = Store!held(st) /\ (full(st) <=> Store!full(st))
    /\ \A st, key : (has(st, key) <=> Store!has(st, key)) /\ under(st, key) = Store!under(st, key)
    /\ \A st, key : entry(st, key) = Store!entry(st, key) /\ get(st, key) = Store!get(st, key)
    /\ \A st, K, G : IsStore(st, K, G) <=> Store!IsStore(st, K, G)
    /\ \A st, gone : take(st, gone) = Store!take(st, gone)
    /\ \A st, key : delete(st, key) = Store!delete(st, key)
    /\ \A st, key, group : set(st, key, group) = Store!set(st, key, group)
    /\ \A st, key, group : amend(st, key, group) = Store!amend(st, key, group)
    /\ \A st : takeOldest(st) = Store!takeOldest(st) /\ tick(st) = Store!tick(st)
<1>1. \A es : keysOf(es) = Store!keysOf(es)
  BY DEF keysOf, Store!keysOf
<1>2. \A es : weightOf(es) = Store!weightOf(es)
  BY DEF weightOf, Store!weightOf
<1>3. \A st : held(st) = Store!held(st) /\ (full(st) <=> Store!full(st))
  BY DEF held, Store!held, ToSet, Store!ToSet, full, Store!full
<1>4. \A st, key : (has(st, key) <=> Store!has(st, key)) /\ under(st, key) = Store!under(st, key)
  BY DEF has, Store!has, keysOf, Store!keysOf, under, Store!under, ToSet, Store!ToSet
<1>5. \A st, key : entry(st, key) = Store!entry(st, key) /\ get(st, key) = Store!get(st, key)
  BY DEF entry, Store!entry, get, Store!get, ToSet, Store!ToSet
<1>6. \A st, K, G : IsStore(st, K, G) <=> Store!IsStore(st, K, G)
  BY DEF IsStore, Store!IsStore, EntriesOf, Store!EntriesOf, OneToAKey, Store!OneToAKey,
         weightOf, Store!weightOf
<1>7. \A st, gone : remove(st, gone) = Store!remove(st, gone)
  BY DEF remove, Store!remove, only, Store!only, weightOf, Store!weightOf, ToSet, Store!ToSet
<1>8. \A st, gone : take(st, gone) = Store!take(st, gone)
  <2>1. \A st : idle(st) = Store!idle(st)
    BY DEF idle, Store!idle
  <2>2. \A es, kept : only(es, kept) = Store!only(es, kept)
    BY DEF only, Store!only
  <2>3. QED
    BY <1>7, <2>1, <2>2 DEF take, Store!take
<1>9. \A st, key : delete(st, key) = Store!delete(st, key)
  BY <1>4, <1>8 DEF delete, Store!delete
<1>10. \A st, key, group : set(st, key, group) = Store!set(st, key, group)
  BY <1>4, <1>7 DEF set, Store!set
<1>11. \A st, key, group : amend(st, key, group) = Store!amend(st, key, group)
  BY DEF amend, Store!amend
<1>12. \A st : takeOldest(st) = Store!takeOldest(st) /\ tick(st) = Store!tick(st)
  BY <1>8 DEF takeOldest, Store!takeOldest, tick, Store!tick, later, Store!later
<1>13. QED
  BY <1>1, <1>2, <1>3, <1>4, <1>5, <1>6, <1>8, <1>9, <1>10, <1>11, <1>12

\* An entry is what its key says it is.
LEMMA HeldOnce ==
    ASSUME NEW K, NEW G, NEW st, IsStore(st, K, G)
    PROVE  /\ held(st) \subseteq EntriesOf(K, G)
           /\ held(st) = {st.entries[i] : i \in 1 .. Len(st.entries)}
           /\ \A d, e \in held(st) : d.key = e.key => d = e
           /\ keysOf(st.entries) = {e.key : e \in held(st)}
           /\ \A key : has(st, key) <=> \E e \in held(st) : e.key = key
<1>. DEFINE es == st.entries
<1>1. es \in Seq(EntriesOf(K, G)) /\ OneToAKey(es)
  BY DEF IsStore
<1>. HIDE DEF es
<1>2. DOMAIN es = 1 .. Len(es) /\ \A i \in 1 .. Len(es) : es[i] \in EntriesOf(K, G)
  BY <1>1
<1>3. ToSet(es) = {es[i] : i \in 1 .. Len(es)} /\ keysOf(es) = {es[i].key : i \in 1 .. Len(es)}
  BY <1>2 DEF ToSet, keysOf
<1>4. ToSet(es) \subseteq EntriesOf(K, G) /\ keysOf(es) = {e.key : e \in ToSet(es)}
  BY <1>2, <1>3
<1>5. \A d, e \in ToSet(es) : d.key = e.key => d = e
  BY <1>1, <1>3 DEF OneToAKey
<1>6. QED
  BY <1>3, <1>4, <1>5 DEF es, held, has

\* The entry under a key is the one that is there.
LEMMA EntryIsHeld ==
    ASSUME NEW K, NEW G, NEW st, IsStore(st, K, G), NEW e \in held(st)
    PROVE  entry(st, e.key) = e /\ under(st, e.key) = {e} /\ has(st, e.key) /\ get(st, e.key) = e.group
  BY Store!EntryIsHeld, SameStores, NoSegments, StoreAssumption

\* What is taken from a store is out of it, and what is left is a store.
LEMMA TakeFacts ==
    ASSUME NEW K, NEW G, NEW st, IsStore(st, K, G), NEW gone, gone \subseteq held(st)
    PROVE  /\ IsStore(take(st, gone).left, K, G)
           /\ held(take(st, gone).left) = held(st) \ gone
           /\ take(st, gone).taken \in Seq(EntriesOf(K, G))
           /\ ToSet(take(st, gone).taken) = gone
           /\ AddsUp(st, gone)
           /\ InOrderOf(st.entries, take(st, gone).left.entries)
<1>1. Store!IsStore(st, K, G) /\ gone \subseteq Store!held(st)
  BY SameStores
<1>2. /\ Store!IsStore(Store!take(st, gone).left, K, G)
      /\ Store!held(Store!take(st, gone).left) = Store!held(st) \ gone
      /\ Store!take(st, gone).taken \in Seq(Store!EntriesOf(K, G))
      /\ Store!ToSet(Store!take(st, gone).taken) = gone
      /\ Store!AddsUp(st, gone)
      /\ Store!InOrderOf(st.entries, Store!take(st, gone).left.entries)
  BY <1>1, Store!TakeFacts, NoSegments, StoreAssumption
<1>3. ToSet(take(st, gone).taken) = gone
  BY <1>2, SameStores DEF ToSet, Store!ToSet
<1>4. take(st, gone).taken \in Seq(EntriesOf(K, G))
  BY <1>2, SameStores DEF EntriesOf, Store!EntriesOf
<1>5. AddsUp(st, gone)
  BY <1>2, SameStores DEF AddsUp, Store!AddsUp
<1>6. \A es, fs : InOrderOf(es, fs) <=> Store!InOrderOf(es, fs)
  BY DEF InOrderOf, Store!InOrderOf
<1>7. take(st, gone) = Store!take(st, gone) /\ held(st) = Store!held(st)
  BY SameStores
<1>8. held(take(st, gone).left) = Store!held(take(st, gone).left)
  BY SameStores
<1>9. IsStore(take(st, gone).left, K, G) <=> Store!IsStore(take(st, gone).left, K, G)
  BY SameStores
<1>10. QED
  BY <1>2, <1>3, <1>4, <1>5, <1>6, <1>7, <1>8, <1>9, Zenon

\* A store that has nothing.
LEMMA EmptyIsStore ==
    ASSUME NEW K, NEW G
    PROVE  IsStore(empty, K, G) /\ held(empty) = {} /\ Len(empty.entries) = 0 /\ empty.total = 0
  BY Store!EmptyIsStore, SameStores, NoSegments, StoreAssumption
     DEF empty, Store!empty

\* A group set under a key that has none is appended to the entries.
LEMMA SetAppends ==
    ASSUME NEW K, NEW G, NEW st, IsStore(st, K, G), NEW key \in K, NEW group \in G, ~has(st, key)
    PROVE  set(st, key, group) =
             [entries |-> Append(st.entries,
                                 [key |-> key, left |-> Timeout, weight |-> 0, group |-> group]),
              total |-> st.total, sweeper |-> TRUE]
  BY Store!SetAppends, SameStores, NoSegments, StoreAssumption

\* It is one entry more, that weighs nothing yet.
LEMMA SetFacts ==
    ASSUME NEW K, NEW G, NEW st, IsStore(st, K, G), NEW key \in K, NEW group \in G, ~has(st, key)
    PROVE  /\ IsStore(set(st, key, group), K, G)
           /\ held(set(st, key, group)) =
                held(st) \cup {[key |-> key, left |-> Timeout, weight |-> 0, group |-> group]}
           /\ Len(set(st, key, group).entries) = Len(st.entries) + 1
           /\ set(st, key, group).total = st.total
  BY Store!SetFacts, SameStores, NoSegments, StoreAssumption

\* An amended group stays where its entry is.
LEMMA AmendFacts ==
    ASSUME NEW K, NEW G, NEW st, IsStore(st, K, G), NEW e \in held(st), NEW group \in G
    PROVE  /\ IsStore(amend(st, e.key, group), K, G)
           /\ held(amend(st, e.key, group)) = (held(st) \ {e}) \cup {[e EXCEPT !.group = group]}
           /\ Len(amend(st, e.key, group).entries) = Len(st.entries)
           /\ amend(st, e.key, group).total = st.total
  BY Store!AmendFacts, SameStores, NoSegments, StoreAssumption

\* The clock touches nothing but the deadlines.
LEMMA TickFacts ==
    ASSUME NEW K, NEW G, NEW st, IsStore(st, K, G)
    PROVE  /\ IsStore(tick(st), K, G)
           /\ held(tick(st)) = {later(e) : e \in held(st)}
           /\ Len(tick(st).entries) = Len(st.entries) /\ tick(st).total = st.total
  BY Store!TickFacts, SameStores, NoSegments, StoreAssumption
     DEF later, Store!later

\* A store that is full gives up an entry when its oldest is taken.
LEMMA TakeOldestFacts ==
    ASSUME NEW K, NEW G, NEW st, IsStore(st, K, G)
    PROVE  \E gone \in SUBSET held(st) :
               /\ takeOldest(st) = take(st, gone)
               /\ \A e \in gone : 1 \in 1 .. Len(st.entries) /\ e = st.entries[1]
               /\ full(st) => Len(takeOldest(st).left.entries) = Len(st.entries) - 1
  BY Store!TakeOldestFacts, SameStores, NoSegments, StoreAssumption

\* As many keys as entries.
LEMMA KeysCounted ==
    ASSUME NEW K, NEW G, NEW st, IsStore(st, K, G)
    PROVE  IsFiniteSet(keysOf(st.entries)) /\ Cardinality(keysOf(st.entries)) = Len(st.entries)
<1>1. Store!IsStore(st, K, G)
  BY SameStores
<1>2. /\ Store!IsFiniteSet(Store!keysOf(st.entries))
      /\ Store!Cardinality(Store!keysOf(st.entries)) = Len(st.entries)
  BY <1>1, Store!KeysCounted, NoSegments, StoreAssumption
<1>3. \A S : IsFiniteSet(S) <=> Store!IsFiniteSet(S)
  BY DEF IsFiniteSet, Store!IsFiniteSet
<1>4. \A S : Cardinality(S) = Store!Cardinality(S)
  BY DEF Cardinality, Store!Cardinality, IsFiniteSet, Store!IsFiniteSet
<1>5. QED
  BY <1>2, <1>3, <1>4, SameStores

\* What is deleted is what a key has, if anything.
LEMMA DeleteFacts ==
    ASSUME NEW K, NEW G, NEW st, IsStore(st, K, G), NEW key
    PROVE  /\ IsStore(delete(st, key), K, G)
           /\ held(delete(st, key)) = {e \in held(st) : e.key # key}
           /\ Len(delete(st, key).entries) <= Len(st.entries)
           /\ \E gone \in SUBSET held(st) :
                delete(st, key) = take(st, gone).left /\ \A e \in gone : e.key = key
  BY Store!DeleteFacts, SameStores, NoSegments, StoreAssumption

-----------------------------------------------------------------------------
(* The invariant.                                                          *)

baseOf(s) == SmsIds[s][1].base
partsOf(s) == {id.part : id \in ToSet(SmsIds[s])}

PartNumbers == UNION {partsOf(s) : s \in Numbered}
PartsHeld == UNION {[P -> {"final"}] : P \in SUBSET PartNumbers}
Groups == [expected : {partsOf(s) : s \in Numbered}, parts : PartsHeld]

\* The store still has b where its memory says, and after it none but others since.
Recalls(es, b, h) ==
    \E i \in 1 .. Len(es) :
        /\ es[i].key = b /\ es[i].left = Timeout - h.ago
        /\ \A j \in 1 .. Len(es) : i < j => es[j].key \in h.since

Stores(G) == [entries : Seq(EntriesOf(Bases, G)), total : Nat, sweeper : BOOLEAN]
Memory == [ago : 0 .. Timeout - 1, since : SUBSET Bases]
Memories == UNION {[D -> Memory] : D \in SUBSET Bases}
Mergers == [groups : Stores(Groups), spent : Stores({TRUE}), finished : Memories, givenUp : SUBSET Bases]

\* The stores of a merger are within their bounds and apart, and what it is to
\* remember is in the one of what is spent.
Keeps(m) ==
    /\ m \in Mergers
    /\ IsStore(m.groups, Bases, Groups) /\ IsStore(m.spent, Bases, {TRUE})
    /\ Len(m.groups.entries) <= MaxGroups /\ Len(m.spent.entries) <= MaxGroups
    /\ \A e \in held(m.groups), f \in held(m.spent) : e.key # f.key
    /\ \A b \in DOMAIN m.finished : Recalls(m.spent.entries, b, m.finished[b])

\* A group collects the receipts of a send that was taken, and lacks one.
Collects(e, sent) ==
    \E s \in Numbered :
        /\ sent[s] = "accepted" /\ e.key = baseOf(s) /\ e.group.expected = partsOf(s)
        /\ DOMAIN e.group.parts \subseteq partsOf(s)
        /\ Cardinality(DOMAIN e.group.parts) < Cardinality(partsOf(s))

\* A report has a final receipt of every segment of a send that was taken.
Whole(r, sent) ==
    \E s \in Sends :
        /\ sent[s] = "accepted"
        /\ Len(SmsIds[s]) = Cardinality(DOMAIN r.segments)
        /\ ToSet(SmsIds[s]) = {[base |-> r.base, part |-> p] : p \in DOMAIN r.segments}
        /\ \A p \in DOMAIN r.segments : r.segments[p] = "final"

\* A send that was taken and is not settled has its group, with the segments reported.
Awaited(s, store, rep) ==
    \E e \in held(store) :
        /\ e.key = baseOf(s) /\ e.group.expected = partsOf(s)
        /\ \A i \in rep : SmsIds[s][i].part \in DOMAIN e.group.parts

\* The bases that were given up or reported.
past(given, told) == given \cup {told[n].base : n \in DOMAIN told}

Typed ==
    /\ sending \in [Sends -> {"out", "accepted", "failed"}] /\ over \in BOOLEAN
    /\ reported \in [Sends -> SUBSET Nat] /\ \A s \in Sends : reported[s] \subseteq DOMAIN SmsIds[s]
    /\ reports \in Seq([base : Bases, segments : PartsHeld])
    /\ givenUp \subseteq Bases /\ Cardinality(DOMAIN finished) <= MaxGroups

Stored == Keeps(merger)

AllCollect == \A e \in held(groups) : Collects(e, sending)

AllWhole == \A n \in DOMAIN reports : Whole(reports[n], sending)

\* Nothing is reported of a send before it was taken.
AllAwaited ==
    /\ \A s \in Sends : sending[s] # "accepted" => reported[s] = {}
    /\ \A s \in Numbered :
        sending[s] = "accepted" /\ ~over /\ baseOf(s) \notin past(givenUp, reports) =>
            Awaited(s, groups, reported[s])

IInv == Typed /\ Stored /\ AllCollect /\ AllWhole /\ AllAwaited

-----------------------------------------------------------------------------
(* The ids of a message that expects its report.                           *)

\* They share a base and each have a part of their own.
LEMMA NumberedFacts ==
    ASSUME NEW s \in Numbered
    PROVE  /\ s \in Sends /\ baseOf(s) \in Bases
           /\ partsOf(s) \subseteq PartNumbers /\ PartNumbers \subseteq Nat
           /\ IsFiniteSet(partsOf(s)) /\ Cardinality(partsOf(s)) = Len(SmsIds[s])
           /\ Len(SmsIds[s]) \in Nat /\ Len(SmsIds[s]) >= 2
           /\ partsOf(s) = {SmsIds[s][i].part : i \in DOMAIN SmsIds[s]}
           /\ \A i \in DOMAIN SmsIds[s] :
                /\ SmsIds[s][i] = [base |-> baseOf(s), part |-> SmsIds[s][i].part]
                /\ SmsIds[s][i] # NoId
           /\ ToSet(SmsIds[s]) = {[base |-> baseOf(s), part |-> p] : p \in partsOf(s)}
<1>. DEFINE ids == SmsIds[s]
            Id == [base : Bases, part : Nat]
            bases == {id.base : id \in ToSet(ids)}
            parts == {id.part : id \in ToSet(ids)}
<1>1. s \in Sends /\ ids \in Seq(Id \cup {NoId}) /\ Len(ids) \in Nat /\ Len(ids) >= 2
  BY SendsAssumption DEF Numbered
<1>2. NoId \notin ToSet(ids) /\ Cardinality(bases) = 1 /\ Cardinality(parts) = Len(ids)
  BY DEF Numbered, oneMessage
<1>. HIDE DEF ids
<1>3. DOMAIN ids = 1 .. Len(ids) /\ 1 \in DOMAIN ids
  BY <1>1
<1>4. ToSet(ids) = {ids[i] : i \in DOMAIN ids}
  BY <1>3 DEF ToSet
<1>5. \A i \in DOMAIN ids : ids[i] \in Id /\ ids[i] # NoId
  <2>. HIDE DEF Id
  <2>1. \A i \in DOMAIN ids : ids[i] \in Id \cup {NoId}
    BY <1>1, <1>3
  <2>2. \A i \in DOMAIN ids : ids[i] \in ToSet(ids)
    BY <1>4
  <2>3. QED
    BY <1>2, <2>1, <2>2
<1>6. parts = {ids[i].part : i \in DOMAIN ids} /\ bases = {ids[i].base : i \in DOMAIN ids}
  BY <1>4
<1>7. IsFiniteSet(bases) /\ IsFiniteSet(parts)
  <2>. DEFINE n == Len(ids)
              f == [i \in 1 .. n |-> ids[i].base]
              g == [i \in 1 .. n |-> ids[i].part]
  <2>1. f \in Surjection(1 .. n, bases) /\ g \in Surjection(1 .. n, parts)
    BY <1>3, <1>6 DEF Surjection
  <2>2. n \in Nat
    BY <1>1
  <2>. HIDE DEF n, f, g
  <2>3. IsFiniteSet(1 .. n)
    BY <2>2, FS_Interval
  <2>4. IsFiniteSet(bases)
    BY <2>1, <2>3, FS_Surjection
  <2>5. IsFiniteSet(parts)
    BY <2>1, <2>3, FS_Surjection
  <2>6. QED
    BY <2>4, <2>5
<1>8. PICK b : bases = {b}
  BY <1>2, <1>7, FS_Singleton
<1>9. \A i \in DOMAIN ids : ids[i].base = ids[1].base
  BY <1>3, <1>6, <1>8
<1>10. baseOf(s) = ids[1].base /\ partsOf(s) = parts
  BY DEF baseOf, partsOf, ids
<1>11. \A i \in DOMAIN ids : ids[i] = [base |-> ids[1].base, part |-> ids[i].part] /\ ids[i].part \in Nat
  BY <1>5, <1>9
<1>12. ids[1].base \in Bases
  BY <1>3, <1>5
<1>13. ToSet(ids) = {[base |-> ids[1].base, part |-> p] : p \in parts}
  BY <1>4, <1>6, <1>11
<1>14. partsOf(s) \subseteq PartNumbers
  BY DEF PartNumbers
<1>15. PartNumbers \subseteq Nat
  <2>1. ASSUME NEW t \in Numbered PROVE partsOf(t) \subseteq Nat
    <3>1. SmsIds[t] \in Seq(Id \cup {NoId}) /\ NoId \notin ToSet(SmsIds[t])
      BY SendsAssumption DEF Numbered, oneMessage
    <3>2. ToSet(SmsIds[t]) \subseteq Id
      <4>1. DOMAIN SmsIds[t] = 1 .. Len(SmsIds[t])
        BY <3>1
      <4>2. QED
        BY <3>1, <4>1 DEF ToSet
    <3>3. QED
      BY <3>2 DEF partsOf
  <2>2. QED
    BY <2>1 DEF PartNumbers
<1>16. parts = {ids[i].part : i \in DOMAIN ids}
  BY <1>4
<1>17. /\ IsFiniteSet(partsOf(s)) /\ Cardinality(partsOf(s)) = Len(ids)
       /\ baseOf(s) \in Bases /\ partsOf(s) = {ids[i].part : i \in DOMAIN ids}
       /\ ToSet(ids) = {[base |-> baseOf(s), part |-> p] : p \in partsOf(s)}
  BY <1>2, <1>7, <1>10, <1>12, <1>13, <1>16
<1>18. \A i \in DOMAIN ids : ids[i] = [base |-> baseOf(s), part |-> ids[i].part] /\ ids[i] # NoId
  BY <1>5, <1>10, <1>11
<1>. HIDE DEF Id, bases, parts
<1>19. QED
  BY <1>1, <1>14, <1>15, <1>17, <1>18 DEF ids

\* Each of them is one of its base and its parts.
LEMMA IdFacts ==
    ASSUME NEW s \in Numbered, NEW i \in DOMAIN SmsIds[s]
    PROVE  /\ SmsIds[s][i].base = baseOf(s) /\ SmsIds[s][i].part \in partsOf(s)
           /\ SmsIds[s][i] # NoId
<1>. DEFINE id == SmsIds[s][i]
<1>1. id = [base |-> baseOf(s), part |-> id.part] /\ id # NoId
  <2>1. \A j \in DOMAIN SmsIds[s] :
          /\ SmsIds[s][j] = [base |-> baseOf(s), part |-> SmsIds[s][j].part]
          /\ SmsIds[s][j] # NoId
    BY NumberedFacts
  <2>2. QED
    BY <2>1
<1>2. id.part \in partsOf(s)
  <2>1. partsOf(s) = {SmsIds[s][j].part : j \in DOMAIN SmsIds[s]}
    BY NumberedFacts
  <2>2. QED
    BY <2>1
<1>. HIDE DEF id
<1>3. id.base = baseOf(s)
  BY <1>1
<1>4. QED
  BY <1>1, <1>2, <1>3 DEF id

-----------------------------------------------------------------------------
(* What a store that is added to and taken from recalls.                   *)

\* Taking others leaves a base where it was, and no more behind it.
LEMMA RecallsTake ==
    ASSUME NEW K, NEW G, NEW st, IsStore(st, K, G), NEW gone \in SUBSET held(st),
           NEW b, NEW h, Recalls(st.entries, b, h), \A e \in gone : e.key # b
    PROVE  Recalls(take(st, gone).left.entries, b, h)
<1>. DEFINE es == st.entries
            fs == take(st, gone).left.entries
<1>1. /\ IsStore(take(st, gone).left, K, G) /\ held(take(st, gone).left) = held(st) \ gone
      /\ InOrderOf(es, fs)
  BY TakeFacts
<1>2. /\ held(st) = {es[i] : i \in 1 .. Len(es)} /\ OneToAKey(es)
      /\ held(take(st, gone).left) = {fs[i] : i \in 1 .. Len(fs)}
  <2>1. held(st) = {es[i] : i \in 1 .. Len(es)}
    BY HeldOnce
  <2>2. held(take(st, gone).left) = {fs[i] : i \in 1 .. Len(fs)}
    BY <1>1, HeldOnce
  <2>3. QED
    BY <2>1, <2>2 DEF IsStore
<1>. HIDE DEF fs, es
<1>3. PICK i \in 1 .. Len(es) :
        /\ es[i].key = b /\ es[i].left = Timeout - h.ago
        /\ \A j \in 1 .. Len(es) : i < j => es[j].key \in h.since
  BY DEF Recalls, es
<1>4. PICK k \in 1 .. Len(fs) : fs[k] = es[i]
  <2>1. es[i] \in held(st) \ gone
    BY <1>2, <1>3
  <2>2. QED
    BY <1>1, <1>2, <2>1
<1>5. ASSUME NEW l \in 1 .. Len(fs), k < l PROVE fs[l].key \in h.since
  <2>1. PICK p \in 1 .. Len(es), q \in 1 .. Len(es) : p < q /\ fs[k] = es[p] /\ fs[l] = es[q]
    BY <1>1, <1>5 DEF InOrderOf
  <2>2. p = i
    BY <1>2, <1>4, <2>1 DEF OneToAKey
  <2>3. QED
    BY <1>3, <2>1, <2>2
<1>6. QED
  BY <1>3, <1>4, <1>5 DEF Recalls, fs

\* A base that is set comes after the others, and is recalled from now on.
LEMMA RecallsSet ==
    ASSUME NEW K, NEW G, NEW st, IsStore(st, K, G), NEW key \in K, NEW group \in G, ~has(st, key)
    PROVE  /\ Recalls(set(st, key, group).entries, key, [ago |-> 0, since |-> {}])
           /\ \A b, ago, since : Recalls(st.entries, b, [ago |-> ago, since |-> since]) =>
                Recalls(set(st, key, group).entries, b, [ago |-> ago, since |-> since \cup {key}])
<1>. DEFINE es == st.entries
            new == [key |-> key, left |-> Timeout, weight |-> 0, group |-> group]
            fs == set(st, key, group).entries
<1>1. es \in Seq(EntriesOf(K, G)) /\ fs = Append(es, new)
  <2>1. set(st, key, group) = [entries |-> Append(es, new), total |-> st.total, sweeper |-> TRUE]
    BY SetAppends
  <2>2. QED
    BY <2>1 DEF IsStore
<1>2. new.key = key /\ new.left = Timeout /\ Timeout - 0 = Timeout
  BY StoreAssumption
<1>. HIDE DEF es, new, fs
<1>3. /\ Len(fs) = Len(es) + 1 /\ Len(es) \in Nat /\ fs[Len(es) + 1] = new
      /\ \A i \in 1 .. Len(es) : fs[i] = es[i]
  BY <1>1
<1>4. \A i \in 1 .. Len(fs) : i \in 1 .. Len(es) \/ i = Len(es) + 1
  BY <1>3
<1>5. Recalls(fs, key, [ago |-> 0, since |-> {}])
  <2>1. Len(fs) \in 1 .. Len(fs) /\ fs[Len(fs)] = new /\ \A j \in 1 .. Len(fs) : ~(Len(fs) < j)
    BY <1>3
  <2>2. QED
    BY <1>2, <2>1 DEF Recalls
<1>6. ASSUME NEW b, NEW ago, NEW since, Recalls(es, b, [ago |-> ago, since |-> since])
      PROVE  Recalls(fs, b, [ago |-> ago, since |-> since \cup {key}])
  <2>1. PICK i \in 1 .. Len(es) :
          /\ es[i].key = b /\ es[i].left = Timeout - ago
          /\ \A j \in 1 .. Len(es) : i < j => es[j].key \in since
    BY <1>6 DEF Recalls
  <2>2. i \in 1 .. Len(fs) /\ fs[i] = es[i]
    BY <1>3
  <2>3. ASSUME NEW j \in 1 .. Len(fs), i < j PROVE fs[j].key \in since \cup {key}
    BY <1>2, <1>3, <1>4, <2>1, <2>3
  <2>4. QED
    BY <2>1, <2>2, <2>3 DEF Recalls
<1>7. QED
  BY <1>5, <1>6 DEF es, fs

\* The clock takes a base no further than it has been remembered for.
LEMMA RecallsTick ==
    ASSUME NEW K, NEW G, NEW st, IsStore(st, K, G), NEW b, NEW h, Recalls(st.entries, b, h),
           h.ago \in Nat, h.ago + 1 < Timeout, NEW g, g.ago = h.ago + 1, g.since = h.since
    PROVE  Recalls(tick(st).entries, b, g)
<1>. DEFINE es == st.entries
            fs == tick(st).entries
<1>1. Len(fs) = Len(es) /\ \A i \in 1 .. Len(es) : fs[i] = later(es[i])
  <2>1. fs = [i \in DOMAIN es |-> later(es[i])]
    BY DEF tick, IsStore
  <2>2. DOMAIN es = 1 .. Len(es) /\ Len(es) \in Nat
    BY DEF IsStore
  <2>. HIDE DEF es, fs
  <2>3. QED
    BY <2>1, <2>2
<1>2. \A i \in 1 .. Len(es) : es[i] \in EntriesOf(K, G)
  BY DEF IsStore
<1>. HIDE DEF es, fs
<1>3. PICK i \in 1 .. Len(es) :
        /\ es[i].key = b /\ es[i].left = Timeout - h.ago
        /\ \A j \in 1 .. Len(es) : i < j => es[j].key \in h.since
  BY DEF Recalls, es
<1>4. \A e \in EntriesOf(K, G) :
        later(e).key = e.key /\ (e.left # 0 => later(e).left = e.left - 1)
  BY DEF EntriesOf, later
<1>5. es[i].left # 0 /\ es[i].left - 1 = Timeout - g.ago
  BY <1>3, StoreAssumption
<1>6. QED
  BY <1>1, <1>2, <1>3, <1>4, <1>5 DEF Recalls, fs

\* What expires is remembered no more.
LEMMA RecalledIsNotExpired ==
    ASSUME NEW K, NEW G, NEW st, IsStore(st, K, G), NEW b, NEW h, Recalls(st.entries, b, h),
           h.ago \in 0 .. Timeout - 1, NEW e \in held(st), e.left = 0
    PROVE  e.key # b
<1>. DEFINE es == st.entries
<1>1. held(st) = {es[i] : i \in 1 .. Len(es)} /\ OneToAKey(es)
  BY HeldOnce DEF IsStore
<1>2. PICK i \in 1 .. Len(es) : es[i].key = b /\ es[i].left = Timeout - h.ago
  BY DEF Recalls
<1>3. PICK j \in 1 .. Len(es) : e = es[j]
  BY <1>1
<1>4. es[i].left # 0
  BY <1>2, StoreAssumption
<1>5. QED
  BY <1>1, <1>2, <1>3, <1>4 DEF OneToAKey

\* A base is remembered only while fewer others than the cap came after it: a
\* full store's oldest one is not, when another is to come.
LEMMA OldestIsForgotten ==
    ASSUME NEW K, IsFiniteSet(K), NEW G, NEW st, IsStore(st, K, G), full(st),
           NEW key \in K, ~has(st, key), NEW b, NEW h, Recalls(st.entries, b, h),
           h.since \in SUBSET K, Cardinality(h.since \cup {key}) < MaxGroups,
           NEW e, e = st.entries[1]
    PROVE  e.key # b
<1>. DEFINE es == st.entries
            keys == keysOf(es)
            after == h.since \cup {key}
<1>1. es \in Seq(EntriesOf(K, G)) /\ OneToAKey(es) /\ Len(es) \in Nat /\ Len(es) >= MaxGroups
  BY DEF IsStore, full
<1>2. PICK i \in 1 .. Len(es) :
        es[i].key = b /\ \A j \in 1 .. Len(es) : i < j => es[j].key \in h.since
  BY DEF Recalls
<1>. SUFFICES ASSUME e.key = b PROVE FALSE
  OBVIOUS
<1>3. 1 \in 1 .. Len(es)
  BY <1>1, StoreAssumption
<1>4. i = 1
  BY <1>1, <1>2, <1>3 DEF OneToAKey
<1>5. keys = {es[j].key : j \in 1 .. Len(es)} /\ key \notin keys
  BY <1>1 DEF keysOf, has
<1>6. IsFiniteSet(keys) /\ Cardinality(keys) = Len(es)
  BY KeysCounted
<1>. HIDE DEF keys
<1>7. (keys \ {b}) \cup {key} \subseteq after
  <2>1. ASSUME NEW j \in 1 .. Len(es), es[j].key # b PROVE es[j].key \in h.since
    <3>1. i < j
      BY <1>2, <1>4, <2>1
    <3>2. QED
      BY <1>2, <3>1
  <2>2. QED
    BY <1>5, <2>1
<1>8. b \in keys
  BY <1>2, <1>5
<1>9. Cardinality((keys \ {b}) \cup {key}) = Len(es) /\ IsFiniteSet((keys \ {b}) \cup {key})
  <2>. DEFINE rest == keys \ {b}
              n == Len(es)
  <2>1. IsFiniteSet(rest) /\ Cardinality(rest) = Cardinality(keys) - 1
    BY <1>6, <1>8, FS_RemoveElement
  <2>2. key \notin rest
    BY <1>5
  <2>. HIDE DEF rest
  <2>3. IsFiniteSet(rest \cup {key}) /\ Cardinality(rest \cup {key}) = Cardinality(rest) + 1
    BY <2>1, <2>2, FS_AddElement
  <2>4. n \in Nat /\ Cardinality(rest) = n - 1
    BY <1>1, <1>6, <2>1
  <2>. HIDE DEF n
  <2>5. Cardinality(rest \cup {key}) = n
    BY <2>3, <2>4
  <2>6. QED
    BY <2>3, <2>5 DEF rest, n
<1>10. IsFiniteSet(after)
  <2>1. after \subseteq K
    OBVIOUS
  <2>. HIDE DEF after
  <2>2. QED
    BY <2>1, FS_Subset
<1>11. Cardinality((keys \ {b}) \cup {key}) <= Cardinality(after)
  <2>. DEFINE others == (keys \ {b}) \cup {key}
  <2>1. others \subseteq after
    BY <1>7
  <2>. HIDE DEF others, after
  <2>2. Cardinality(others) <= Cardinality(after)
    BY <1>10, <2>1, FS_Subset
  <2>3. QED
    BY <2>2 DEF others
<1>12. Cardinality(after) \in Nat
  BY <1>10, FS_CardinalityType
<1>13. QED
  <2>. DEFINE c == Cardinality(after)
              n == Len(es)
  <2>1. n <= c /\ c < MaxGroups /\ n >= MaxGroups /\ n \in Nat /\ c \in Nat /\ MaxGroups \in Nat
    BY <1>1, <1>9, <1>11, <1>12, StoreAssumption
  <2>. HIDE DEF c, n
  <2>2. QED
    BY <2>1

-----------------------------------------------------------------------------
(* What the merger's operations do to it.                                  *)

\* Groups may go, each to the bases given up unless it is the one of but, and
\* what is spent was in one of the stores.
Shrinks(m, c, but) ==
    /\ Keeps(c)
    /\ held(c.groups) \subseteq held(m.groups)
    /\ \A e \in held(m.groups) : e \in held(c.groups) \/ e.key \in c.givenUp \cup but
    /\ m.givenUp \subseteq c.givenUp
    /\ \A f \in held(c.spent) :
        \/ \E e \in held(m.groups) : e.key = f.key
        \/ \E e \in held(m.spent) : e.key = f.key
        \/ f.key \in but

\* A memory is a function on some of the bases.
LEMMA MemoryFacts ==
    ASSUME NEW fin \in Memories
    PROVE  /\ DOMAIN fin \subseteq Bases
           /\ \A b \in DOMAIN fin :
                /\ fin[b].ago \in 0 .. Timeout - 1 /\ fin[b].since \subseteq Bases
                /\ fin[b] = [ago |-> fin[b].ago, since |-> fin[b].since]
<1>1. PICK D \in SUBSET Bases : fin \in [D -> Memory]
  BY DEF Memories
<1>2. DOMAIN fin = D /\ \A b \in D : fin[b] \in Memory
  BY <1>1
<1>3. QED
  BY <1>2 DEF Memory

\* A base that is finished with is remembered, and so are those that are not
\* out of the cap for it.
LEMMA RememberFacts ==
    ASSUME NEW fin \in Memories, NEW base \in Bases
    PROVE  /\ Remember(fin, base) \in Memories
           /\ \A b \in DOMAIN Remember(fin, base) :
                \/ b = base /\ Remember(fin, base)[b] = [ago |-> 0, since |-> {}]
                \/ /\ b \in DOMAIN fin \ {base} /\ Cardinality(fin[b].since \cup {base}) < MaxGroups
                   /\ Remember(fin, base)[b] =
                        [ago |-> fin[b].ago, since |-> fin[b].since \cup {base}]
<1>. DEFINE since(b) == fin[b].since \cup {base}
            kept == {b \in DOMAIN fin \ {base} : Cardinality(since(b)) < MaxGroups}
            item(b) == IF b = base THEN [ago |-> 0, since |-> {}]
                       ELSE [ago |-> fin[b].ago, since |-> since(b)]
            R == [b \in kept \cup {base} |-> item(b)]
<1>1. Remember(fin, base) = R
  BY DEF Remember
<1>2. /\ DOMAIN fin \subseteq Bases
      /\ \A b \in DOMAIN fin : fin[b].ago \in 0 .. Timeout - 1 /\ fin[b].since \subseteq Bases
  BY MemoryFacts
<1>3. kept \cup {base} \in SUBSET Bases /\ kept \subseteq DOMAIN fin
  BY <1>2
<1>4. [ago |-> 0, since |-> {}] \in Memory
  BY StoreAssumption DEF Memory
<1>5. \A b \in kept : [ago |-> fin[b].ago, since |-> since(b)] \in Memory
  BY <1>2, <1>3 DEF Memory
<1>6. \A b \in kept \cup {base} : item(b) \in Memory
  BY <1>4, <1>5
<1>7. R \in [kept \cup {base} -> Memory]
  BY <1>6
<1>8. R \in Memories
  BY <1>3, <1>7 DEF Memories
<1>9. ASSUME NEW b \in DOMAIN R
      PROVE  \/ b = base /\ R[b] = [ago |-> 0, since |-> {}]
             \/ /\ b \in DOMAIN fin \ {base} /\ Cardinality(fin[b].since \cup {base}) < MaxGroups
                /\ R[b] = [ago |-> fin[b].ago, since |-> fin[b].since \cup {base}]
  <2>1. R[b] = item(b) /\ (b = base \/ b \in kept)
    OBVIOUS
  <2>2. QED
    BY <2>1
<1>. HIDE DEF R
<1>10. QED
  BY <1>1, <1>8, <1>9

\* What a base is added to when it is finished with: it has room, and still has
\* what is to be remembered.
LEMMA RoomFacts ==
    ASSUME NEW st, IsStore(st, Bases, {TRUE}), Len(st.entries) <= MaxGroups,
           NEW base \in Bases, NEW fin \in Memories,
           \A b \in DOMAIN fin : Recalls(st.entries, b, fin[b]),
           NEW kept, kept = delete(st, base),
           NEW roomy, roomy = IF full(kept) THEN takeOldest(kept).left ELSE kept
    PROVE  /\ IsStore(roomy, Bases, {TRUE}) /\ Len(roomy.entries) < MaxGroups
           /\ held(roomy) \subseteq held(st) /\ ~has(roomy, base)
           /\ \A b \in DOMAIN fin \ {base} :
                Cardinality(fin[b].since \cup {base}) < MaxGroups => Recalls(roomy.entries, b, fin[b])
<1>1. /\ IsStore(kept, Bases, {TRUE}) /\ held(kept) = {e \in held(st) : e.key # base}
      /\ Len(kept.entries) <= Len(st.entries)
      /\ \E gone \in SUBSET held(st) : kept = take(st, gone).left /\ \A e \in gone : e.key = base
  <2>1. /\ IsStore(delete(st, base), Bases, {TRUE})
        /\ held(delete(st, base)) = {e \in held(st) : e.key # base}
        /\ Len(delete(st, base).entries) <= Len(st.entries)
        /\ \E gone \in SUBSET held(st) :
             delete(st, base) = take(st, gone).left /\ \A e \in gone : e.key = base
    BY DeleteFacts
  <2>2. QED
    BY <2>1
<1>2. ~has(kept, base)
  BY <1>1, HeldOnce
<1>3. \A b \in DOMAIN fin \ {base} : Recalls(kept.entries, b, fin[b])
  <2>1. PICK gone \in SUBSET held(st) : kept = take(st, gone).left /\ \A e \in gone : e.key = base
    BY <1>1
  <2>2. ASSUME NEW b \in DOMAIN fin \ {base} PROVE Recalls(kept.entries, b, fin[b])
    <3>1. Recalls(st.entries, b, fin[b]) /\ \A e \in gone : e.key # b
      BY <2>1
    <3>2. Recalls(take(st, gone).left.entries, b, fin[b])
      BY <3>1, RecallsTake
    <3>3. QED
      BY <2>1, <3>2
  <2>3. QED
    BY <2>2
<1>4. Len(kept.entries) \in Nat /\ Len(st.entries) \in Nat /\ MaxGroups \in Nat
  BY <1>1, StoreAssumption DEF IsStore
<1>5. CASE ~full(kept)
  <2>1. roomy = kept /\ Len(kept.entries) < MaxGroups
    BY <1>4, <1>5 DEF full
  <2>2. QED
    BY <1>1, <1>2, <1>3, <2>1
<1>6. CASE full(kept)
  <2>1. PICK gone \in SUBSET held(kept) :
          /\ takeOldest(kept) = take(kept, gone)
          /\ \A e \in gone : 1 \in 1 .. Len(kept.entries) /\ e = kept.entries[1]
          /\ full(kept) => Len(takeOldest(kept).left.entries) = Len(kept.entries) - 1
    BY <1>1, TakeOldestFacts
  <2>2. roomy = take(kept, gone).left
    BY <1>6, <2>1
  <2>3. IsStore(take(kept, gone).left, Bases, {TRUE}) /\ held(take(kept, gone).left) = held(kept) \ gone
    BY <1>1, TakeFacts
  <2>4. Len(roomy.entries) = Len(kept.entries) - 1
    BY <1>6, <2>1, <2>2
  <2>5. Len(roomy.entries) < MaxGroups
    <3>. DEFINE k == Len(kept.entries)
                l == Len(st.entries)
                r == Len(roomy.entries)
    <3>1. k \in Nat /\ l \in Nat /\ MaxGroups \in Nat /\ r = k - 1 /\ k <= l /\ l <= MaxGroups
      BY <1>1, <1>4, <2>4
    <3>. HIDE DEF k, l, r
    <3>2. r < MaxGroups
      BY <3>1
    <3>3. QED
      BY <3>2 DEF r
  <2>6. ~has(roomy, base)
    <3>1. \A e \in held(roomy) : e.key # base
      BY <1>1, <2>2, <2>3
    <3>2. IsStore(roomy, Bases, {TRUE})
      BY <2>2, <2>3
    <3>3. QED
      BY <3>1, <3>2, HeldOnce
  <2>7. ASSUME NEW b \in DOMAIN fin \ {base}, Cardinality(fin[b].since \cup {base}) < MaxGroups
        PROVE  Recalls(roomy.entries, b, fin[b])
    <3>1. ASSUME NEW e \in gone PROVE e.key # b
      <4>1. Recalls(kept.entries, b, fin[b])
        BY <1>3
      <4>2. fin[b].since \in SUBSET Bases
        BY MemoryFacts
      <4>3. e = kept.entries[1]
        BY <2>1
      <4>4. IsFiniteSet(Bases)
        BY SendsAssumption
      <4>5. IsStore(kept, Bases, {TRUE}) /\ full(kept) /\ ~has(kept, base)
        BY <1>1, <1>2, <1>6
      <4>6. Cardinality(fin[b].since \cup {base}) < MaxGroups
        BY <2>7
      <4>. DEFINE h == fin[b]
      <4>. HIDE DEF h
      <4>7. Recalls(kept.entries, b, h) /\ h.since \in SUBSET Bases
            /\ Cardinality(h.since \cup {base}) < MaxGroups
        BY <4>1, <4>2, <4>6 DEF h
      <4>8. QED
        BY <4>3, <4>4, <4>5, <4>7, OldestIsForgotten
    <3>2. Recalls(kept.entries, b, fin[b])
      BY <1>3
    <3>3. Recalls(take(kept, gone).left.entries, b, fin[b])
      BY <1>1, <3>1, <3>2, RecallsTake
    <3>4. QED
      BY <2>2, <3>3
  <2>8. IsStore(roomy, Bases, {TRUE}) /\ held(roomy) \subseteq held(st)
    BY <1>1, <2>2, <2>3
  <2>9. QED
    BY <2>5, <2>6, <2>7, <2>8
<1>7. QED
  BY <1>5, <1>6

\* A base that is finished with is no longer collected, and remembered.
LEMMA CloseFacts ==
    ASSUME NEW m, Keeps(m), NEW base \in Bases
    PROVE  /\ Shrinks(m, close(m, base), {base})
           /\ held(close(m, base).groups) = {e \in held(m.groups) : e.key # base}
           /\ Len(close(m, base).groups.entries) <= Len(m.groups.entries)
           /\ close(m, base).givenUp = m.givenUp
<1>. DEFINE kept == delete(m.spent, base)
            roomy == IF full(kept) THEN takeOldest(kept).left ELSE kept
            left == delete(m.groups, base)
            spent2 == set(roomy, base, TRUE)
            fin == m.finished
            fin2 == Remember(fin, base)
            c == close(m, base)
<1>1. /\ m \in Mergers /\ fin \in Memories /\ m.givenUp \in SUBSET Bases
      /\ IsStore(m.groups, Bases, Groups) /\ IsStore(m.spent, Bases, {TRUE})
      /\ Len(m.groups.entries) <= MaxGroups /\ Len(m.spent.entries) <= MaxGroups
      /\ \A e \in held(m.groups), f \in held(m.spent) : e.key # f.key
      /\ \A b \in DOMAIN fin : Recalls(m.spent.entries, b, fin[b])
  BY DEF Keeps, Mergers
<1>2. c = [m EXCEPT !.groups = left, !.spent = spent2, !.finished = fin2]
  BY DEF close
<1>3. m = [groups |-> m.groups, spent |-> m.spent, finished |-> m.finished, givenUp |-> m.givenUp]
  BY <1>1 DEF Mergers
<1>4. /\ IsStore(left, Bases, Groups) /\ held(left) = {e \in held(m.groups) : e.key # base}
      /\ Len(left.entries) <= Len(m.groups.entries)
  BY <1>1, DeleteFacts
<1>5. /\ IsStore(roomy, Bases, {TRUE}) /\ Len(roomy.entries) < MaxGroups
      /\ held(roomy) \subseteq held(m.spent) /\ ~has(roomy, base)
      /\ \A b \in DOMAIN fin \ {base} :
           Cardinality(fin[b].since \cup {base}) < MaxGroups => Recalls(roomy.entries, b, fin[b])
  <2>. DEFINE st == m.spent
  <2>1. /\ IsStore(st, Bases, {TRUE}) /\ Len(st.entries) <= MaxGroups /\ fin \in Memories
        /\ \A b \in DOMAIN fin : Recalls(st.entries, b, fin[b])
        /\ kept = delete(st, base) /\ roomy = IF full(kept) THEN takeOldest(kept).left ELSE kept
    BY <1>1
  <2>. HIDE DEF fin, kept, roomy, st
  <2>2. /\ IsStore(roomy, Bases, {TRUE}) /\ Len(roomy.entries) < MaxGroups
        /\ held(roomy) \subseteq held(st) /\ ~has(roomy, base)
        /\ \A b \in DOMAIN fin \ {base} :
             Cardinality(fin[b].since \cup {base}) < MaxGroups => Recalls(roomy.entries, b, fin[b])
    BY <2>1, RoomFacts
  <2>3. QED
    BY <2>2 DEF st
<1>. HIDE DEF c, left, roomy, kept, fin
<1>6. /\ IsStore(spent2, Bases, {TRUE})
      /\ held(spent2) = held(roomy) \cup {[key |-> base, left |-> Timeout, weight |-> 0, group |-> TRUE]}
      /\ Len(spent2.entries) = Len(roomy.entries) + 1
  <2>. DEFINE yes == TRUE
              G == {TRUE}
  <2>1. IsStore(roomy, Bases, G) /\ ~has(roomy, base) /\ yes \in G
    BY <1>5
  <2>. HIDE DEF yes, G
  <2>2. /\ IsStore(set(roomy, base, yes), Bases, G)
        /\ held(set(roomy, base, yes)) =
             held(roomy) \cup {[key |-> base, left |-> Timeout, weight |-> 0, group |-> yes]}
        /\ Len(set(roomy, base, yes).entries) = Len(roomy.entries) + 1
        /\ set(roomy, base, yes).total = roomy.total
    BY <2>1, SetFacts
  <2>3. QED
    BY <2>2 DEF yes, G
<1>7. /\ Recalls(spent2.entries, base, [ago |-> 0, since |-> {}])
      /\ \A b, ago, since : Recalls(roomy.entries, b, [ago |-> ago, since |-> since]) =>
           Recalls(spent2.entries, b, [ago |-> ago, since |-> since \cup {base}])
  BY <1>5, RecallsSet
<1>. HIDE DEF spent2
<1>8. fin2 \in Memories
  BY <1>1, RememberFacts
<1>9. ASSUME NEW b \in DOMAIN fin2 PROVE Recalls(spent2.entries, b, fin2[b])
  <2>1. \/ b = base /\ fin2[b] = [ago |-> 0, since |-> {}]
        \/ /\ b \in DOMAIN fin \ {base} /\ Cardinality(fin[b].since \cup {base}) < MaxGroups
           /\ fin2[b] = [ago |-> fin[b].ago, since |-> fin[b].since \cup {base}]
    BY <1>1, RememberFacts
  <2>2. CASE b = base /\ fin2[b] = [ago |-> 0, since |-> {}]
    BY <1>7, <2>2
  <2>3. CASE /\ b \in DOMAIN fin \ {base} /\ Cardinality(fin[b].since \cup {base}) < MaxGroups
             /\ fin2[b] = [ago |-> fin[b].ago, since |-> fin[b].since \cup {base}]
    <3>1. Recalls(roomy.entries, b, fin[b])
      BY <1>5, <2>3
    <3>2. fin[b] = [ago |-> fin[b].ago, since |-> fin[b].since]
      BY <1>1, <2>3, MemoryFacts
    <3>3. Recalls(roomy.entries, b, [ago |-> fin[b].ago, since |-> fin[b].since])
      BY <3>1, <3>2
    <3>4. Recalls(spent2.entries, b, [ago |-> fin[b].ago, since |-> fin[b].since \cup {base}])
      BY <1>7, <3>3
    <3>5. QED
      BY <2>3, <3>4
  <2>4. QED
    BY <2>1, <2>2, <2>3
<1>. HIDE DEF fin2
<1>10. c = [groups |-> left, spent |-> spent2, finished |-> fin2, givenUp |-> m.givenUp]
  BY <1>2, <1>3
<1>11. left \in Stores(Groups) /\ spent2 \in Stores({TRUE})
  BY <1>4, <1>6 DEF IsStore, Stores
<1>12. Len(left.entries) <= MaxGroups /\ Len(spent2.entries) <= MaxGroups
  <2>1. Len(left.entries) \in Nat /\ Len(m.groups.entries) \in Nat /\ Len(roomy.entries) \in Nat
        /\ MaxGroups \in Nat
    BY <1>1, <1>4, <1>5, StoreAssumption DEF IsStore
  <2>. DEFINE a == Len(left.entries)
              b == Len(m.groups.entries)
              r == Len(roomy.entries)
              d == Len(spent2.entries)
  <2>2. /\ a \in Nat /\ b \in Nat /\ r \in Nat /\ MaxGroups \in Nat
        /\ a <= b /\ b <= MaxGroups /\ d = r + 1 /\ r < MaxGroups
    BY <1>1, <1>4, <1>5, <1>6, <2>1
  <2>. HIDE DEF a, b, r, d
  <2>3. a <= MaxGroups /\ d <= MaxGroups
    BY <2>2
  <2>4. QED
    BY <2>3 DEF a, d
<1>13. \A e \in held(left), f \in held(spent2) : e.key # f.key
  BY <1>1, <1>4, <1>5, <1>6
<1>14. c \in Mergers
  BY <1>1, <1>8, <1>10, <1>11 DEF Mergers
<1>15. c.groups = left /\ c.spent = spent2 /\ c.finished = fin2 /\ c.givenUp = m.givenUp
  BY <1>10
<1>16. Keeps(c)
  BY <1>4, <1>6, <1>9, <1>12, <1>13, <1>14, <1>15 DEF Keeps
<1>17. Shrinks(m, c, {base})
  <2>1. \A f \in held(spent2) : f.key = base \/ f \in held(m.spent)
    BY <1>5, <1>6
  <2>2. QED
    BY <1>4, <1>15, <1>16, <2>1 DEF Shrinks
<1>18. QED
  BY <1>4, <1>15, <1>17 DEF c

\* One operation after the other.
LEMMA ShrinksTwice ==
    ASSUME NEW m, NEW c, NEW d, NEW A, NEW B, Shrinks(m, c, A), Shrinks(c, d, B)
    PROVE  Shrinks(m, d, A \cup B)
<1>1. \A e \in held(m.groups) : e \in held(d.groups) \/ e.key \in d.givenUp \cup (A \cup B)
  BY DEF Shrinks
<1>2. ASSUME NEW f \in held(d.spent)
      PROVE  \/ \E e \in held(m.groups) : e.key = f.key
             \/ \E e \in held(m.spent) : e.key = f.key
             \/ f.key \in A \cup B
  <2>1. CASE \E e \in held(c.groups) : e.key = f.key
    BY <2>1 DEF Shrinks
  <2>2. CASE \E e \in held(c.spent) : e.key = f.key
    <3>1. PICK e \in held(c.spent) : e.key = f.key
      BY <2>2
    <3>2. \/ \E x \in held(m.groups) : x.key = e.key
          \/ \E x \in held(m.spent) : x.key = e.key
          \/ e.key \in A
      BY DEF Shrinks
    <3>3. QED
      BY <3>1, <3>2
  <2>3. CASE f.key \in B
    BY <2>3
  <2>4. QED
    BY <2>1, <2>2, <2>3 DEF Shrinks
<1>3. Keeps(d) /\ held(d.groups) \subseteq held(m.groups) /\ m.givenUp \subseteq d.givenUp
  BY DEF Shrinks
<1>4. QED
  BY <1>1, <1>2, <1>3 DEF Shrinks

\* A merger on its way through the groups gone: their bases are spent.
Going(m, left, gone, x) ==
    /\ Keeps(x) /\ held(x.groups) = held(left) /\ Len(x.groups.entries) <= Len(left.entries)
    /\ x.givenUp = m.givenUp
    /\ \A f \in held(x.spent) :
        (\E e \in gone : e.key = f.key) \/ (\E e \in held(m.spent) : e.key = f.key)

\* It sets out with its groups taken.
LEMMA GoingOut ==
    ASSUME NEW m, Keeps(m), NEW gone \in SUBSET held(m.groups), NEW left, left = take(m.groups, gone).left
    PROVE  /\ Going(m, left, gone, [m EXCEPT !.groups = left])
           /\ Len(left.entries) <= Len(m.groups.entries)
<1>. DEFINE x == [m EXCEPT !.groups = left]
            taken == take(m.groups, gone).taken
<1>1. /\ m \in Mergers /\ IsStore(m.groups, Bases, Groups) /\ Len(m.groups.entries) <= MaxGroups
      /\ \A e \in held(m.groups), f \in held(m.spent) : e.key # f.key
  BY DEF Keeps
<1>2. /\ IsStore(left, Bases, Groups) /\ held(left) = held(m.groups) \ gone
      /\ taken \in Seq(EntriesOf(Bases, Groups)) /\ AddsUp(m.groups, gone)
  BY <1>1, TakeFacts
<1>3. Len(left.entries) <= Len(m.groups.entries) /\ Len(left.entries) <= MaxGroups
  <2>. DEFINE a == Len(left.entries)
              b == Len(taken)
              n == Len(m.groups.entries)
  <2>1. a \in Nat /\ b \in Nat /\ n \in Nat /\ a + b = n /\ n <= MaxGroups /\ MaxGroups \in Nat
    <3>1. a + b = n
      BY <1>2 DEF AddsUp
    <3>2. a \in Nat /\ n \in Nat
      BY <1>1, <1>2 DEF IsStore
    <3>3. b \in Nat
      BY <1>2
    <3>4. QED
      BY <1>1, <3>1, <3>2, <3>3, StoreAssumption
  <2>. HIDE DEF a, b, n
  <2>2. a <= n /\ a <= MaxGroups
    BY <2>1
  <2>3. QED
    BY <2>2 DEF a, n
<1>4. left \in Stores(Groups)
  BY <1>2 DEF IsStore, Stores
<1>5. /\ x \in Mergers
      /\ x.groups = left /\ x.spent = m.spent /\ x.finished = m.finished /\ x.givenUp = m.givenUp
  BY <1>1, <1>4 DEF Mergers
<1>. HIDE DEF x
<1>6. Keeps(x)
  BY <1>1, <1>2, <1>3, <1>5 DEF Keeps
<1>7. Going(m, left, gone, x)
  BY <1>3, <1>5, <1>6 DEF Going
<1>8. QED
  BY <1>3, <1>7 DEF x

\* It goes on from one to the next.
LEMMA GoingOn ==
    ASSUME NEW m, Keeps(m), NEW gone \in SUBSET held(m.groups), NEW left, left = take(m.groups, gone).left,
           NEW x, Going(m, left, gone, x), NEW e \in gone
    PROVE  Going(m, left, gone, close(x, e.key))
<1>. DEFINE y == close(x, e.key)
<1>1. IsStore(m.groups, Bases, Groups) /\ Keeps(x)
  BY DEF Keeps, Going
<1>2. IsStore(left, Bases, Groups) /\ held(left) = held(m.groups) \ gone
  BY <1>1, TakeFacts
<1>3. e.key \in Bases /\ \A d \in held(left) : d.key # e.key
  <2>1. /\ held(m.groups) \subseteq EntriesOf(Bases, Groups)
        /\ \A d, f \in held(m.groups) : d.key = f.key => d = f
    BY <1>1, HeldOnce
  <2>2. QED
    BY <1>2, <2>1 DEF EntriesOf
<1>4. /\ Shrinks(x, y, {e.key}) /\ held(y.groups) = {d \in held(x.groups) : d.key # e.key}
      /\ Len(y.groups.entries) <= Len(x.groups.entries) /\ y.givenUp = x.givenUp
  BY <1>1, <1>3, CloseFacts
<1>. HIDE DEF y
<1>5. Keeps(y) /\ held(y.groups) = held(left) /\ y.givenUp = m.givenUp
  BY <1>3, <1>4 DEF Going, Shrinks
<1>6. Len(y.groups.entries) <= Len(left.entries)
  <2>. DEFINE a == Len(y.groups.entries)
              b == Len(x.groups.entries)
              c == Len(left.entries)
  <2>1. a \in Nat /\ b \in Nat /\ c \in Nat
    <3>1. IsStore(y.groups, Bases, Groups) /\ IsStore(x.groups, Bases, Groups)
      BY <1>1, <1>5 DEF Keeps
    <3>2. \A st : IsStore(st, Bases, Groups) => Len(st.entries) \in Nat
      BY DEF IsStore
    <3>3. QED
      BY <1>2, <3>1, <3>2
  <2>2. a <= b /\ b <= c
    BY <1>4 DEF Going
  <2>. HIDE DEF a, b, c
  <2>3. a <= c
    BY <2>1, <2>2
  <2>4. QED
    BY <2>3 DEF a, c
<1>7. ASSUME NEW f \in held(y.spent)
      PROVE  (\E d \in gone : d.key = f.key) \/ (\E d \in held(m.spent) : d.key = f.key)
  <2>1. \/ \E d \in held(x.groups) : d.key = f.key
        \/ \E d \in held(x.spent) : d.key = f.key
        \/ f.key \in {e.key}
    BY <1>4 DEF Shrinks
  <2>2. CASE \E d \in held(x.groups) : d.key = f.key
    <3>1. PICK d \in held(x.groups) : d.key = f.key
      BY <2>2
    <3>2. d.key = e.key
      BY <1>4, <1>5, <3>1 DEF Keeps
    <3>3. QED
      BY <3>1, <3>2
  <2>3. CASE \E d \in held(x.spent) : d.key = f.key
    <3>1. PICK d \in held(x.spent) : d.key = f.key
      BY <2>3
    <3>2. (\E p \in gone : p.key = d.key) \/ (\E p \in held(m.spent) : p.key = d.key)
      BY DEF Going
    <3>3. QED
      BY <3>1, <3>2
  <2>4. QED
    BY <2>1, <2>2, <2>3
<1>8. QED
  BY <1>5, <1>6, <1>7 DEF Going, y

\* Groups taken out of the store are given up, and nothing else is.
LEMMA GiveUpFacts ==
    ASSUME NEW m, Keeps(m), NEW gone \in SUBSET held(m.groups),
           NEW taken, taken = take(m.groups, gone)
    PROVE  /\ Shrinks(m, GiveUp(m, taken), {})
           /\ Len(GiveUp(m, taken).groups.entries) <= Len(taken.left.entries)
           /\ held(GiveUp(m, taken).groups) = held(m.groups) \ gone
<1>. DEFINE left == taken.left
            es == taken.taken
            N == Len(es)
            V == {x \in Mergers : Going(m, left, gone, x)}
            start == [m EXCEPT !.groups = left]
            step == [p \in (1 .. N) \X V |-> close(p[2], es[p[1]].key)]
            Is(f) == f = [n \in 0 .. N |->
                            IF n = 0 THEN start ELSE close(f[n - 1], es[n].key)]
<1>1. IsStore(m.groups, Bases, Groups) /\ left = take(m.groups, gone).left
  BY DEF Keeps
<1>2. /\ IsStore(left, Bases, Groups) /\ held(left) = held(m.groups) \ gone
      /\ es \in Seq(EntriesOf(Bases, Groups)) /\ ToSet(es) = gone
  BY <1>1, TakeFacts
<1>. HIDE DEF left, es
<1>3. N \in Nat /\ DOMAIN es = 1 .. N
  BY <1>2
<1>4. \A n \in 1 .. N : es[n] \in gone
  BY <1>2, <1>3 DEF ToSet
<1>5. start \in V
  <2>1. Going(m, left, gone, start)
    BY <1>1, GoingOut
  <2>2. QED
    BY <2>1 DEF Going, Keeps
<1>6. \A n \in 1 .. N, x \in V : close(x, es[n].key) \in V
  <2>1. ASSUME NEW n \in 1 .. N, NEW x \in V PROVE close(x, es[n].key) \in V
    <3>1. Going(m, left, gone, x) /\ es[n] \in gone
      BY <1>4
    <3>2. Going(m, left, gone, close(x, es[n].key))
      BY <1>1, <3>1, GoingOn
    <3>3. QED
      BY <3>2 DEF Going, Keeps
  <2>2. QED
    BY <2>1
<1>. HIDE DEF N, V, start
<1>7. /\ step \in [(1 .. N) \X V -> V]
      /\ \A n \in 1 .. N, x \in V : step[<<n, x>>] = close(x, es[n].key)
  BY <1>6
<1>. HIDE DEF step
<1>8. PICK g : Steps(g, N, V, start, step)
  BY <1>3, <1>5, <1>7, Recurs
<1>9. Is(g)
  <2>1. /\ g \in [0 .. N -> V] /\ g[0] = start /\ \A n \in 1 .. N : g[n] = step[<<n, g[n - 1]>>]
    BY <1>8 DEF Steps
  <2>2. ASSUME NEW n \in 1 .. N PROVE g[n] = close(g[n - 1], es[n].key)
    <3>1. g[n - 1] \in V
      BY <1>3, <2>1
    <3>2. QED
      BY <1>7, <2>1, <3>1
  <2>3. \A n \in 0 .. N : n # 0 => n \in 1 .. N
    BY <1>3
  <2>4. QED
    BY <2>1, <2>2, <2>3
<1>. DEFINE f == CHOOSE f : Is(f)
<1>10. Is(f)
  BY <1>9
<1>11. GiveUp(m, taken) = [f[N] EXCEPT !.givenUp = @ \cup keysOf(es)]
  BY DEF GiveUp, N, start, left, es
<1>. HIDE DEF f
<1>12. f[0] = start /\ \A n \in 1 .. N : f[n] = close(f[n - 1], es[n].key)
  <2>1. 0 \in 0 .. N
    BY <1>3
  <2>2. \A n \in 1 .. N : n \in 0 .. N /\ n # 0
    BY <1>3
  <2>3. QED
    BY <1>10, <2>1, <2>2
<1>13. f[N] \in V
  <2>. DEFINE Good == {n \in Nat : n <= N => f[n] \in V}
  <2>1. 0 \in Good
    BY <1>5, <1>12
  <2>2. ASSUME NEW n \in Nat, n \in Good PROVE n + 1 \in Good
    <3>. SUFFICES ASSUME n + 1 <= N PROVE f[n + 1] \in V
      OBVIOUS
    <3>1. f[n] \in V /\ n + 1 \in 1 .. N /\ (n + 1) - 1 = n
      BY <1>3, <2>2
    <3>2. f[n + 1] = close(f[n], es[n + 1].key)
      BY <1>12, <3>1
    <3>3. QED
      BY <1>6, <3>1, <3>2
  <2>3. Nat \subseteq Good
    <3>. HIDE DEF Good
    <3>. QED
      BY <2>1, <2>2, Inducts
  <2>4. QED
    BY <1>3, <2>3
<1>. DEFINE x == f[N]
            c == GiveUp(m, taken)
<1>14. x \in Mergers /\ Going(m, left, gone, x)
  BY <1>13 DEF V
<1>15. keysOf(es) = {e.key : e \in gone} /\ keysOf(es) \subseteq Bases
  <2>1. keysOf(es) = {es[n].key : n \in 1 .. N} /\ gone = {es[n] : n \in 1 .. N}
    BY <1>2, <1>3 DEF keysOf, ToSet
  <2>2. \A e \in held(m.groups) : e.key \in Bases
    BY <1>1, HeldOnce DEF EntriesOf
  <2>3. QED
    BY <2>1, <2>2
<1>. HIDE DEF x
<1>16. c = [x EXCEPT !.givenUp = @ \cup keysOf(es)]
  BY <1>11 DEF x
<1>. HIDE DEF c
<1>17. /\ c \in Mergers /\ c.groups = x.groups /\ c.spent = x.spent /\ c.finished = x.finished
       /\ c.givenUp = x.givenUp \cup keysOf(es)
  BY <1>14, <1>15, <1>16 DEF Mergers
<1>18. Keeps(c)
  BY <1>14, <1>17 DEF Going, Keeps
<1>19. \A d \in held(c.spent) :
         (\E e \in held(m.groups) : e.key = d.key) \/ (\E e \in held(m.spent) : e.key = d.key)
  BY <1>14, <1>17 DEF Going
<1>20. Shrinks(m, c, {})
  BY <1>2, <1>14, <1>15, <1>17, <1>18, <1>19 DEF Shrinks, Going
<1>21. QED
  BY <1>2, <1>14, <1>17, <1>20 DEF Going, c, left

\* A sweep gives up the groups that have expired.
LEMMA SweepShrinks ==
    ASSUME NEW m, Keeps(m)
    PROVE  Shrinks(m, sweep(m), {})
<1>. DEFINE gone == {e \in held(m.groups) : e.left = 0}
<1>1. gone \in SUBSET held(m.groups)
  OBVIOUS
<1>2. sweep(m) = GiveUp(m, take(m.groups, gone))
  BY DEF sweep, takeExpired, held
<1>. HIDE DEF gone
<1>3. QED
  BY <1>1, <1>2, GiveUpFacts

\* Nothing of a merger's groups changes.
LEMMA ShrinksSelf == ASSUME NEW m, Keeps(m) PROVE Shrinks(m, m, {})
  BY DEF Shrinks

\* A full store makes room by giving up its oldest group.
LEMMA DropOldestShrinks ==
    ASSUME NEW m, Keeps(m)
    PROVE  Shrinks(m, dropOldest(m), {}) /\ Len(dropOldest(m).groups.entries) < MaxGroups
<1>1. IsStore(m.groups, Bases, Groups) /\ Len(m.groups.entries) <= MaxGroups
  BY DEF Keeps
<1>2. Len(m.groups.entries) \in Nat /\ MaxGroups \in Nat
  BY <1>1, StoreAssumption DEF IsStore
<1>3. CASE ~full(m.groups)
  <2>1. dropOldest(m) = m /\ Len(m.groups.entries) < MaxGroups
    BY <1>2, <1>3 DEF dropOldest, full
  <2>2. QED
    BY <2>1, ShrinksSelf
<1>4. CASE full(m.groups)
  <2>1. PICK gone \in SUBSET held(m.groups) :
          /\ takeOldest(m.groups) = take(m.groups, gone)
          /\ \A e \in gone : 1 \in 1 .. Len(m.groups.entries) /\ e = m.groups.entries[1]
          /\ full(m.groups) => Len(takeOldest(m.groups).left.entries) = Len(m.groups.entries) - 1
    BY <1>1, TakeOldestFacts
  <2>. DEFINE taken == take(m.groups, gone)
              c == GiveUp(m, taken)
  <2>2. dropOldest(m) = c
    BY <1>4, <2>1 DEF dropOldest
  <2>3. Shrinks(m, c, {}) /\ Len(c.groups.entries) <= Len(taken.left.entries)
    BY GiveUpFacts
  <2>4. Len(taken.left.entries) = Len(m.groups.entries) - 1
    BY <1>4, <2>1
  <2>5. Len(c.groups.entries) \in Nat
    BY <2>3 DEF Shrinks, Keeps, IsStore
  <2>6. Len(c.groups.entries) < MaxGroups
    <3>. DEFINE a == Len(c.groups.entries)
                b == Len(taken.left.entries)
                n == Len(m.groups.entries)
    <3>1. a \in Nat /\ n \in Nat /\ MaxGroups \in Nat /\ a <= b /\ b = n - 1 /\ n <= MaxGroups
      BY <1>1, <1>2, <2>3, <2>4, <2>5
    <3>. HIDE DEF a, b, n
    <3>2. a < MaxGroups
      BY <3>1
    <3>3. QED
      BY <3>2 DEF a
  <2>7. QED
    BY <2>2, <2>3, <2>6
<1>5. QED
  BY <1>3, <1>4

\* What is spent is forgotten when it has expired.
Refreshed(m) == [m EXCEPT !.spent = takeExpired(@).left]

LEMMA RefreshShrinks ==
    ASSUME NEW m, Keeps(m)
    PROVE  /\ Shrinks(m, Refreshed(m), {})
           /\ Refreshed(m).groups = m.groups /\ Refreshed(m).givenUp = m.givenUp
           /\ Refreshed(m).spent = takeExpired(m.spent).left /\ Refreshed(m).finished = m.finished
<1>. DEFINE st == m.spent
            gone == {e \in held(st) : e.left = 0}
            left == take(st, gone).left
            taken == take(st, gone).taken
            c == Refreshed(m)
<1>1. /\ m \in Mergers /\ IsStore(st, Bases, {TRUE}) /\ Len(st.entries) <= MaxGroups
      /\ \A e \in held(m.groups), f \in held(st) : e.key # f.key
      /\ \A b \in DOMAIN m.finished : Recalls(st.entries, b, m.finished[b])
      /\ m.finished \in Memories
  BY DEF Keeps, Mergers
<1>2. gone \in SUBSET held(st) /\ takeExpired(st) = take(st, gone)
  BY DEF takeExpired, held
<1>3. /\ IsStore(left, Bases, {TRUE}) /\ held(left) = held(st) \ gone
      /\ taken \in Seq(EntriesOf(Bases, {TRUE})) /\ AddsUp(st, gone)
  BY <1>1, <1>2, TakeFacts
<1>4. Len(left.entries) <= MaxGroups
  <2>. DEFINE a == Len(left.entries)
              b == Len(taken)
              n == Len(st.entries)
  <2>1. a \in Nat /\ b \in Nat /\ n \in Nat /\ a + b = n /\ n <= MaxGroups /\ MaxGroups \in Nat
    <3>1. a + b = n
      BY <1>3 DEF AddsUp
    <3>2. a \in Nat /\ n \in Nat
      BY <1>1, <1>3 DEF IsStore
    <3>3. b \in Nat
      BY <1>3
    <3>4. QED
      BY <1>1, <3>1, <3>2, <3>3, StoreAssumption
  <2>. HIDE DEF a, b, n
  <2>2. a <= MaxGroups
    BY <2>1
  <2>3. QED
    BY <2>2 DEF a
<1>5. ASSUME NEW b \in DOMAIN m.finished PROVE Recalls(left.entries, b, m.finished[b])
  <2>1. Recalls(st.entries, b, m.finished[b]) /\ m.finished[b].ago \in 0 .. Timeout - 1
    BY <1>1, MemoryFacts
  <2>2. ASSUME NEW e \in gone PROVE e.key # b
    <3>1. e \in held(st) /\ e.left = 0
      OBVIOUS
    <3>2. QED
      BY <1>1, <2>1, <3>1, RecalledIsNotExpired
  <2>3. QED
    BY <1>1, <1>2, <2>1, <2>2, RecallsTake
<1>6. left \in Stores({TRUE})
  BY <1>3 DEF IsStore, Stores
<1>7. /\ c \in Mergers
      /\ c.groups = m.groups /\ c.spent = left /\ c.finished = m.finished /\ c.givenUp = m.givenUp
  BY <1>1, <1>2, <1>6 DEF Mergers, Refreshed
<1>. HIDE DEF c, left, gone
<1>8. Keeps(c)
  BY <1>1, <1>3, <1>4, <1>5, <1>7 DEF Keeps
<1>9. Shrinks(m, c, {})
  BY <1>3, <1>7, <1>8 DEF Shrinks
<1>10. QED
  BY <1>2, <1>7, <1>9 DEF c, left

\* What a merger holds once a base was opened, or would have been: a group of
\* its own, or the base given up with the group it had.
Opened(m, c, base, expected) ==
    \/ Shrinks(m, c, {}) /\ base \in c.givenUp
    \/ \E d, e :
        /\ Shrinks(m, d, {}) /\ Keeps(c) /\ c.givenUp = d.givenUp
        /\ e.key = base /\ e.group = [expected |-> expected, parts |-> <<>>]
        /\ held(c.groups) = held(d.groups) \cup {e}

LEMMA OpenFacts ==
    ASSUME NEW m, Keeps(m), NEW s \in Numbered
    PROVE  Opened(m, open(m, baseOf(s), partsOf(s)), baseOf(s), partsOf(s))
<1>. DEFINE base == baseOf(s)
            fresh == Refreshed(m)
            roomy == dropOldest(fresh)
            group == [expected |-> partsOf(s), parts |-> <<>>]
            c == open(m, base, partsOf(s))
<1>1. base \in Bases /\ group \in Groups
  <2>1. <<>> \in [{} -> {"final"}]
    OBVIOUS
  <2>2. <<>> \in PartsHeld
    BY <2>1 DEF PartsHeld
  <2>3. QED
    BY <2>2, NumberedFacts DEF Groups
<1>2. /\ Shrinks(m, fresh, {}) /\ fresh.groups = m.groups /\ fresh.givenUp = m.givenUp
      /\ fresh = [m EXCEPT !.spent = takeExpired(@).left]
  BY RefreshShrinks DEF Refreshed
<1>3. Shrinks(fresh, roomy, {}) /\ Len(roomy.groups.entries) < MaxGroups
  BY <1>2, DropOldestShrinks DEF Shrinks
<1>4. Shrinks(m, roomy, {})
  <2>1. {} \cup {} = {}
    OBVIOUS
  <2>2. Shrinks(m, roomy, {} \cup {})
    BY <1>2, <1>3, ShrinksTwice
  <2>3. QED
    BY <2>1, <2>2
<1>5. c = IF has(fresh.groups, base) \/ has(fresh.spent, base)
          THEN [close(fresh, base) EXCEPT !.givenUp = @ \cup {base}]
          ELSE [roomy EXCEPT !.groups = set(@, base, group)]
  BY <1>2 DEF open
<1>. HIDE DEF c, fresh, group, base
<1>6. CASE has(fresh.groups, base) \/ has(fresh.spent, base)
  <2>. DEFINE d == close(fresh, base)
  <2>1. /\ Shrinks(fresh, d, {base}) /\ held(d.groups) = {e \in held(fresh.groups) : e.key # base}
        /\ d.givenUp = fresh.givenUp
    <3>1. Keeps(fresh)
      BY <1>2 DEF Shrinks
    <3>2. /\ Shrinks(fresh, close(fresh, base), {base})
          /\ held(close(fresh, base).groups) = {e \in held(fresh.groups) : e.key # base}
          /\ Len(close(fresh, base).groups.entries) <= Len(fresh.groups.entries)
          /\ close(fresh, base).givenUp = fresh.givenUp
      BY <1>1, <3>1, CloseFacts
    <3>3. QED
      BY <3>2
  <2>. HIDE DEF d
  <2>2. c = [d EXCEPT !.givenUp = @ \cup {base}]
    BY <1>5, <1>6 DEF d
  <2>3. d \in Mergers
    BY <2>1 DEF Shrinks, Keeps
  <2>4. /\ c \in Mergers /\ c.groups = d.groups /\ c.spent = d.spent /\ c.finished = d.finished
        /\ c.givenUp = d.givenUp \cup {base}
    BY <1>1, <2>2, <2>3 DEF Mergers
  <2>5. Keeps(c)
    BY <2>1, <2>4 DEF Shrinks, Keeps
  <2>6. \/ \E e \in held(fresh.groups) : e.key = base
        \/ \E e \in held(fresh.spent) : e.key = base
    <3>1. IsStore(fresh.groups, Bases, Groups) /\ IsStore(fresh.spent, Bases, {TRUE})
      BY <1>2 DEF Shrinks, Keeps
    <3>2. QED
      BY <1>6, <3>1, HeldOnce
  <2>7. Shrinks(fresh, c, {})
    BY <2>1, <2>4, <2>5, <2>6 DEF Shrinks
  <2>8. Shrinks(m, c, {})
    <3>1. {} \cup {} = {}
      OBVIOUS
    <3>2. Shrinks(m, c, {} \cup {})
      BY <1>2, <2>7, ShrinksTwice
    <3>3. QED
      BY <3>1, <3>2
  <2>9. QED
    BY <2>4, <2>8 DEF Opened, c, base
<1>7. CASE ~(has(fresh.groups, base) \/ has(fresh.spent, base))
  <2>. DEFINE new == [key |-> base, left |-> Timeout, weight |-> 0, group |-> group]
              more == set(roomy.groups, base, group)
  <2>1. /\ IsStore(fresh.groups, Bases, Groups) /\ IsStore(fresh.spent, Bases, {TRUE})
        /\ IsStore(roomy.groups, Bases, Groups) /\ IsStore(roomy.spent, Bases, {TRUE})
    BY <1>2, <1>3 DEF Shrinks, Keeps
  <2>2. (\A e \in held(fresh.groups) : e.key # base) /\ (\A e \in held(fresh.spent) : e.key # base)
    BY <1>7, <2>1, HeldOnce
  <2>3. (\A e \in held(roomy.groups) : e.key # base) /\ (\A e \in held(roomy.spent) : e.key # base)
    BY <1>3, <2>2 DEF Shrinks
  <2>4. ~has(roomy.groups, base)
    BY <2>1, <2>3, HeldOnce
  <2>5. /\ IsStore(more, Bases, Groups)
        /\ held(more) = held(roomy.groups) \cup {new}
        /\ Len(more.entries) = Len(roomy.groups.entries) + 1
    <3>1. /\ IsStore(set(roomy.groups, base, group), Bases, Groups)
          /\ held(set(roomy.groups, base, group)) =
               held(roomy.groups) \cup
                 {[key |-> base, left |-> Timeout, weight |-> 0, group |-> group]}
          /\ Len(set(roomy.groups, base, group).entries) = Len(roomy.groups.entries) + 1
          /\ set(roomy.groups, base, group).total = roomy.groups.total
      BY <1>1, <2>1, <2>4, SetFacts
    <3>2. QED
      BY <3>1
  <2>. HIDE DEF more
  <2>6. c = [roomy EXCEPT !.groups = more] /\ roomy \in Mergers
    BY <1>3, <1>5, <1>7 DEF more, Shrinks, Keeps
  <2>7. more \in Stores(Groups)
    BY <2>5 DEF IsStore, Stores
  <2>8. /\ c \in Mergers /\ c.groups = more /\ c.spent = roomy.spent /\ c.finished = roomy.finished
        /\ c.givenUp = roomy.givenUp
    BY <2>6, <2>7 DEF Mergers
  <2>9. Len(more.entries) <= MaxGroups
    <3>. DEFINE a == Len(more.entries)
                b == Len(roomy.groups.entries)
    <3>1. b \in Nat /\ MaxGroups \in Nat /\ a = b + 1 /\ b < MaxGroups
      BY <1>3, <2>1, <2>5, StoreAssumption DEF IsStore
    <3>. HIDE DEF a, b
    <3>2. a <= MaxGroups
      BY <3>1
    <3>3. QED
      BY <3>2 DEF a
  <2>10. Keeps(roomy)
    BY <1>3 DEF Shrinks
  <2>11. \A e \in held(more), f \in held(roomy.spent) : e.key # f.key
    BY <2>3, <2>5, <2>10 DEF Keeps
  <2>12. Keeps(c)
    BY <2>5, <2>8, <2>9, <2>10, <2>11 DEF Keeps
  <2>13. new.key = base /\ new.group = group
    OBVIOUS
  <2>. HIDE DEF new
  <2>14. QED
    BY <1>4, <2>5, <2>8, <2>12, <2>13 DEF Opened, c, base, group
<1>8. QED
  BY <1>6, <1>7

-----------------------------------------------------------------------------
(* What the program's steps do to the invariant.                           *)

\* A merger remembers no more bases than it has spent.
LEMMA RemembersFew ==
    ASSUME NEW m, Keeps(m)
    PROVE  Cardinality(DOMAIN m.finished) <= MaxGroups
<1>. DEFINE st == m.spent
            D == DOMAIN m.finished
            keys == keysOf(st.entries)
<1>1. /\ IsStore(st, Bases, {TRUE}) /\ Len(st.entries) <= MaxGroups
      /\ \A b \in D : Recalls(st.entries, b, m.finished[b])
  BY DEF Keeps
<1>2. D \subseteq keys
  <2>1. DOMAIN st.entries = 1 .. Len(st.entries)
    BY <1>1 DEF IsStore
  <2>2. QED
    BY <1>1, <2>1 DEF keysOf, Recalls
<1>3. IsFiniteSet(keys) /\ Cardinality(keys) = Len(st.entries)
  BY <1>1, KeysCounted
<1>. HIDE DEF D, keys
<1>4. IsFiniteSet(D) /\ Cardinality(D) <= Cardinality(keys)
  BY <1>2, <1>3, FS_Subset
<1>5. Cardinality(D) \in Nat /\ Len(st.entries) \in Nat /\ MaxGroups \in Nat
  BY <1>1, <1>4, FS_CardinalityType, StoreAssumption DEF IsStore
<1>6. Cardinality(D) <= MaxGroups
  <2>. DEFINE a == Cardinality(D)
              n == Len(st.entries)
  <2>1. a \in Nat /\ n \in Nat /\ MaxGroups \in Nat /\ a <= n /\ n <= MaxGroups
    BY <1>1, <1>3, <1>4, <1>5
  <2>. HIDE DEF a, n
  <2>2. a <= MaxGroups
    BY <2>1
  <2>3. QED
    BY <2>2 DEF a
<1>7. QED
  BY <1>6 DEF D

\* What the variables become is a merger.
LEMMA Becoming ==
    ASSUME NEW c, Keeps(c), Become(c)
    PROVE  /\ merger' = c /\ Keeps(merger') /\ givenUp' \subseteq Bases
           /\ Cardinality(DOMAIN finished') <= MaxGroups
           /\ groups' = c.groups /\ givenUp' = c.givenUp
<1>1. c \in Mergers
  BY DEF Keeps
<1>2. c = [groups |-> c.groups, spent |-> c.spent, finished |-> c.finished, givenUp |-> c.givenUp]
      /\ c.givenUp \subseteq Bases
  BY <1>1 DEF Mergers
<1>3. groups' = c.groups /\ spent' = c.spent /\ finished' = c.finished /\ givenUp' = c.givenUp
  BY DEF Become
<1>4. merger' = c
  BY <1>2, <1>3 DEF merger
<1>5. Cardinality(DOMAIN c.finished) <= MaxGroups
  BY RemembersFew
<1>6. QED
  BY <1>2, <1>3, <1>4, <1>5

\* The merger in any state of the session.
LEMMA Merging ==
    ASSUME IInv
    PROVE  /\ Keeps(merger) /\ merger.groups = groups /\ merger.spent = spent
           /\ merger.finished = finished /\ merger.givenUp = givenUp
  BY DEF IInv, Stored, merger

\* What waits for a send's receipts still does, unless its base was given up.
LEMMA StillAwaited ==
    ASSUME IInv, ~over, NEW c, NEW but, Shrinks(merger, c, but), NEW s \in Numbered,
           sending[s] = "accepted", baseOf(s) \notin past(c.givenUp, reports), baseOf(s) \notin but
    PROVE  Awaited(s, c.groups, reported[s])
<1>1. merger.groups = groups /\ merger.givenUp = givenUp /\ givenUp \subseteq c.givenUp
  BY Merging DEF Shrinks
<1>2. baseOf(s) \notin past(givenUp, reports)
  BY <1>1 DEF past
<1>3. PICK e \in held(groups) :
        /\ e.key = baseOf(s) /\ e.group.expected = partsOf(s)
        /\ \A i \in reported[s] : SmsIds[s][i].part \in DOMAIN e.group.parts
  BY <1>2 DEF IInv, AllAwaited, Awaited
<1>4. e \in held(c.groups)
  BY <1>1, <1>3 DEF Shrinks, past
<1>5. QED
  BY <1>3, <1>4 DEF Awaited

\* Groups that expire or make room take nothing from the rest.
LEMMA ShrinkingKeeps ==
    ASSUME IInv, NEW c, Shrinks(merger, c, {}), Become(c),
           UNCHANGED <<sending, over, reports, reported>>
    PROVE  IInv'
<1>1. /\ Keeps(merger') /\ givenUp' \subseteq Bases /\ Cardinality(DOMAIN finished') <= MaxGroups
      /\ groups' = c.groups /\ givenUp' = c.givenUp
  BY Becoming DEF Shrinks
<1>2. Typed'
  BY <1>1 DEF IInv, Typed
<1>3. Stored'
  BY <1>1 DEF Stored
<1>4. AllCollect'
  BY <1>1, Merging DEF IInv, AllCollect, Shrinks
<1>5. AllWhole'
  BY DEF IInv, AllWhole
<1>6. AllAwaited'
  <2>1. ASSUME NEW s \in Numbered, sending[s] = "accepted", ~over,
               baseOf(s) \notin past(c.givenUp, reports)
        PROVE  Awaited(s, c.groups, reported[s])
    <3>1. baseOf(s) \notin {}
      OBVIOUS
    <3>2. QED
      BY <2>1, <3>1, StillAwaited
  <2>2. QED
    BY <1>1, <2>1 DEF IInv, AllAwaited
<1>7. QED
  BY <1>2, <1>3, <1>4, <1>5, <1>6 DEF IInv

\* More sends that were taken leave a group one that collects, and a report whole.
LEMMA SentGrows ==
    ASSUME NEW old, NEW new, \A s \in Sends : old[s] = "accepted" => new[s] = "accepted"
    PROVE  /\ \A e : Collects(e, old) => Collects(e, new)
           /\ \A r : Whole(r, old) => Whole(r, new)
<1>1. Numbered \subseteq Sends
  BY DEF Numbered
<1>2. QED
  BY <1>1 DEF Collects, Whole

\* A send is answered: it is failed, or taken and its report expected.
LEMMA ResolveKeeps == ASSUME IInv, NEW s \in Sends, Resolve(s) PROVE IInv'
<1>1. over' = over /\ sending[s] = "out" /\ UNCHANGED <<reports, reported>>
  BY DEF Resolve
<1>2. Keeps(merger) /\ merger.groups = groups /\ merger.givenUp = givenUp
  BY <1>1, Merging
<1>3. PICK c :
        /\ Become(c)
        /\ \/ sending' = [sending EXCEPT ![s] = "accepted"] /\ c = expect(merger, SmsIds[s])
           \/ sending' = [sending EXCEPT ![s] = "failed"] /\ c = merger
  BY DEF Resolve
<1>4. /\ sending' \in [Sends -> {"out", "accepted", "failed"}]
      /\ \A t \in Sends : t # s => sending'[t] = sending[t]
      /\ \A t \in Sends : sending[t] = "accepted" => sending'[t] = "accepted"
      /\ sending'[s] = "accepted" => c = expect(merger, SmsIds[s])
      /\ sending'[s] # "accepted" => c = merger
  BY <1>1, <1>3 DEF IInv, Typed
<1>5. /\ \A e : Collects(e, sending) => Collects(e, sending')
      /\ \A r : Whole(r, sending) => Whole(r, sending')
  BY <1>4, SentGrows
<1>6. reported[s] = {} /\ \A t \in Sends : sending'[t] # "accepted" => reported[t] = {}
  BY <1>1, <1>4 DEF IInv, AllAwaited
<1>7. CASE s \in Numbered /\ sending'[s] = "accepted"
  <2>1. c = open(merger, baseOf(s), partsOf(s))
    BY <1>4, <1>7 DEF expect, Numbered, baseOf, partsOf
  <2>2. Opened(merger, c, baseOf(s), partsOf(s))
    BY <1>2, <1>7, <2>1, OpenFacts
  <2>3. CASE Shrinks(merger, c, {}) /\ baseOf(s) \in c.givenUp
    <3>1. /\ Keeps(merger') /\ givenUp' \subseteq Bases /\ Cardinality(DOMAIN finished') <= MaxGroups
          /\ groups' = c.groups /\ givenUp' = c.givenUp
      BY <1>3, <2>3, Becoming DEF Shrinks
    <3>2. Typed' /\ Stored'
      BY <1>1, <1>4, <3>1 DEF IInv, Typed, Stored
    <3>3. AllCollect' /\ AllWhole'
      BY <1>1, <1>2, <1>5, <2>3, <3>1 DEF IInv, AllCollect, AllWhole, Shrinks
    <3>4. ASSUME NEW t \in Numbered, sending'[t] = "accepted", ~over,
                 baseOf(t) \notin past(c.givenUp, reports)
          PROVE  Awaited(t, c.groups, reported[t])
      <4>1. t # s /\ t \in Sends /\ baseOf(t) \notin {}
        BY <2>3, <3>4 DEF past, Numbered
      <4>2. sending[t] = "accepted"
        BY <1>4, <3>4, <4>1
      <4>3. QED
        BY <1>1, <2>3, <3>4, <4>1, <4>2, StillAwaited
    <3>5. AllAwaited'
      BY <1>1, <1>6, <3>1, <3>4 DEF AllAwaited
    <3>6. QED
      BY <3>2, <3>3, <3>5 DEF IInv
  <2>4. CASE \E d, e :
               /\ Shrinks(merger, d, {}) /\ Keeps(c) /\ c.givenUp = d.givenUp
               /\ e.key = baseOf(s) /\ e.group = [expected |-> partsOf(s), parts |-> <<>>]
               /\ held(c.groups) = held(d.groups) \cup {e}
    <3>1. PICK d, e :
            /\ Shrinks(merger, d, {}) /\ Keeps(c) /\ c.givenUp = d.givenUp
            /\ e.key = baseOf(s) /\ e.group = [expected |-> partsOf(s), parts |-> <<>>]
            /\ held(c.groups) = held(d.groups) \cup {e}
      BY <2>4
    <3>2. /\ Keeps(merger') /\ givenUp' \subseteq Bases /\ Cardinality(DOMAIN finished') <= MaxGroups
          /\ groups' = c.groups /\ givenUp' = c.givenUp
      BY <1>3, <3>1, Becoming
    <3>3. Typed' /\ Stored'
      BY <1>1, <1>4, <3>2 DEF IInv, Typed, Stored
    <3>4. Collects(e, sending')
      <4>1. e.group.expected = partsOf(s) /\ e.group.parts = <<>> /\ DOMAIN e.group.parts = {}
        BY <3>1
      <4>2. Cardinality(DOMAIN e.group.parts) = 0
        BY <4>1, FS_EmptySet
      <4>3. Cardinality(partsOf(s)) \in Nat /\ Cardinality(partsOf(s)) >= 2
        BY <1>7, NumberedFacts
      <4>4. Cardinality(DOMAIN e.group.parts) < Cardinality(partsOf(s))
        BY <4>2, <4>3
      <4>5. QED
        BY <1>7, <3>1, <4>1, <4>4 DEF Collects
    <3>5. AllCollect' /\ AllWhole'
      BY <1>1, <1>2, <1>5, <3>1, <3>2, <3>4 DEF IInv, AllCollect, AllWhole, Shrinks
    <3>6. ASSUME NEW t \in Numbered, sending'[t] = "accepted", ~over,
                 baseOf(t) \notin past(c.givenUp, reports)
          PROVE  Awaited(t, c.groups, reported[t])
      <4>1. CASE t = s
        BY <1>6, <3>1, <4>1 DEF Awaited
      <4>2. CASE t # s
        <5>1. sending[t] = "accepted" /\ baseOf(t) \notin {} /\ baseOf(t) \notin past(d.givenUp, reports)
          BY <1>4, <3>1, <3>6, <4>2 DEF Numbered
        <5>2. Awaited(t, d.groups, reported[t])
          BY <1>1, <3>1, <3>6, <5>1, StillAwaited
        <5>3. QED
          BY <3>1, <5>2 DEF Awaited
      <4>3. QED
        BY <4>1, <4>2
    <3>7. AllAwaited'
      BY <1>1, <1>6, <3>2, <3>6 DEF AllAwaited
    <3>8. QED
      BY <3>3, <3>5, <3>7 DEF IInv
  <2>5. QED
    BY <2>2, <2>3, <2>4 DEF Opened
<1>8. CASE ~(s \in Numbered /\ sending'[s] = "accepted")
  <2>1. c = merger
    BY <1>4, <1>8 DEF expect, Numbered
  <2>2. /\ Keeps(merger') /\ givenUp' \subseteq Bases /\ Cardinality(DOMAIN finished') <= MaxGroups
        /\ groups' = groups /\ givenUp' = givenUp
    BY <1>2, <1>3, <2>1, Becoming
  <2>3. Typed' /\ Stored'
    BY <1>1, <1>4, <2>2 DEF IInv, Typed, Stored
  <2>4. AllCollect' /\ AllWhole'
    BY <1>1, <1>5, <2>2 DEF IInv, AllCollect, AllWhole
  <2>5. ASSUME NEW t \in Numbered, sending'[t] = "accepted" PROVE sending[t] = "accepted"
    BY <1>4, <1>8, <2>5 DEF Numbered
  <2>6. AllAwaited'
    BY <1>1, <1>6, <2>2, <2>5 DEF IInv, AllAwaited
  <2>7. QED
    BY <2>3, <2>4, <2>6 DEF IInv
<1>9. QED
  BY <1>7, <1>8

\* A group with one more part of its message filled is still one.
LEMMA FilledFacts ==
    ASSUME NEW group \in Groups, NEW t \in Numbered, group.expected = partsOf(t),
           DOMAIN group.parts \subseteq partsOf(t), NEW part \in partsOf(t),
           NEW g, g = filled(group, part, "final")
    PROVE  /\ g \in Groups /\ g.expected = partsOf(t) /\ g.parts \in PartsHeld
           /\ DOMAIN g.parts = DOMAIN group.parts \cup {part}
           /\ \A p \in DOMAIN g.parts : g.parts[p] = "final"
           /\ ~(Cardinality(DOMAIN g.parts) < Cardinality(g.expected)) => DOMAIN g.parts = partsOf(t)
<1>. DEFINE P == DOMAIN group.parts \cup {part}
            parts == [p \in P |-> IF p = part THEN "final" ELSE group.parts[p]]
<1>1. group.parts \in PartsHeld /\ group = [expected |-> partsOf(t), parts |-> group.parts]
  BY DEF Groups
<1>2. \A p \in DOMAIN group.parts : group.parts[p] = "final"
  BY <1>1 DEF PartsHeld
<1>3. /\ partsOf(t) \subseteq PartNumbers /\ IsFiniteSet(partsOf(t))
      /\ Cardinality(partsOf(t)) \in Nat
  BY NumberedFacts
<1>4. P \in SUBSET PartNumbers /\ P \subseteq partsOf(t)
  BY <1>3
<1>5. parts \in [P -> {"final"}] /\ DOMAIN parts = P /\ \A p \in P : parts[p] = "final"
  BY <1>2
<1>6. g = [group EXCEPT !.parts = parts]
  BY DEF filled
<1>. HIDE DEF P, parts
<1>7. g = [expected |-> partsOf(t), parts |-> parts]
  BY <1>1, <1>6
<1>8. parts \in PartsHeld
  BY <1>4, <1>5 DEF PartsHeld
<1>9. g \in Groups
  BY <1>7, <1>8 DEF Groups
<1>10. IsFiniteSet(P) /\ Cardinality(P) <= Cardinality(partsOf(t))
       /\ (Cardinality(P) = Cardinality(partsOf(t)) => P = partsOf(t))
  BY <1>3, <1>4, FS_Subset
<1>11. Cardinality(P) \in Nat
  BY <1>10, FS_CardinalityType
<1>12. ~(Cardinality(P) < Cardinality(partsOf(t))) => P = partsOf(t)
  BY <1>3, <1>10, <1>11
<1>13. QED
  BY <1>5, <1>7, <1>8, <1>9, <1>12 DEF P

\* A group that changes leaves the merger as it was.
regrouped(e, group) == [e EXCEPT !.group = group]
amended(m, e, group) == [m EXCEPT !.groups = amend(m.groups, e.key, group)]

LEMMA AmendKeeps ==
    ASSUME NEW m, Keeps(m), NEW e \in held(m.groups), NEW group \in Groups
    PROVE  /\ Keeps(amended(m, e, group)) /\ amended(m, e, group).givenUp = m.givenUp
           /\ held(amended(m, e, group).groups) =
                (held(m.groups) \ {e}) \cup {regrouped(e, group)}
<1>. DEFINE c == amended(m, e, group)
            st == m.groups
            d == regrouped(e, group)
            store == amend(st, e.key, group)
<1>1. /\ m \in Mergers /\ IsStore(st, Bases, Groups) /\ e \in held(st)
      /\ Len(st.entries) <= MaxGroups /\ \A x \in held(st), f \in held(m.spent) : x.key # f.key
  BY DEF Keeps
<1>. HIDE DEF st
<1>2. /\ IsStore(amend(st, e.key, group), Bases, Groups)
      /\ held(amend(st, e.key, group)) = (held(st) \ {e}) \cup {[e EXCEPT !.group = group]}
      /\ Len(amend(st, e.key, group).entries) = Len(st.entries)
      /\ amend(st, e.key, group).total = st.total
  BY <1>1, AmendFacts
<1>3. c = [m EXCEPT !.groups = store]
  BY DEF st, amended
<1>4. e \in EntriesOf(Bases, Groups)
  BY <1>1, HeldOnce
<1>5. d = [e EXCEPT !.group = group] /\ d.key = e.key
  BY <1>4 DEF EntriesOf, regrouped
<1>. HIDE DEF store, d, c
<1>6. /\ IsStore(store, Bases, Groups) /\ held(store) = (held(st) \ {e}) \cup {d}
      /\ Len(store.entries) <= MaxGroups
  BY <1>1, <1>2, <1>5 DEF store
<1>7. store \in Stores(Groups)
  BY <1>6 DEF IsStore, Stores
<1>8. /\ c \in Mergers /\ c.groups = store /\ c.spent = m.spent /\ c.finished = m.finished
      /\ c.givenUp = m.givenUp
  BY <1>1, <1>3, <1>7 DEF Mergers
<1>9. \A x \in held(store), f \in held(m.spent) : x.key # f.key
  BY <1>1, <1>5, <1>6
<1>10. Keeps(c)
  BY <1>6, <1>8, <1>9 DEF Keeps
<1>11. QED
  BY <1>6, <1>8, <1>10 DEF st, d, c

\* An id names a place of a group that waits for it, of a send that was taken.
CountsFor(c, id, e, t) ==
    /\ e.key = id.base /\ get(c.groups, e.key) = e.group /\ e.group \in Groups
    /\ sending[t] = "accepted" /\ e.key = baseOf(t) /\ e.group.expected = partsOf(t)
    /\ DOMAIN e.group.parts \subseteq partsOf(t) /\ id.part \in partsOf(t)

\* A receipt that counts has such a place.
LEMMA CountsFacts ==
    ASSUME IInv, ~over, NEW c, Shrinks(merger, c, {}), NEW s \in Sends, NEW i \in DOMAIN SmsIds[s],
           NEW dlr, counts(c, SmsIds[s][i], dlr)
    PROVE  /\ dlr = "final"
           /\ \E e \in held(c.groups), t \in Numbered : CountsFor(c, SmsIds[s][i], e, t)
<1>. DEFINE id == SmsIds[s][i]
<1>1. IsStore(c.groups, Bases, Groups) /\ held(c.groups) \subseteq held(groups)
  BY Merging DEF Shrinks, Keeps
<1>2. dlr = "final" /\ has(c.groups, id.base) /\ id.part \in get(c.groups, id.base).expected
  BY DEF counts
<1>. HIDE DEF id
<1>3. PICK e \in held(c.groups) : e.key = id.base
  BY <1>1, <1>2, HeldOnce
<1>4. get(c.groups, e.key) = e.group
  BY <1>1, EntryIsHeld
<1>5. e.group \in Groups
  <2>1. e \in EntriesOf(Bases, Groups)
    BY <1>1, HeldOnce
  <2>2. QED
    BY <2>1 DEF EntriesOf
<1>6. Collects(e, sending)
  BY <1>1 DEF IInv, AllCollect
<1>7. PICK t \in Numbered :
        /\ sending[t] = "accepted" /\ e.key = baseOf(t) /\ e.group.expected = partsOf(t)
        /\ DOMAIN e.group.parts \subseteq partsOf(t)
  BY <1>6 DEF Collects
<1>8. id.part \in partsOf(t)
  BY <1>2, <1>3, <1>4, <1>7
<1>9. QED
  BY <1>2, <1>3, <1>4, <1>5, <1>7, <1>8 DEF id, CountsFor

\* A final receipt of a segment whose message waits for it counts.
LEMMA AwaitedCounts ==
    ASSUME NEW c, Keeps(c), NEW s \in Numbered, NEW i \in DOMAIN SmsIds[s], NEW rep,
           Awaited(s, c.groups, rep)
    PROVE  counts(c, SmsIds[s][i], "final")
<1>. DEFINE id == SmsIds[s][i]
<1>1. id.base = baseOf(s) /\ id # NoId /\ id.part \in partsOf(s)
  BY IdFacts
<1>. HIDE DEF id
<1>2. PICK e \in held(c.groups) : e.key = baseOf(s) /\ e.group.expected = partsOf(s)
  BY DEF Awaited
<1>3. has(c.groups, e.key) /\ get(c.groups, e.key) = e.group
  BY EntryIsHeld DEF Keeps
<1>4. QED
  BY <1>1, <1>2, <1>3 DEF counts, id

\* What the receipts of the sends are.
LEMMA ReportedFacts ==
    ASSUME IInv, NEW s \in Sends, NEW i \in DOMAIN SmsIds[s], NEW dlr, Receipt(s, i, dlr)
    PROVE  /\ reported' \in [Sends -> SUBSET Nat] /\ \A x \in Sends : reported'[x] \subseteq DOMAIN SmsIds[x]
           /\ \A x \in Sends : sending[x] # "accepted" => reported'[x] = {}
           /\ \A x \in Sends : reported'[x] \subseteq reported[x] \cup {i}
           /\ \A x \in Sends : x # s \/ dlr # "final" => reported'[x] \subseteq reported[x]
<1>. DEFINE more(x) == {n \in {i} : dlr = "final" /\ s = x}
            past2(x) == x \notin Numbered \/ sending[x] # "accepted" \/ settled(x)'
<1>1. reported' = [x \in Sends |-> IF past2(x) THEN {} ELSE reported[x] \cup more(x)]
  BY DEF Receipt
<1>. HIDE DEF past2
<1>2. \A x \in Sends : reported'[x] = {} \/ (~past2(x) /\ reported'[x] = reported[x] \cup more(x))
  BY <1>1
<1>3. \A x \in Sends : reported[x] \in SUBSET Nat /\ reported[x] \subseteq DOMAIN SmsIds[x]
  BY DEF IInv, Typed
<1>4. i \in Nat
  <2>1. SmsIds[s] \in Seq([base : Bases, part : Nat] \cup {NoId})
    BY SendsAssumption
  <2>2. DOMAIN SmsIds[s] = 1 .. Len(SmsIds[s])
    BY <2>1
  <2>3. QED
    BY <2>1, <2>2
<1>5. \A x \in Sends : more(x) \subseteq {i} /\ (x # s \/ dlr # "final" => more(x) = {})
  OBVIOUS
<1>. HIDE DEF more
<1>6. \A x \in Sends : reported'[x] \in SUBSET Nat /\ reported'[x] \subseteq DOMAIN SmsIds[x]
  BY <1>2, <1>3, <1>4, <1>5
<1>7. \A x \in Sends : sending[x] # "accepted" => reported'[x] = {}
  BY <1>2 DEF past2
<1>8. reported' \in [Sends -> SUBSET Nat]
  BY <1>1, <1>6
<1>9. QED
  BY <1>2, <1>5, <1>6, <1>7, <1>8

\* A receipt that counts for nothing, after the sweep.
LEMMA IgnoredKeeps ==
    ASSUME IInv, NEW s \in Sends, NEW i \in DOMAIN SmsIds[s], NEW dlr, Receipt(s, i, dlr),
           ~counts(sweep(merger), SmsIds[s][i], dlr)
    PROVE  IInv'
<1>. DEFINE c == sweep(merger)
<1>1. /\ ~over /\ over' = over /\ sending' = sending /\ reports' = reports /\ Become(c)
      /\ ~counts(c, SmsIds[s][i], dlr)
  BY DEF Receipt
<1>2. Shrinks(merger, c, {})
  BY <1>1, Merging, SweepShrinks
<1>. HIDE DEF c
<1>3. /\ Keeps(merger') /\ givenUp' \subseteq Bases /\ Cardinality(DOMAIN finished') <= MaxGroups
      /\ groups' = c.groups /\ givenUp' = c.givenUp
  BY <1>1, <1>2, Becoming DEF Shrinks
<1>4. /\ reported' \in [Sends -> SUBSET Nat] /\ \A x \in Sends : reported'[x] \subseteq DOMAIN SmsIds[x]
      /\ \A x \in Sends : sending[x] # "accepted" => reported'[x] = {}
      /\ \A x \in Sends : reported'[x] \subseteq reported[x] \cup {i}
      /\ \A x \in Sends : x # s \/ dlr # "final" => reported'[x] \subseteq reported[x]
  BY ReportedFacts
<1>5. Typed' /\ Stored'
  BY <1>1, <1>3, <1>4 DEF IInv, Typed, Stored
<1>6. AllCollect' /\ AllWhole'
  BY <1>1, <1>2, <1>3, Merging DEF IInv, AllCollect, AllWhole, Shrinks
<1>7. ASSUME NEW t \in Numbered, sending[t] = "accepted", baseOf(t) \notin past(c.givenUp, reports)
      PROVE  Awaited(t, c.groups, reported'[t])
  <2>1. baseOf(t) \notin {} /\ t \in Sends
    BY DEF Numbered
  <2>2. Awaited(t, c.groups, reported[t])
    BY <1>1, <1>2, <1>7, <2>1, StillAwaited
  <2>3. t # s \/ dlr # "final"
    <3>1. Keeps(c)
      BY <1>2 DEF Shrinks
    <3>2. SUFFICES ASSUME t = s, dlr = "final" PROVE FALSE
      OBVIOUS
    <3>3. counts(c, SmsIds[t][i], "final")
      BY <2>2, <3>1, <3>2, AwaitedCounts
    <3>4. QED
      BY <1>1, <3>2, <3>3
  <2>4. reported'[t] \subseteq reported[t]
    BY <1>4, <2>1, <2>3
  <2>5. QED
    BY <2>2, <2>4 DEF Awaited
<1>8. AllAwaited'
  BY <1>1, <1>3, <1>4, <1>7 DEF AllAwaited
<1>9. QED
  BY <1>5, <1>6, <1>8 DEF IInv

\* One that fills a place, and leaves one open.
LEMMA FillingKeeps ==
    ASSUME IInv, NEW s \in Sends, NEW i \in DOMAIN SmsIds[s], NEW dlr, Receipt(s, i, dlr),
           NEW c, Shrinks(merger, c, {}), dlr = "final",
           NEW e \in held(c.groups), NEW t \in Numbered, CountsFor(c, SmsIds[s][i], e, t),
           NEW g, g = filled(e.group, SmsIds[s][i].part, "final"),
           Cardinality(DOMAIN g.parts) < Cardinality(g.expected),
           Become(amended(c, e, g)), reports' = reports
    PROVE  IInv'
<1>. DEFINE d == amended(c, e, g)
            f == regrouped(e, g)
            part == SmsIds[s][i].part
<1>0. /\ e.key = SmsIds[s][i].base /\ e.group \in Groups
      /\ sending[t] = "accepted" /\ e.key = baseOf(t) /\ e.group.expected = partsOf(t)
      /\ DOMAIN e.group.parts \subseteq partsOf(t) /\ part \in partsOf(t)
  BY DEF CountsFor
<1>1. ~over /\ over' = over /\ sending' = sending
  BY DEF Receipt
<1>2. Keeps(c) /\ held(c.groups) \subseteq held(groups)
  BY <1>1, Merging DEF Shrinks
<1>3. e \in EntriesOf(Bases, Groups)
  BY <1>2, HeldOnce DEF Keeps
<1>4. /\ g \in Groups /\ g.expected = partsOf(t) /\ g.parts \in PartsHeld
      /\ DOMAIN g.parts = DOMAIN e.group.parts \cup {part}
      /\ \A p \in DOMAIN g.parts : g.parts[p] = "final"
  <2>. DEFINE group == e.group
  <2>1. /\ group \in Groups /\ group.expected = partsOf(t) /\ DOMAIN group.parts \subseteq partsOf(t)
        /\ part \in partsOf(t) /\ g = filled(group, part, "final")
    BY <1>0
  <2>. HIDE DEF part, group
  <2>2. /\ g \in Groups /\ g.expected = partsOf(t) /\ g.parts \in PartsHeld
        /\ DOMAIN g.parts = DOMAIN group.parts \cup {part}
        /\ \A p \in DOMAIN g.parts : g.parts[p] = "final"
        /\ ~(Cardinality(DOMAIN g.parts) < Cardinality(g.expected)) => DOMAIN g.parts = partsOf(t)
    BY <2>1, FilledFacts
  <2>3. QED
    BY <2>2 DEF group
<1>5. Become(d) /\ Keeps(d) /\ d.givenUp = c.givenUp /\ held(d.groups) = (held(c.groups) \ {e}) \cup {f}
  <2>1. /\ Keeps(amended(c, e, g)) /\ amended(c, e, g).givenUp = c.givenUp
        /\ held(amended(c, e, g).groups) = (held(c.groups) \ {e}) \cup {regrouped(e, g)}
    BY <1>2, <1>4, AmendKeeps
  <2>2. QED
    BY <2>1
<1>6. f.key = e.key /\ f.group = g
  BY <1>3 DEF EntriesOf, regrouped
<1>. HIDE DEF d, f, part
<1>7. /\ Keeps(merger') /\ givenUp' \subseteq Bases /\ Cardinality(DOMAIN finished') <= MaxGroups
      /\ groups' = d.groups /\ givenUp' = d.givenUp
  BY <1>5, Becoming
<1>8. /\ reported' \in [Sends -> SUBSET Nat] /\ \A x \in Sends : reported'[x] \subseteq DOMAIN SmsIds[x]
      /\ \A x \in Sends : sending[x] # "accepted" => reported'[x] = {}
      /\ \A x \in Sends : reported'[x] \subseteq reported[x] \cup {i}
      /\ \A x \in Sends : x # s \/ dlr # "final" => reported'[x] \subseteq reported[x]
  BY ReportedFacts
<1>9. Typed' /\ Stored'
  BY <1>1, <1>7, <1>8 DEF IInv, Typed, Stored
<1>10. Collects(f, sending)
  BY <1>0, <1>4, <1>6 DEF Collects
<1>11. AllCollect' /\ AllWhole'
  BY <1>1, <1>2, <1>5, <1>7, <1>10 DEF IInv, AllCollect, AllWhole
<1>12. ASSUME NEW x \in Numbered, sending[x] = "accepted", baseOf(x) \notin past(d.givenUp, reports)
       PROVE  Awaited(x, d.groups, reported'[x])
  <2>1. baseOf(x) \notin {} /\ x \in Sends /\ baseOf(x) \notin past(c.givenUp, reports)
    BY <1>5, <1>12 DEF Numbered
  <2>2. Awaited(x, c.groups, reported[x])
    BY <1>1, <1>12, <2>1, StillAwaited
  <2>3. PICK a \in held(c.groups) :
          /\ a.key = baseOf(x) /\ a.group.expected = partsOf(x)
          /\ \A n \in reported[x] : SmsIds[x][n].part \in DOMAIN a.group.parts
    BY <2>2 DEF Awaited
  <2>4. CASE a = e
    <3>1. \A n \in reported'[x] : SmsIds[x][n].part \in DOMAIN g.parts
      BY <1>4, <1>8, <2>1, <2>3, <2>4 DEF part
    <3>2. f.key = baseOf(x) /\ f.group.expected = partsOf(x)
      BY <1>0, <1>4, <1>6, <2>3, <2>4
    <3>3. QED
      BY <1>5, <1>6, <3>1, <3>2 DEF Awaited
  <2>5. CASE a # e
    <3>1. x # s
      <4>1. baseOf(s) = SmsIds[s][i].base \/ s \notin Numbered
        BY IdFacts
      <4>2. a.key # e.key
        BY <1>2, <2>5, HeldOnce DEF Keeps
      <4>3. QED
        BY <1>0, <2>3, <4>1, <4>2
    <3>2. reported'[x] \subseteq reported[x]
      BY <1>8, <2>1, <3>1
    <3>3. a \in held(d.groups)
      BY <1>5, <2>5
    <3>4. QED
      BY <2>3, <3>2, <3>3 DEF Awaited
  <2>6. QED
    BY <2>4, <2>5
<1>13. AllAwaited'
  BY <1>1, <1>7, <1>8, <1>12 DEF AllAwaited
<1>14. QED
  BY <1>9, <1>11, <1>13 DEF IInv

\* And one that fills the last, and reports the message.
LEMMA ReportingKeeps ==
    ASSUME IInv, NEW s \in Sends, NEW i \in DOMAIN SmsIds[s], NEW dlr, Receipt(s, i, dlr),
           NEW c, Shrinks(merger, c, {}), dlr = "final",
           NEW e \in held(c.groups), NEW t \in Numbered, CountsFor(c, SmsIds[s][i], e, t),
           NEW g, g = filled(e.group, SmsIds[s][i].part, "final"),
           ~(Cardinality(DOMAIN g.parts) < Cardinality(g.expected)),
           Become(close(c, e.key)), reports' = Append(reports, [base |-> e.key, segments |-> g.parts])
    PROVE  IInv'
<1>. DEFINE d == close(c, e.key)
            r == [base |-> e.key, segments |-> g.parts]
<1>0. /\ e.key = SmsIds[s][i].base /\ e.group \in Groups
      /\ sending[t] = "accepted" /\ e.key = baseOf(t) /\ e.group.expected = partsOf(t)
      /\ DOMAIN e.group.parts \subseteq partsOf(t) /\ SmsIds[s][i].part \in partsOf(t)
  BY DEF CountsFor
<1>1. ~over /\ over' = over /\ sending' = sending
  BY DEF Receipt
<1>2. Keeps(c) /\ held(c.groups) \subseteq held(groups) /\ e.key \in Bases
  <2>1. e.key \in Bases
    BY <1>0, NumberedFacts
  <2>2. QED
    BY <1>1, <2>1, Merging DEF Shrinks
<1>3. /\ g.parts \in PartsHeld /\ DOMAIN g.parts = partsOf(t)
      /\ \A p \in DOMAIN g.parts : g.parts[p] = "final"
  <2>. DEFINE part == SmsIds[s][i].part
              group == e.group
  <2>1. /\ group \in Groups /\ group.expected = partsOf(t) /\ DOMAIN group.parts \subseteq partsOf(t)
        /\ part \in partsOf(t) /\ g = filled(group, part, "final")
    BY <1>0
  <2>. HIDE DEF part, group
  <2>2. /\ g \in Groups /\ g.expected = partsOf(t) /\ g.parts \in PartsHeld
        /\ DOMAIN g.parts = DOMAIN group.parts \cup {part}
        /\ \A p \in DOMAIN g.parts : g.parts[p] = "final"
        /\ ~(Cardinality(DOMAIN g.parts) < Cardinality(g.expected)) => DOMAIN g.parts = partsOf(t)
    BY <2>1, FilledFacts
  <2>3. QED
    BY <2>2
<1>4. /\ Shrinks(c, d, {e.key}) /\ held(d.groups) = {x \in held(c.groups) : x.key # e.key}
      /\ d.givenUp = c.givenUp
  <2>1. /\ Shrinks(c, close(c, e.key), {e.key})
        /\ held(close(c, e.key).groups) = {x \in held(c.groups) : x.key # e.key}
        /\ Len(close(c, e.key).groups.entries) <= Len(c.groups.entries)
        /\ close(c, e.key).givenUp = c.givenUp
    BY <1>2, CloseFacts
  <2>2. QED
    BY <2>1
<1>. HIDE DEF d
<1>5. Become(d) /\ Keeps(d)
  BY <1>4 DEF Shrinks, d
<1>6. /\ Keeps(merger') /\ givenUp' \subseteq Bases /\ Cardinality(DOMAIN finished') <= MaxGroups
      /\ groups' = d.groups /\ givenUp' = d.givenUp
  BY <1>5, Becoming
<1>7. r \in [base : Bases, segments : PartsHeld]
  BY <1>2, <1>3
<1>8. r.base = e.key /\ r.segments = g.parts
  OBVIOUS
<1>. HIDE DEF r
<1>9. reports \in Seq([base : Bases, segments : PartsHeld]) /\ reports' = Append(reports, r)
  BY DEF IInv, Typed, r
<1>10. /\ reports' \in Seq([base : Bases, segments : PartsHeld])
       /\ DOMAIN reports = 1 .. Len(reports) /\ Len(reports) \in Nat
       /\ DOMAIN reports' = 1 .. Len(reports) + 1 /\ reports'[Len(reports) + 1] = r
       /\ \A n \in DOMAIN reports : reports'[n] = reports[n]
  BY <1>7, <1>9
<1>11. \A n \in DOMAIN reports' : n \in DOMAIN reports \/ reports'[n] = r
  BY <1>10
<1>12. \A n \in DOMAIN reports : n \in DOMAIN reports'
  BY <1>10
<1>13. /\ reported' \in [Sends -> SUBSET Nat] /\ \A x \in Sends : reported'[x] \subseteq DOMAIN SmsIds[x]
       /\ \A x \in Sends : sending[x] # "accepted" => reported'[x] = {}
       /\ \A x \in Sends : reported'[x] \subseteq reported[x] \cup {i}
       /\ \A x \in Sends : x # s \/ dlr # "final" => reported'[x] \subseteq reported[x]
  BY ReportedFacts
<1>14. Typed' /\ Stored'
  BY <1>1, <1>6, <1>10, <1>13 DEF IInv, Typed, Stored
<1>15. Whole(r, sending)
  <2>1. /\ t \in Sends /\ Cardinality(partsOf(t)) = Len(SmsIds[t])
        /\ ToSet(SmsIds[t]) = {[base |-> baseOf(t), part |-> p] : p \in partsOf(t)}
    BY NumberedFacts
  <2>2. QED
    BY <1>0, <1>3, <1>8, <2>1 DEF Whole
<1>16. AllCollect'
  BY <1>1, <1>2, <1>4, <1>6 DEF IInv, AllCollect
<1>17. AllWhole'
  BY <1>1, <1>10, <1>11, <1>15 DEF IInv, AllWhole
<1>18. ASSUME NEW x \in Numbered, sending[x] = "accepted", baseOf(x) \notin past(d.givenUp, reports')
       PROVE  Awaited(x, d.groups, reported'[x])
  <2>1. /\ x \in Sends /\ baseOf(x) # e.key /\ baseOf(x) \notin {}
        /\ baseOf(x) \notin past(c.givenUp, reports)
    <3>1. Len(reports) + 1 \in DOMAIN reports'
      BY <1>10
    <3>2. e.key \in past(d.givenUp, reports')
      BY <1>8, <1>10, <3>1 DEF past
    <3>3. past(c.givenUp, reports) \subseteq past(d.givenUp, reports')
      BY <1>4, <1>10, <1>12 DEF past
    <3>4. QED
      BY <1>18, <3>2, <3>3 DEF Numbered
  <2>2. Awaited(x, c.groups, reported[x])
    BY <1>1, <1>18, <2>1, StillAwaited
  <2>3. x # s
    BY <1>0, <2>1, IdFacts
  <2>4. reported'[x] \subseteq reported[x]
    BY <1>13, <2>1, <2>3
  <2>5. QED
    BY <1>4, <2>1, <2>2, <2>4 DEF Awaited
<1>19. AllAwaited'
  BY <1>1, <1>6, <1>13, <1>18 DEF AllAwaited
<1>20. QED
  BY <1>14, <1>16, <1>17, <1>19 DEF IInv

\* A receipt, whatever it counts for.
LEMMA ReceiptKeeps ==
    ASSUME IInv, NEW s \in Sends, NEW i \in DOMAIN SmsIds[s], NEW dlr, Receipt(s, i, dlr)
    PROVE  IInv'
<1>. DEFINE c == sweep(merger)
            id == SmsIds[s][i]
<1>1. ~over
  BY DEF Receipt
<1>2. Shrinks(merger, c, {})
  BY <1>1, Merging, SweepShrinks
<1>3. IF counts(c, id, dlr) THEN Fill(c, id, dlr) ELSE Become(c) /\ UNCHANGED reports
  BY DEF Receipt
<1>4. CASE ~counts(c, id, dlr)
  BY <1>4, IgnoredKeeps
<1>5. CASE counts(c, id, dlr)
  <2>. HIDE DEF c, id
  <2>1. Fill(c, id, dlr)
    BY <1>3, <1>5
  <2>2. /\ dlr = "final"
        /\ \E e \in held(c.groups), t \in Numbered : CountsFor(c, SmsIds[s][i], e, t)
    <3>1. counts(c, SmsIds[s][i], dlr)
      BY <1>5 DEF id
    <3>2. QED
      BY <1>1, <1>2, <3>1, CountsFacts
  <2>3. PICK e \in held(c.groups), t \in Numbered : CountsFor(c, SmsIds[s][i], e, t)
    BY <2>2
  <2>. DEFINE g == filled(e.group, SmsIds[s][i].part, "final")
  <2>4. g = filled(get(c.groups, id.base), id.part, dlr) /\ id.base = e.key
    BY <2>2, <2>3 DEF id, CountsFor
  <2>. HIDE DEF g
  <2>5. CASE Cardinality(DOMAIN g.parts) < Cardinality(g.expected)
    <3>1. Become(amended(c, e, g)) /\ reports' = reports
      BY <2>1, <2>4, <2>5 DEF Fill, amended
    <3>2. g = filled(e.group, SmsIds[s][i].part, "final")
      BY DEF g
    <3>3. QED
      BY <1>2, <2>2, <2>3, <2>5, <3>1, <3>2, FillingKeeps
  <2>6. CASE ~(Cardinality(DOMAIN g.parts) < Cardinality(g.expected))
    <3>1. Become(close(c, e.key)) /\ reports' = Append(reports, [base |-> e.key, segments |-> g.parts])
      BY <2>1, <2>4, <2>6 DEF Fill
    <3>2. g = filled(e.group, SmsIds[s][i].part, "final")
      BY DEF g
    <3>3. QED
      BY <1>2, <2>2, <2>3, <2>6, <3>1, <3>2, ReportingKeeps
  <2>7. QED
    BY <2>5, <2>6
<1>6. QED
  BY <1>4, <1>5

\* What the sweepers do.
LEMMA SweepKeeps == ASSUME IInv, Sweep \/ SweepSpent PROVE IInv'
<1>1. UNCHANGED <<sending, over, reports, reported>>
  BY DEF Sweep, SweepSpent
<1>2. Keeps(merger)
  BY Merging
<1>3. CASE Sweep
  <2>1. Shrinks(merger, sweep(merger), {}) /\ Become(sweep(merger))
    BY <1>2, <1>3, SweepShrinks DEF Sweep
  <2>2. QED
    BY <1>1, <2>1, ShrinkingKeeps
<1>4. CASE SweepSpent
  <2>. DEFINE c == Refreshed(merger)
  <2>1. /\ Shrinks(merger, c, {}) /\ c.groups = merger.groups /\ c.givenUp = merger.givenUp
        /\ c.spent = takeExpired(merger.spent).left /\ c.finished = merger.finished
    BY <1>2, RefreshShrinks
  <2>. HIDE DEF c
  <2>2. Become(c)
    BY <1>4, <2>1, Merging DEF SweepSpent, Become
  <2>3. QED
    BY <1>1, <2>1, <2>2, ShrinkingKeeps
<1>5. QED
  BY <1>3, <1>4

\* A merger that holds and remembers nothing.
LEMMA EmptyKeeps ==
    ASSUME NEW given \in SUBSET Bases
    PROVE  Keeps([groups |-> empty, spent |-> empty, finished |-> <<>>, givenUp |-> given])
<1>. DEFINE m == [groups |-> empty, spent |-> empty, finished |-> <<>>, givenUp |-> given]
<1>1. /\ IsStore(empty, Bases, Groups) /\ IsStore(empty, Bases, {TRUE})
      /\ held(empty) = {} /\ Len(empty.entries) = 0
  BY EmptyIsStore
<1>2. DOMAIN <<>> = {} /\ <<>> \in [{} -> Memory]
  OBVIOUS
<1>3. <<>> \in Memories
  <2>1. {} \in SUBSET Bases
    OBVIOUS
  <2>2. QED
    BY <1>2, <2>1 DEF Memories
<1>4. m \in Mergers
  BY <1>1, <1>3 DEF Mergers, IsStore, Stores
<1>5. QED
  BY <1>1, <1>2, <1>4, StoreAssumption DEF Keeps

\* The session that ends forgets its groups.
LEMMA EndKeeps == ASSUME IInv, End PROVE IInv'
<1>1. /\ over' = TRUE /\ groups' = empty /\ spent' = empty /\ finished' = <<>>
      /\ UNCHANGED <<sending, reports, reported, givenUp>>
  BY DEF End, takeAll
<1>2. givenUp \in SUBSET Bases
  BY DEF IInv, Typed
<1>3. Keeps(merger') /\ Cardinality(DOMAIN finished') <= MaxGroups
  <2>1. merger' = [groups |-> empty, spent |-> empty, finished |-> <<>>, givenUp |-> givenUp]
    BY <1>1 DEF merger
  <2>2. Keeps(merger')
    BY <1>2, <2>1, EmptyKeeps
  <2>3. QED
    BY <1>1, <2>1, <2>2, RemembersFew
<1>4. held(empty) = {}
  BY EmptyIsStore
<1>5. Typed' /\ Stored'
  BY <1>1, <1>3 DEF IInv, Typed, Stored
<1>6. AllCollect' /\ AllWhole' /\ AllAwaited'
  BY <1>1, <1>4 DEF IInv, AllCollect, AllWhole, AllAwaited
<1>7. QED
  BY <1>5, <1>6 DEF IInv

\* The clock that moves on leaves each group to collect, and forgets what is due.
LEMMA TickKeeps == ASSUME IInv, Tick PROVE IInv'
<1>. DEFINE due == {c \in DOMAIN finished : ~(finished[c].ago + 1 < Timeout)}
            fin == finished'
<1>1. /\ over' = over /\ UNCHANGED <<sending, reports, reported, givenUp>>
      /\ groups' = tick(groups) /\ spent' = tick(spent)
      /\ finished' = [b \in {c \in DOMAIN finished : finished[c].ago + 1 < Timeout} |->
                        [finished[b] EXCEPT !.ago = @ + 1]]
  BY DEF Tick
<1>2. /\ merger \in Mergers /\ finished \in Memories /\ givenUp \in SUBSET Bases
      /\ IsStore(groups, Bases, Groups) /\ IsStore(spent, Bases, {TRUE})
      /\ Len(groups.entries) <= MaxGroups /\ Len(spent.entries) <= MaxGroups
      /\ \A e \in held(groups), f \in held(spent) : e.key # f.key
      /\ \A b \in DOMAIN finished : Recalls(spent.entries, b, finished[b])
  <2>1. Keeps(merger) /\ merger.groups = groups /\ merger.spent = spent
        /\ merger.finished = finished /\ merger.givenUp = givenUp
    BY <1>1, Merging
  <2>2. merger \in Mergers
    BY <2>1 DEF Keeps
  <2>3. merger.finished \in Memories /\ merger.givenUp \in SUBSET Bases
    BY <2>2 DEF Mergers
  <2>4. QED
    BY <2>1, <2>2, <2>3 DEF Keeps
<1>3. /\ IsStore(groups', Bases, Groups) /\ held(groups') = {later(e) : e \in held(groups)}
      /\ Len(groups'.entries) = Len(groups.entries)
  <2>1. IsStore(groups, Bases, Groups) /\ groups' = tick(groups)
    BY <1>1, <1>2
  <2>2. QED
    BY <2>1, TickFacts
<1>4. /\ IsStore(spent', Bases, {TRUE}) /\ held(spent') = {later(e) : e \in held(spent)}
      /\ Len(spent'.entries) = Len(spent.entries)
  <2>1. IsStore(spent, Bases, {TRUE}) /\ spent' = tick(spent)
    BY <1>1, <1>2
  <2>2. QED
    BY <2>1, TickFacts
<1>5. \A e \in held(groups) \cup held(spent) : later(e).key = e.key /\ later(e).group = e.group
  <2>1. /\ held(groups) \subseteq EntriesOf(Bases, Groups)
        /\ held(spent) \subseteq EntriesOf(Bases, {TRUE})
    BY <1>2, HeldOnce
  <2>2. QED
    BY <2>1 DEF EntriesOf, later
<1>6. \A e \in held(groups'), f \in held(spent') : e.key # f.key
  BY <1>2, <1>3, <1>4, <1>5
<1>7. /\ DOMAIN fin \subseteq DOMAIN finished /\ DOMAIN finished \subseteq Bases
      /\ \A b \in DOMAIN fin :
           /\ finished[b].ago \in Nat /\ finished[b].ago + 1 < Timeout
           /\ fin[b] = [ago |-> finished[b].ago + 1, since |-> finished[b].since]
           /\ finished[b].since \in SUBSET Bases
  <2>1. /\ DOMAIN finished \subseteq Bases
        /\ \A b \in DOMAIN finished :
             /\ finished[b].ago \in 0 .. Timeout - 1 /\ finished[b].since \subseteq Bases
             /\ finished[b] = [ago |-> finished[b].ago, since |-> finished[b].since]
    BY <1>2, MemoryFacts
  <2>2. ASSUME NEW b \in DOMAIN fin
        PROVE  /\ b \in DOMAIN finished /\ finished[b].ago + 1 < Timeout
               /\ fin[b] = [finished[b] EXCEPT !.ago = @ + 1]
    BY <1>1
  <2>3. ASSUME NEW b \in DOMAIN fin
        PROVE  fin[b] = [ago |-> finished[b].ago + 1, since |-> finished[b].since]
    <3>. DEFINE h == finished[b]
    <3>1. h = [ago |-> h.ago, since |-> h.since] /\ fin[b] = [h EXCEPT !.ago = h.ago + 1]
      BY <2>1, <2>2
    <3>. HIDE DEF h, fin
    <3>2. fin[b] = [ago |-> h.ago + 1, since |-> h.since]
      BY <3>1
    <3>3. QED
      BY <3>2 DEF h
  <2>. HIDE DEF fin
  <2>4. QED
    BY <2>1, <2>2, <2>3
<1>8. fin \in Memories
  <2>1. \A b \in DOMAIN fin : fin[b] \in Memory
    BY <1>7, StoreAssumption DEF Memory
  <2>2. fin \in [DOMAIN fin -> Memory]
    <3>1. fin = [b \in DOMAIN fin |-> fin[b]]
      BY <1>1
    <3>. HIDE DEF fin
    <3>2. QED
      BY <2>1, <3>1
  <2>. HIDE DEF fin
  <2>3. DOMAIN fin \in SUBSET Bases
    BY <1>7
  <2>4. QED
    BY <2>2, <2>3 DEF Memories
<1>9. ASSUME NEW b \in DOMAIN fin PROVE Recalls(spent'.entries, b, fin[b])
  <2>. DEFINE h == finished[b]
              g == fin[b]
  <2>1. /\ Recalls(spent.entries, b, h) /\ h.ago \in Nat /\ h.ago + 1 < Timeout
        /\ g = [ago |-> h.ago + 1, since |-> h.since]
    BY <1>2, <1>7
  <2>. HIDE DEF h, g
  <2>2. g.ago = h.ago + 1 /\ g.since = h.since
    BY <2>1
  <2>3. Recalls(tick(spent).entries, b, g)
    BY <1>2, <2>1, <2>2, RecallsTick
  <2>4. QED
    BY <1>1, <2>3 DEF g
<1>. HIDE DEF fin
<1>10. groups' \in Stores(Groups) /\ spent' \in Stores({TRUE})
  BY <1>3, <1>4 DEF IsStore, Stores
<1>11. /\ merger' \in Mergers /\ merger'.groups = groups' /\ merger'.spent = spent'
       /\ merger'.finished = fin
  BY <1>1, <1>2, <1>8, <1>10 DEF merger, Mergers, fin
<1>12. Keeps(merger')
  BY <1>2, <1>3, <1>4, <1>6, <1>9, <1>11 DEF Keeps
<1>13. Cardinality(DOMAIN finished') <= MaxGroups
  <2>1. Cardinality(DOMAIN merger'.finished) <= MaxGroups
    BY <1>12, RemembersFew
  <2>2. QED
    BY <1>11, <2>1 DEF fin
<1>14. Typed' /\ Stored'
  BY <1>1, <1>12, <1>13 DEF IInv, Typed, Stored
<1>15. AllCollect' /\ AllWhole'
  BY <1>1, <1>3, <1>5 DEF IInv, AllCollect, AllWhole, Collects
<1>16. ASSUME NEW s \in Numbered, Awaited(s, groups, reported[s])
       PROVE  Awaited(s, groups', reported[s])
  BY <1>3, <1>5, <1>16 DEF Awaited
<1>17. AllAwaited'
  BY <1>1, <1>16 DEF IInv, AllAwaited
<1>18. QED
  BY <1>14, <1>15, <1>17 DEF IInv

\* Nothing is held at first.
LEMMA InitKeeps == ASSUME Init PROVE IInv
<1>1. held(empty) = {}
  BY EmptyIsStore
<1>2. Keeps(merger)
  <2>1. merger = [groups |-> empty, spent |-> empty, finished |-> <<>>, givenUp |-> {}] /\ {} \in SUBSET Bases
    BY DEF Init, merger
  <2>2. QED
    BY <2>1, EmptyKeeps
<1>3. Cardinality(DOMAIN finished) <= MaxGroups
  BY <1>2, RemembersFew DEF merger
<1>4. Typed
  <2>1. reports \in Seq([base : Bases, segments : PartsHeld])
    BY DEF Init
  <2>2. reported \in [Sends -> SUBSET Nat] /\ \A s \in Sends : reported[s] \subseteq DOMAIN SmsIds[s]
    BY DEF Init
  <2>3. sending \in [Sends -> {"out", "accepted", "failed"}] /\ over \in BOOLEAN /\ givenUp \subseteq Bases
    BY DEF Init
  <2>4. QED
    BY <1>3, <2>1, <2>2, <2>3 DEF Typed
<1>5. Stored
  BY <1>2 DEF Init, Stored
<1>6. AllCollect /\ AllWhole
  BY <1>1 DEF Init, AllCollect, AllWhole
<1>7. AllAwaited
  <2>1. \A s \in Sends : sending[s] = "out" /\ reported[s] = {}
    BY DEF Init
  <2>2. Numbered \subseteq Sends
    BY DEF Numbered
  <2>3. QED
    BY <2>1, <2>2 DEF AllAwaited
<1>8. QED
  BY <1>4, <1>5, <1>6, <1>7 DEF IInv

\* Every step keeps the invariant.
LEMMA NextKeeps == ASSUME IInv, [Next]_vars PROVE IInv'
<1>1. ASSUME NEW s \in Sends, Resolve(s) PROVE IInv'
  BY <1>1, ResolveKeeps
<1>2. ASSUME NEW s \in Sends, NEW i \in DOMAIN SmsIds[s], NEW dlr \in {"intermediate", "final"},
             Receipt(s, i, dlr)
      PROVE  IInv'
  BY <1>2, ReceiptKeeps
<1>3. CASE Sweep \/ SweepSpent
  BY <1>3, SweepKeeps
<1>4. CASE End
  BY <1>4, EndKeeps
<1>5. CASE Tick
  BY <1>5, TickKeeps
<1>6. CASE UNCHANGED vars
  BY <1>6 DEF vars, IInv, Typed, Stored, AllCollect, AllWhole, AllAwaited, merger
<1>7. QED
  BY <1>1, <1>2, <1>3, <1>4, <1>5, <1>6 DEF Next

-----------------------------------------------------------------------------
\* The invariant always holds.
LEMMA Invariant == Spec => []IInv
<1>1. Init => IInv
  BY InitKeeps
<1>2. IInv /\ [Next]_vars => IInv'
  BY NextKeeps
<1>3. QED
  BY <1>1, <1>2, PTL DEF Spec

\* The merger's stores are within the cap it is given, and no base is in both of
\* them (dlr-merger.ts open, close).
THEOREM StoresAreBounded == Spec => []TypeOK
<1>1. IInv => TypeOK
  <2>. SUFFICES ASSUME IInv PROVE TypeOK
    OBVIOUS
  <2>1. Typed
    BY DEF IInv
  <2>2. /\ IsStore(groups, Bases, Groups) /\ IsStore(spent, Bases, {TRUE})
        /\ Len(groups.entries) <= MaxGroups /\ Len(spent.entries) <= MaxGroups
        /\ \A e \in held(groups), f \in held(spent) : e.key # f.key
    BY Merging DEF Keeps
  <2>3. /\ keysOf(groups.entries) = {e.key : e \in held(groups)}
        /\ keysOf(spent.entries) = {e.key : e \in held(spent)}
    BY <2>2, HeldOnce
  <2>4. keysOf(groups.entries) \cap keysOf(spent.entries) = {}
    BY <2>2, <2>3
  <2>5. QED
    BY <2>1, <2>2, <2>4 DEF Typed, TypeOK
<1>2. QED
  BY <1>1, Invariant, PTL

\* A message is reported with a final receipt for every one of its segments, and
\* only when the SMSC took all of them (dlr-merger.ts collect).
THEOREM ReportsHaveEverySegment == Spec => []ReportsAreWhole
<1>1. IInv => ReportsAreWhole
  BY DEF IInv, AllWhole, Whole, ReportsAreWhole
<1>2. QED
  BY <1>1, Invariant, PTL

\* A message all of whose segments were reported after it was taken is reported,
\* or its base was given up (dlr-merger.ts collect).
THEOREM ReportedOnceComplete == Spec => []FiresOnceAllReported
<1>1. IInv => FiresOnceAllReported
  <2>. SUFFICES ASSUME IInv PROVE FiresOnceAllReported
    OBVIOUS
  <2>1. ASSUME NEW s \in Numbered, sending[s] = "accepted", ~over, reported[s] = DOMAIN SmsIds[s],
               ~settled(s)
        PROVE  FALSE
    <3>1. baseOf(s) \notin past(givenUp, reports)
      BY <2>1 DEF settled, past, baseOf
    <3>2. PICK e \in held(groups) :
            /\ e.key = baseOf(s) /\ e.group.expected = partsOf(s)
            /\ \A i \in reported[s] : SmsIds[s][i].part \in DOMAIN e.group.parts
      BY <2>1, <3>1 DEF IInv, AllAwaited, Awaited
    <3>3. partsOf(s) = {SmsIds[s][i].part : i \in DOMAIN SmsIds[s]}
      BY NumberedFacts
    <3>4. partsOf(s) \subseteq DOMAIN e.group.parts
      BY <2>1, <3>2, <3>3
    <3>5. PICK t \in Numbered :
            /\ e.group.expected = partsOf(t) /\ DOMAIN e.group.parts \subseteq partsOf(t)
            /\ Cardinality(DOMAIN e.group.parts) < Cardinality(partsOf(t))
      BY DEF IInv, AllCollect, Collects
    <3>6. DOMAIN e.group.parts = partsOf(t)
      BY <3>2, <3>4, <3>5
    <3>7. Cardinality(partsOf(t)) \in Nat
      BY NumberedFacts
    <3>8. QED
      BY <3>5, <3>6, <3>7
  <2>2. QED
    BY <2>1 DEF FiresOnceAllReported
<1>2. QED
  BY <1>1, Invariant, PTL

\* A base that is remembered is not reported again: no straggler and no id the
\* SMSC hands out anew makes a second report of it (dlr-merger.ts close, open).
THEOREM NoSecondReport == Spec => MergedOnce
<1>1. IInv /\ [Next]_vars => (reports' # reports => Last(reports').base \notin DOMAIN finished)
  <2>. SUFFICES ASSUME IInv, [Next]_vars, reports' # reports
                PROVE  Last(reports').base \notin DOMAIN finished
    OBVIOUS
  <2>1. PICK s \in Sends : \E i \in DOMAIN SmsIds[s], dlr \in {"intermediate", "final"} : Receipt(s, i, dlr)
    BY DEF Next, vars, Resolve, Sweep, SweepSpent, End, Tick
  <2>2. PICK i \in DOMAIN SmsIds[s], dlr \in {"intermediate", "final"} : Receipt(s, i, dlr)
    BY <2>1
  <2>. DEFINE c == sweep(merger)
              id == SmsIds[s][i]
  <2>3. ~over /\ counts(c, id, dlr) /\ Fill(c, id, dlr)
    BY <2>2 DEF Receipt
  <2>4. Shrinks(merger, c, {})
    BY <2>3, Merging, SweepShrinks
  <2>5. PICK g : reports' = Append(reports, [base |-> id.base, segments |-> g])
    <3>. HIDE DEF c, id
    <3>. DEFINE g == filled(get(c.groups, id.base), id.part, dlr)
    <3>1. reports' = reports \/ reports' = Append(reports, [base |-> id.base, segments |-> g.parts])
      BY <2>3 DEF Fill
    <3>2. QED
      BY <3>1
  <2>. HIDE DEF c, id
  <2>6. Last(reports').base = id.base
    <3>. DEFINE r == [base |-> id.base, segments |-> g]
                S == [base : Bases, segments : PartsHeld]
    <3>1. r.base = id.base /\ reports \in Seq(S) /\ reports' = Append(reports, r)
      BY <2>5 DEF IInv, Typed
    <3>. HIDE DEF r, S
    <3>2. Len(reports') = Len(reports) + 1 /\ reports'[Len(reports) + 1] = r
      BY <3>1
    <3>3. Last(reports') = r
      BY <3>2 DEF Last
    <3>4. QED
      BY <3>1, <3>3
  <2>7. PICK e \in held(groups) : e.key = id.base
    <3>1. IsStore(c.groups, Bases, Groups) /\ held(c.groups) \subseteq held(groups)
      BY <2>3, <2>4, Merging DEF Shrinks, Keeps
    <3>2. has(c.groups, id.base)
      BY <2>3 DEF counts
    <3>3. PICK e \in held(c.groups) : e.key = id.base
      BY <3>1, <3>2, HeldOnce
    <3>4. QED
      BY <3>1, <3>3
  <2>8. /\ IsStore(spent, Bases, {TRUE}) /\ \A f \in held(spent) : f.key # id.base
        /\ \A b \in DOMAIN finished : Recalls(spent.entries, b, finished[b])
    BY <2>3, <2>7, Merging DEF Keeps
  <2>9. held(spent) = {spent.entries[j] : j \in 1 .. Len(spent.entries)}
    BY <2>8, HeldOnce
  <2>10. QED
    BY <2>6, <2>8, <2>9 DEF Recalls
<1>2. QED
  BY <1>1, Invariant, PTL DEF Spec, MergedOnce
=============================================================================
