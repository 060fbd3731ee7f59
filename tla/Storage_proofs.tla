----------------------------- MODULE Storage_proofs -----------------------------
(***************************************************************************)
(* Proofs about what the gateway keeps data in.  The ring buffer is a      *)
(* bounded first-in first-out queue, for every size its static_assert      *)
(* accepts; the hash map is a dictionary, for every table size, hash       *)
(* function and set of keys; the flash memory brings back what it was      *)
(* given.  Then the same of Storage, the three side by side.               *)
(***************************************************************************)
EXTENDS Storage, SimpleRingBuffer_proofs

-------------------------------------------------------------------------------
(* The ring buffer.                                                          *)

Slots == Values \cup {NoValue}

\* Inductive: the ring is well formed, and what it holds was stored by a caller.
Inv == TypeOK /\ Contents(ring) \in Seq(Values)

(* offer and push leave a well formed ring and append the element, push      *)
(* after dropping the oldest one of a full ring.  (SimpleRingBuffer.h:34-60) *)
LEMMA OfferAndPush ==
  ASSUME NEW r \in Rings(Slots), Contents(r) \in Seq(Values), NEW v \in Values
  PROVE  /\ offer(r, v) \in Rings(Slots)
         /\ push(r, v) \in Rings(Slots)
         /\ Contents(offer(r, v)) =
              IF isFull(r) THEN Contents(r) ELSE Append(Contents(r), v)
         /\ Contents(push(r, v)) =
              Append(IF isFull(r) THEN Tail(Contents(r)) ELSE Contents(r), v)
         /\ Contents(offer(r, v)) \in Seq(Values)
         /\ Contents(push(r, v)) \in Seq(Values)
<1>1. v \in Slots
  BY DEF Slots
<1>2. CASE ~isFull(r)
  <2>1. offer(r, v) = fillSlot(r, v) /\ push(r, v) = fillSlot(r, v)
    BY <1>2 DEF offer, push
  <2>2. /\ fillSlot(r, v) \in Rings(Slots)
        /\ Contents(fillSlot(r, v)) = Append(Contents(r), v)
    BY <1>1, <1>2, FillSlotAppends
  <2> QED
    BY <1>2, <2>1, <2>2
<1>3. CASE isFull(r)
  <2> DEFINE s == incReadPos(r)
  <2>1. ~isEmpty(r)
    BY <1>3, SentinelIsNoPosition DEF isEmpty, isFull, Rings
  <2>2. /\ s \in Rings(Slots)
        /\ Count(s) = Count(r) - 1
        /\ Contents(s) = Tail(Contents(r))
        /\ Contents(r) # <<>>
    BY <2>1, IncReadPosRemovesOldest
  <2>3. ~isFull(s)
    BY <1>3, <2>2, CountFacts, BufferSizeAssumption
  <2>4. /\ fillSlot(s, v) \in Rings(Slots)
        /\ Contents(fillSlot(s, v)) = Append(Tail(Contents(r)), v)
    BY <1>1, <2>2, <2>3, FillSlotAppends
  <2>5. offer(r, v) = r /\ push(r, v) = fillSlot(s, v)
    BY <1>3 DEF offer, push
  <2> QED
    BY <1>3, <2>2, <2>4, <2>5
<1> QED
  BY <1>2, <1>3

(* pop leaves a well formed ring without its oldest element, and what pop    *)
(* and peek return is that element.  (SimpleRingBuffer.h:74-95)              *)
LEMMA PopAndPeek ==
  ASSUME NEW r \in Rings(Slots), Contents(r) \in Seq(Values)
  PROVE  /\ pop(r) \in Rings(Slots)
         /\ Contents(pop(r)) \in Seq(Values)
         /\ isEmpty(r) <=> Contents(r) = <<>>
         /\ isEmpty(r) => pop(r) = r
         /\ ~isEmpty(r) => /\ Contents(pop(r)) = Tail(Contents(r))
                           /\ front(r) = Contents(r)[1]
                           /\ front(r) \in Values
<1>1. isEmpty(r) <=> Contents(r) = <<>>
  BY ContentsIsSeq, CountFacts
<1>2. CASE isEmpty(r)
  BY <1>1, <1>2 DEF pop
<1>3. CASE ~isEmpty(r)
  <2>1. /\ incReadPos(r) \in Rings(Slots)
        /\ Contents(incReadPos(r)) = Tail(Contents(r))
        /\ Contents(r) # <<>>
        /\ front(r) = Contents(r)[1]
    BY <1>3, IncReadPosRemovesOldest
  <2> QED
    BY <1>1, <1>3, <2>1 DEF pop
<1> QED
  BY <1>2, <1>3

LEMMA InitEstablishesInv == Init => Inv
<1> SUFFICES ASSUME Init PROVE Inv
  OBVIOUS
<1>1. /\ ring \in Rings(Slots)
      /\ Contents(ring) = <<>>
  BY NewRingIsEmpty DEF Init, Slots
<1> QED
  BY <1>1 DEF Init, Inv, TypeOK, Slots

LEMMA NextPreservesInv == Inv /\ [Next]_vars => Inv'
<1> SUFFICES ASSUME Inv, [Next]_vars PROVE Inv'
  OBVIOUS
<1>0. ring \in Rings(Slots) /\ Contents(ring) \in Seq(Values)
  BY DEF Inv, TypeOK, Slots
<1>1. ASSUME NEW v \in Values, Offer(v) PROVE Inv'
  BY <1>0, <1>1, OfferAndPush DEF Offer, Inv, TypeOK, Slots
<1>2. ASSUME NEW v \in Values, Push(v) PROVE Inv'
  BY <1>0, <1>2, OfferAndPush DEF Push, Inv, TypeOK, Slots
<1>3. CASE Pop
  BY <1>0, <1>3, PopAndPeek DEF Pop, Inv, TypeOK, Slots
<1>4. CASE Peek
  BY <1>0, <1>4, PopAndPeek DEF Peek, Inv, TypeOK, Slots
<1>5. CASE UNCHANGED vars
  BY <1>5 DEF vars, Inv, TypeOK
<1> QED
  BY <1>1, <1>2, <1>3, <1>4, <1>5 DEF Next

(* Positions never leave the array.                                          *)
THEOREM TypeCorrect == Spec => []TypeOK
<1>1. Inv => TypeOK
  BY DEF Inv
<1> QED
  BY <1>1, InitEstablishesInv, NextPreservesInv, PTL DEF Spec

(* The positions alone tell empty, partly filled and full apart, and no      *)
(* element that nobody stored is ever between them.                          *)
THEOREM EncodingIsSound == Spec => []EncodingSound
<1>1. Inv => EncodingSound
  <2> SUFFICES ASSUME Inv PROVE EncodingSound
    OBVIOUS
  <2>1. ring \in Rings(Slots) /\ Contents(ring) \in Seq(Values)
    BY DEF Inv, TypeOK, Slots
  <2> QED
    BY <2>1, CountFacts, ContentsIsSeq DEF EncodingSound
<1> QED
  BY <1>1, InitEstablishesInv, NextPreservesInv, PTL DEF Spec

(* The ring buffer implements the bounded first-in first-out queue.          *)
THEOREM RingImplementsFifo == Spec => ImplementsFifo
<1>1. Init => Fifo!Init
  BY NewRingIsEmpty DEF Init, Fifo!Init
<1>2. Inv /\ [Next]_vars => [Fifo!Next]_Fifo!vars
  <2> SUFFICES ASSUME Inv, [Next]_vars PROVE [Fifo!Next]_Fifo!vars
    OBVIOUS
  <2>0. ring \in Rings(Slots) /\ Contents(ring) \in Seq(Values)
    BY DEF Inv, TypeOK, Slots
  <2>1. isFull(ring) <=> Len(Contents(ring)) = BUFFER_SIZE
    BY <2>0, CountFacts, ContentsIsSeq
  <2>2. Len(Contents(ring)) <= BUFFER_SIZE
    BY <2>0, CountFacts, ContentsIsSeq, BufferSizeAssumption
  <2>3. ASSUME NEW v \in Values, Offer(v) PROVE Fifo!Offer(v)
    <3>1. Contents(ring') = Contents(offer(ring, v)) /\ out' = ~isFull(ring)
      BY <2>3 DEF Offer
    <3>2. CASE isFull(ring)
      BY <2>0, <2>1, <3>1, <3>2, OfferAndPush DEF Fifo!Offer
    <3>3. CASE ~isFull(ring)
      <4>1. Len(Contents(ring)) < BUFFER_SIZE
        BY <2>0, <2>1, <2>2, <3>3, BufferSizeAssumption
      <4> QED
        BY <2>0, <3>1, <3>3, <4>1, OfferAndPush DEF Fifo!Offer
    <3> QED
      BY <3>2, <3>3
  <2>4. ASSUME NEW v \in Values, Push(v) PROVE Fifo!Push(v)
    BY <2>0, <2>1, <2>4, OfferAndPush DEF Push, Fifo!Push
  <2>5. ASSUME Pop PROVE Fifo!Pop
    BY <2>0, <2>5, PopAndPeek DEF Pop, Fifo!Pop
  <2>6. ASSUME Peek PROVE Fifo!Peek
    BY <2>0, <2>6, PopAndPeek DEF Peek, Fifo!Peek
  <2>7. CASE UNCHANGED vars
    BY <2>7 DEF vars, Fifo!vars
  <2> QED
    BY <2>3, <2>4, <2>5, <2>6, <2>7 DEF Next, Fifo!Next
<1> QED
  BY <1>1, <1>2, InitEstablishesInv, NextPreservesInv, PTL
     DEF Spec, ImplementsFifo, Fifo!Spec

-------------------------------------------------------------------------------
(* The hash map.                                                             *)

Nodes == [key : Keys, value : Data]

\* The inductive invariant: the soundness of a chain makes the node a loop stops
\* at the only one with the key.
MapInv == /\ table \in [HashKeys -> Seq(Nodes)]
          /\ ChainsSound

-------------------------------------------------------------------------------
(* A key belongs to a chain of the table (calculateHashKey).                 *)
LEMMA KeyHasChain ==
  ASSUME NEW k \in Keys PROVE calculateHashKey(k) \in HashKeys
<1>1. tableSize \in Nat \ {0} /\ hashFunc[k] \in Nat
  BY HashMapAssumption
<1> QED  BY <1>1, SMT DEF calculateHashKey, HashKeys

(* In a sound chain the loops stop at the one node that has the key.         *)
LEMMA TheNode ==
  ASSUME NEW h, NEW c \in Seq(Nodes), ChainSound(h, c),
         NEW k, NEW i \in DOMAIN c, c[i].key = k
  PROVE  nodesWith(c, k) = {i} /\ entryOf(c, k) = i
<1>1. nodesWith(c, k) = {i}
  BY DEF nodesWith, ChainSound
<1>2. i <= i
  BY SMT
<1>3. \A m : (m \in nodesWith(c, k) /\ \A j \in nodesWith(c, k) : m <= j) <=> m = i
  BY <1>1, <1>2
<1>4. entryOf(c, k) = CHOOSE m : m = i
  <2>1. entryOf(c, k) = CHOOSE m : m \in nodesWith(c, k) /\ \A j \in nodesWith(c, k) : m <= j
    BY DEF entryOf
  <2> QED  BY <2>1, <1>3
<1> QED  BY <1>1, <1>4

(* A key without a node is read as nullptr, one with a node as its value     *)
(* (get).                                                                    *)
LEMMA GetMissing ==
  ASSUME NEW t, NEW k, \A i \in DOMAIN t[calculateHashKey(k)] :
                         t[calculateHashKey(k)][i].key # k
  PROVE  get(t, k) = nullptr
BY DEF get, nodesWith

LEMMA GetFound ==
  ASSUME NEW t, NEW k, t[calculateHashKey(k)] \in Seq(Nodes),
         ChainSound(calculateHashKey(k), t[calculateHashKey(k)]),
         NEW i \in DOMAIN t[calculateHashKey(k)],
         t[calculateHashKey(k)][i].key = k
  PROVE  get(t, k) = t[calculateHashKey(k)][i].value
<1>1. nodesWith(t[calculateHashKey(k)], k) = {i} /\ entryOf(t[calculateHashKey(k)], k) = i
  BY TheNode
<1> QED  BY <1>1 DEF get

(* A map looks the same to get when the chain of the key did not change.     *)
LEMMA GetOtherChain ==
  ASSUME NEW t, NEW u, NEW k, t[calculateHashKey(k)] = u[calculateHashKey(k)]
  PROVE  get(t, k) = get(u, k)
BY DEF get

-------------------------------------------------------------------------------
\* The other keys of a chain have the same node before and after, or none.
OthersStay(old, c, k) ==
  \A j \in Keys \ {k} :
     \/ \E i \in DOMAIN old, m \in DOMAIN c : old[i].key = j /\ c[m] = old[i]
     \/ /\ \A i \in DOMAIN old : old[i].key # j
        /\ \A i \in DOMAIN c : c[i].key # j

(* What put does to the chain of its key: a new last node, or a new value in *)
(* the node that has the key; every other chain stays.                       *)
LEMMA PutChain ==
  ASSUME MapInv, NEW k \in Keys, NEW d \in Data
  PROVE  \E c \in Seq(Nodes) :
           /\ put(table, k, d) = [table EXCEPT ![calculateHashKey(k)] = c]
           /\ ChainSound(calculateHashKey(k), c)
           /\ \E i \in DOMAIN c : c[i] = Node(k, d)
           /\ OthersStay(table[calculateHashKey(k)], c, k)
<1> DEFINE h   == calculateHashKey(k)
           old == table[h]
           n   == Node(k, d)
<1>1. h \in HashKeys /\ old \in Seq(Nodes) /\ ChainSound(h, old) /\ n \in Nodes
  BY KeyHasChain DEF MapInv, ChainsSound, Node, Nodes
<1>2. n.key = k
  BY DEF Node
<1>3. CASE nodesWith(old, k) = {}
  <2> DEFINE c == Append(old, n)
  <2>1. put(table, k, d) = [table EXCEPT ![h] = c]
    BY <1>3 DEF put
  <2>2. \A i \in DOMAIN old : old[i].key # k
    BY <1>3 DEF nodesWith
  <2> HIDE DEF n, h, old
  <2>3. c \in Seq(Nodes) /\ DOMAIN c = 1 .. (Len(old) + 1) /\ DOMAIN old = 1 .. Len(old)
        /\ Len(old) \in Nat /\ c[Len(old) + 1] = n /\ \A i \in DOMAIN old : c[i] = old[i]
    BY <1>1, SMT
  <2> HIDE DEF c
  <2>4. DOMAIN c = DOMAIN old \cup {Len(old) + 1} /\ Len(old) + 1 \notin DOMAIN old
    BY <2>3, SMT
  <2>5. ChainSound(h, c)
    BY <1>1, <1>2, <2>2, <2>3, <2>4 DEF ChainSound, h
  <2>6. OthersStay(old, c, k)
    BY <1>2, <2>2, <2>3, <2>4 DEF OthersStay
  <2>7. \E i \in DOMAIN c : c[i] = n
    BY <2>3, <2>4
  <2> QED  BY <2>1, <2>3, <2>5, <2>6, <2>7 DEF n, h, old
<1>4. CASE nodesWith(old, k) # {}
  <2>1. PICK p \in DOMAIN old : old[p].key = k
    BY <1>4 DEF nodesWith
  <2>2. entryOf(old, k) = p
    BY <1>1, <2>1, TheNode
  <2> DEFINE c == [old EXCEPT ![p] = n]
  <2>3. put(table, k, d) = [table EXCEPT ![h] = c]
    BY <1>4, <2>2 DEF put
  <2> HIDE DEF n, h, old
  <2>4. c \in Seq(Nodes) /\ DOMAIN c = DOMAIN old /\ c[p] = n
        /\ \A i \in DOMAIN old \ {p} : c[i] = old[i]
    BY <1>1, <2>1, SMT
  <2> HIDE DEF c
  <2>5. \A i \in DOMAIN c : c[i].key = old[i].key
    BY <1>2, <2>1, <2>4
  <2>6. ChainSound(h, c)
    BY <1>1, <2>4, <2>5 DEF ChainSound
  <2>7. OthersStay(old, c, k)
    BY <2>1, <2>4, <2>5 DEF OthersStay
  <2>8. \E i \in DOMAIN c : c[i] = n
    BY <2>1, <2>4
  <2> QED  BY <2>3, <2>4, <2>6, <2>7, <2>8 DEF n, h, old
<1> QED  BY <1>3, <1>4

(* What remove does to the chain of its key: the node is gone, every other   *)
(* node is still there, and every other chain stays.                         *)
LEMMA RemoveChain ==
  ASSUME MapInv, NEW k \in Keys
  PROVE  \E c \in Seq(Nodes) :
           /\ remove(table, k) = [table EXCEPT ![calculateHashKey(k)] = c]
           /\ ChainSound(calculateHashKey(k), c)
           /\ \A i \in DOMAIN c : c[i].key # k
           /\ OthersStay(table[calculateHashKey(k)], c, k)
<1> DEFINE h   == calculateHashKey(k)
           old == table[h]
<1>1. h \in HashKeys /\ old \in Seq(Nodes) /\ ChainSound(h, old)
  BY KeyHasChain DEF MapInv, ChainsSound
<1>2. CASE nodesWith(old, k) = {}
  <2>1. remove(table, k) = table /\ table = [table EXCEPT ![h] = old]
    BY <1>1, <1>2 DEF remove, MapInv
  <2>2. \A i \in DOMAIN old : old[i].key # k
    BY <1>2 DEF nodesWith
  <2>3. OthersStay(old, old, k)
    BY DEF OthersStay
  <2> QED  BY <1>1, <2>1, <2>2, <2>3
<1>3. CASE nodesWith(old, k) # {}
  <2>1. PICK p \in DOMAIN old : old[p].key = k
    BY <1>3 DEF nodesWith
  <2>2. entryOf(old, k) = p
    BY <1>1, <2>1, TheNode
  <2> DEFINE c == unlinked(old, p)
  <2>3. remove(table, k) = [table EXCEPT ![h] = c]
    BY <1>3, <2>2 DEF remove
  <2> HIDE DEF h, old
  <2>4. DOMAIN old = 1 .. Len(old) /\ Len(old) \in Nat /\ p \in 1 .. Len(old)
    BY <1>1, <2>1, SMT
  <2>5. \A i \in 1 .. (Len(old) - 1) :
           /\ i < p => i \in DOMAIN old /\ i # p /\ c[i] = old[i]
           /\ ~(i < p) => i + 1 \in DOMAIN old /\ i + 1 # p /\ c[i] = old[i + 1]
    BY <2>4, SMT DEF unlinked
  <2>6. \A i \in 1 .. (Len(old) - 1) : c[i] \in Nodes
    BY <1>1, <2>5, SMT
  <2>7. Len(old) - 1 \in Nat
    BY <2>4, SMT
  <2>8. c \in Seq(Nodes) /\ DOMAIN c = 1 .. (Len(old) - 1)
    BY <2>6, <2>7, SMT DEF unlinked
  <2>9. \A i \in DOMAIN old \ {p} : \E m \in DOMAIN c : c[m] = old[i]
    <3>1. TAKE i \in DOMAIN old \ {p}
    <3>2. CASE i < p
      BY <2>4, <2>5, <2>8, <3>2, SMT
    <3>3. CASE i > p
      <4>1. i - 1 \in DOMAIN c /\ ~(i - 1 < p) /\ (i - 1) + 1 = i
        BY <2>4, <2>8, <3>3, SMT
      <4>2. c[i - 1] = old[i]
        BY <2>5, <2>8, <4>1
      <4> QED  BY <4>1, <4>2
    <3> QED  BY <2>4, <3>2, <3>3, SMT
  <2>10. \A i, m \in DOMAIN c : c[i].key = c[m].key => i = m
    <3>1. SUFFICES ASSUME NEW i \in DOMAIN c, NEW m \in DOMAIN c, c[i].key = c[m].key
                   PROVE  i = m
      OBVIOUS
    <3> DEFINE at(x) == IF x < p THEN x ELSE x + 1
    <3>2. at(i) \in DOMAIN old /\ at(m) \in DOMAIN old
          /\ c[i] = old[at(i)] /\ c[m] = old[at(m)]
      BY <2>5, <2>8
    <3>3. at(i) = at(m)
      BY <1>1, <3>1, <3>2 DEF ChainSound
    <3>4. i \in Int /\ m \in Int /\ p \in Int
      BY <2>4, <2>8, <3>1, SMT
    <3> QED  BY <3>3, <3>4, SMT
  <2> HIDE DEF c
  <2>11. \A i \in DOMAIN c : \E m \in DOMAIN old \ {p} : c[i] = old[m]
    BY <2>5, <2>8
  <2>12. ChainSound(h, c)
    BY <1>1, <2>10, <2>11 DEF ChainSound
  <2>13. \A i \in DOMAIN c : c[i].key # k
    BY <1>1, <2>1, <2>11 DEF ChainSound
  <2>14. OthersStay(old, c, k)
    BY <2>1, <2>9, <2>11 DEF OthersStay
  <2> QED  BY <2>3, <2>8, <2>12, <2>13, <2>14 DEF h, old
<1> QED  BY <1>2, <1>3

-------------------------------------------------------------------------------
(* A call that gives one chain new, sound contents keeps all chains sound.   *)
LEMMA ReplacedChain ==
  ASSUME MapInv, NEW h \in HashKeys, NEW c \in Seq(Nodes), ChainSound(h, c),
         table' = [table EXCEPT ![h] = c]
  PROVE  MapInv'
<1>1. table' \in [HashKeys -> Seq(Nodes)]
  BY DEF MapInv
<1>2. \A g \in HashKeys : table'[g] = IF g = h THEN c ELSE table[g]
  BY DEF MapInv
<1>3. ChainsSound'
  BY <1>2 DEF MapInv, ChainsSound, ChainSound
<1> QED  BY <1>1, <1>3 DEF MapInv

(* Every call keeps the chains sound.                                        *)
LEMMA PutKeepsSound ==
  ASSUME MapInv, NEW k \in Keys, NEW d \in Data, Put(k, d) PROVE MapInv'
BY PutChain, KeyHasChain, ReplacedChain DEF Put

LEMMA RemoveKeepsSound ==
  ASSUME MapInv, NEW k \in Keys, Remove(k) PROVE MapInv'
BY RemoveChain, KeyHasChain, ReplacedChain DEF Remove

(* The invariant holds in every behaviour of the map.                        *)
LEMMA MapInvariant == MapSpec => []MapInv
<1>1. MapInit => MapInv
  <2> SUFFICES ASSUME MapInit PROVE MapInv
    OBVIOUS
  <2>1. <<>> \in Seq(Nodes) /\ DOMAIN <<>> = {}
    BY SMT
  <2> QED  BY <2>1 DEF MapInit, MapInv, emptyTable, ChainsSound, ChainSound
<1>2. MapInv /\ [MapNext]_table => MapInv'
  <2> SUFFICES ASSUME MapInv, [MapNext]_table PROVE MapInv'
    OBVIOUS
  <2>1. CASE MapNext
    BY <2>1, PutKeepsSound, RemoveKeepsSound DEF MapNext
  <2>2. CASE UNCHANGED table
    BY <2>2 DEF MapInv, ChainsSound
  <2> QED  BY <2>1, <2>2
<1> QED  BY <1>1, <1>2, PTL DEF MapSpec

(* Chains hold only their own keys, each once, for every table size and hash *)
(* function: what was removed cannot come back.  (HashMap.h:72-157)          *)
THEOREM ChainsAreSound == MapSpec => []ChainsSound
<1>1. MapInv => ChainsSound
  BY DEF MapInv
<1> QED  BY <1>1, MapInvariant, PTL

-------------------------------------------------------------------------------
(* A key whose node stays, or that still has none, reads as before.          *)
LEMMA OthersRead ==
  ASSUME MapInv, NEW k \in Keys, NEW c \in Seq(Nodes),
         ChainSound(calculateHashKey(k), c), OthersStay(table[calculateHashKey(k)], c, k),
         NEW t, t = [table EXCEPT ![calculateHashKey(k)] = c], NEW j \in Keys \ {k}
  PROVE  get(t, j) = get(table, j)
<1> DEFINE h == calculateHashKey(k)
<1>1. h \in HashKeys /\ calculateHashKey(j) \in HashKeys
  BY KeyHasChain
<1>2. t[h] = c /\ table[h] \in Seq(Nodes) /\ ChainSound(h, table[h])
  BY <1>1 DEF MapInv, ChainsSound
<1>3. CASE calculateHashKey(j) # h
  <2>1. t[calculateHashKey(j)] = table[calculateHashKey(j)]
    BY <1>1, <1>3 DEF MapInv
  <2> QED  BY <2>1, GetOtherChain
<1>4. CASE calculateHashKey(j) = h
  <2>1. CASE \E i \in DOMAIN table[h], m \in DOMAIN c : table[h][i].key = j /\ c[m] = table[h][i]
    <3>1. PICK i \in DOMAIN table[h], m \in DOMAIN c : table[h][i].key = j /\ c[m] = table[h][i]
      BY <2>1
    <3>2. get(table, j) = table[h][i].value
      BY <1>2, <1>4, <3>1, GetFound
    <3>3. get(t, j) = c[m].value
      <4>1. t[calculateHashKey(j)] = c /\ m \in DOMAIN c /\ c[m].key = j
            /\ c \in Seq(Nodes) /\ ChainSound(calculateHashKey(j), c)
        BY <1>2, <1>4, <3>1
      <4>2. nodesWith(c, j) = {m} /\ entryOf(c, j) = m
        BY <4>1, TheNode
      <4> QED  BY <4>1, <4>2 DEF get
    <3> QED  BY <3>1, <3>2, <3>3
  <2>2. CASE (\A i \in DOMAIN table[h] : table[h][i].key # j) /\ (\A i \in DOMAIN c : c[i].key # j)
    <3>1. get(table, j) = nullptr
      BY <1>4, <2>2, GetMissing
    <3>2. get(t, j) = nullptr
      BY <1>2, <1>4, <2>2, GetMissing
    <3> QED  BY <3>1, <3>2
  <2> QED  BY <2>1, <2>2 DEF OthersStay
<1> QED  BY <1>3, <1>4

(* After put, get returns the new value for its key and the old ones for all *)
(* others.                                                                   *)
LEMMA GetAfterPut ==
  ASSUME MapInv, NEW k \in Keys, NEW d \in Data, NEW j \in Keys
  PROVE  get(put(table, k, d), j) = IF j = k THEN d ELSE get(table, j)
<1> DEFINE h == calculateHashKey(k)
<1>1. PICK c \in Seq(Nodes) :
        /\ put(table, k, d) = [table EXCEPT ![h] = c]
        /\ ChainSound(h, c)
        /\ \E i \in DOMAIN c : c[i] = Node(k, d)
        /\ OthersStay(table[h], c, k)
  BY PutChain
<1>2. put(table, k, d)[h] = c
  BY <1>1, KeyHasChain DEF MapInv
<1>3. PICK i \in DOMAIN c : c[i] = Node(k, d)
  BY <1>1
<1> DEFINE t == put(table, k, d)
<1> HIDE DEF t
<1>4. t[h] \in Seq(Nodes) /\ ChainSound(h, t[h]) /\ i \in DOMAIN t[h] /\ t[h][i].key = k
  BY <1>1, <1>2, <1>3 DEF Node, t
<1>5. get(t, k) = t[h][i].value
  BY <1>4, GetFound
<1>6. get(t, k) = d
  BY <1>2, <1>3, <1>5 DEF Node, t
<1>7. ASSUME j # k PROVE get(t, j) = get(table, j)
  <2>1. t = [table EXCEPT ![calculateHashKey(k)] = c]
    BY <1>1 DEF t
  <2>2. ChainSound(calculateHashKey(k), c) /\ OthersStay(table[calculateHashKey(k)], c, k)
    BY <1>1
  <2>3. j \in Keys \ {k}
    BY <1>7
  <2> HIDE DEF h
  <2> QED  BY <2>1, <2>2, <2>3, OthersRead
<1> QED  BY <1>6, <1>7 DEF t

(* After remove, get finds nothing for its key and the old values for all    *)
(* others.                                                                   *)
LEMMA GetAfterRemove ==
  ASSUME MapInv, NEW k \in Keys, NEW j \in Keys
  PROVE  get(remove(table, k), j) = IF j = k THEN nullptr ELSE get(table, j)
<1> DEFINE h == calculateHashKey(k)
<1>1. PICK c \in Seq(Nodes) :
        /\ remove(table, k) = [table EXCEPT ![h] = c]
        /\ ChainSound(h, c)
        /\ \A i \in DOMAIN c : c[i].key # k
        /\ OthersStay(table[h], c, k)
  BY RemoveChain
<1>2. remove(table, k)[h] = c
  BY <1>1, KeyHasChain DEF MapInv
<1> DEFINE t == remove(table, k)
<1> HIDE DEF t
<1>3. get(t, k) = nullptr
  BY <1>1, <1>2, GetMissing DEF t
<1>4. ASSUME j # k PROVE get(t, j) = get(table, j)
  <2>1. t = [table EXCEPT ![calculateHashKey(k)] = c] /\ j \in Keys \ {k}
    BY <1>1, <1>4 DEF t
  <2> QED  BY <1>1, <2>1, OthersRead
<1> QED  BY <1>3, <1>4 DEF t

(* The hash map implements the dictionary, for every table size, every hash  *)
(* function and every set of keys and values.  (HashMap.h:72-157)            *)
THEOREM MapImplementsDictionary == MapSpec => ImplementsDictionary
<1> DEFINE map == [k \in Keys |-> get(table, k)]
<1>1. MapInit => Dict!Init
  <2> SUFFICES ASSUME MapInit, NEW k \in Keys PROVE get(table, k) = nullptr
    BY DEF Dict!Init
  <2>1. table[calculateHashKey(k)] = <<>>
    BY KeyHasChain DEF MapInit, emptyTable
  <2>2. DOMAIN <<>> = {}
    BY SMT
  <2> QED  BY <2>1, <2>2, GetMissing
<1>2. MapInv /\ [MapNext]_table => [Dict!Next]_map
  <2> SUFFICES ASSUME MapInv, [MapNext]_table PROVE [Dict!Next]_map
    OBVIOUS
  <2>1. ASSUME NEW k \in Keys, NEW d \in Data, Put(k, d) PROVE Dict!Put(k, d)
    BY <2>1, GetAfterPut DEF Put, Dict!Put
  <2>2. ASSUME NEW k \in Keys, Remove(k) PROVE Dict!Remove(k)
    BY <2>2, GetAfterRemove DEF Remove, Dict!Remove
  <2>3. CASE UNCHANGED table
    BY <2>3
  <2> QED  BY <2>1, <2>2, <2>3 DEF MapNext, Dict!Next
<1> QED  BY <1>1, <1>2, MapInvariant, PTL DEF MapSpec, ImplementsDictionary, Dict!Spec

-------------------------------------------------------------------------------
(* The flash memory.                                                         *)

ObjectValues == [ValueObjects -> Percents \cup {Uninitialized}]

\* What a restart would read now is what was written last.  That objects has
\* values of KNX or none makes the record writeFlash stores one of those that
\* differ from an empty flash.
FlashInv == objects \in ObjectValues /\ saved \in ObjectValues /\ readFlash = saved

LEMMA FlashInvariant == FlashSpec => []FlashInv
<1>1. FlashInit => FlashInv
  <2> SUFFICES ASSUME FlashInit PROVE FlashInv
    OBVIOUS
  <2>1. readFlash = Unset
    BY DEF FlashInit, readFlash, Record, HOV_FLASH_VERSION
  <2> QED
    BY <2>1 DEF FlashInit, FlashInv, ObjectValues, Unset
<1>2. FlashInv /\ [FlashNext]_flashVars => FlashInv'
  <2> SUFFICES ASSUME FlashInv, [FlashNext]_flashVars PROVE FlashInv'
    OBVIOUS
  <2>1. ASSUME NEW o \in ValueObjects, NEW p \in Percents, KnxSets(o, p) PROVE FlashInv'
    BY <2>1 DEF FlashInv, ObjectValues, KnxSets, readFlash
  <2>2. CASE writeFlash
    <3> DEFINE flags  == {o \in ValueObjects : objects[o] # Uninitialized}
               values == [o \in ValueObjects |-> IF o \in flags THEN objects[o] ELSE 0]
    <3>1. flash' = Record(1, flags, values) /\ saved' = objects /\ objects' = objects
      BY <2>2 DEF writeFlash, HOV_FLASH_VERSION
    <3>2. objects \in ObjectValues
      BY DEF FlashInv
    <3>3. flags \in SUBSET ValueObjects
          /\ values \in [ValueObjects -> Percents \cup {Uninitialized, 0}]
      BY <3>2 DEF ObjectValues
    <3>4. NoData # Record(1, flags, values)
      BY <3>3, NoDataAssumption
    <3>5. readFlash' = [o \in ValueObjects |-> IF o \in flags THEN values[o] ELSE Uninitialized]
      BY <3>1, <3>4 DEF readFlash, Record, HOV_FLASH_VERSION
    <3>6. readFlash' = objects
      BY <3>2, <3>5 DEF ObjectValues
    <3> QED
      BY <3>1, <3>2, <3>6 DEF FlashInv
  <2>3. CASE Restart
    BY <2>3 DEF FlashInv, Restart, readFlash
  <2>4. CASE UNCHANGED flashVars
    BY <2>4 DEF FlashInv, flashVars, readFlash
  <2> QED
    BY <2>1, <2>2, <2>3, <2>4 DEF FlashNext
<1> QED
  BY <1>1, <1>2, PTL DEF FlashSpec

(* A restart brings back what the group objects held when the flash was      *)
(* written last, values nobody had set included.                             *)
(* (HovalGatewayModule.cpp:234-276)                                          *)
THEOREM FlashKeepsValues == FlashSpec => SavedComesBack
<1>1. FlashInv => [Restart => objects' = saved]_flashVars
  BY DEF FlashInv, Restart
<1> QED
  BY <1>1, FlashInvariant, PTL DEF SavedComesBack

-------------------------------------------------------------------------------
(* A behaviour of the storage is a behaviour of each of its three parts.     *)
LEMMA StorageSimulates == StorageSpec => Spec /\ MapSpec /\ FlashSpec
<1>1. StorageInit => Init /\ MapInit /\ FlashInit
  BY DEF StorageInit
<1>2. [StorageNext]_<<vars, table, flashVars, used>> =>
        [Next]_vars /\ [MapNext]_table /\ [FlashNext]_flashVars
  BY DEF StorageNext
<1> QED
  BY <1>1, <1>2, PTL DEF StorageSpec, Spec, MapSpec, FlashSpec

(* So each part keeps what it promises: the ring buffer is the bounded       *)
(* queue, the hash map the dictionary, the flash brings back what was saved. *)
THEOREM StorageIsSound ==
  StorageSpec =>
    []EncodingSound /\ ImplementsFifo /\ ImplementsDictionary /\ SavedComesBack
BY StorageSimulates, EncodingIsSound, RingImplementsFifo, MapImplementsDictionary,
   FlashKeepsValues
===============================================================================
