-------------------------------- MODULE HashMap --------------------------------
(***************************************************************************)
(* The hash map of HashMap.h: a table of chains, each a linked list of     *)
(* nodes.  A chain is the sequence of its nodes, first bucket first; a     *)
(* method is an operator that returns the table after the call, or what    *)
(* the call returns.                                                       *)
(***************************************************************************)
EXTENDS Integers, Sequences

CONSTANTS Keys,
          tableSize,   \* number of chains
          hashFunc,    \* Keys -> Nat, the function given to the constructor
          nullptr      \* what get() returns for a key that is not in the map

HashKeys == 0 .. (tableSize - 1)

calculateHashKey(key) == hashFunc[key] % tableSize

Node(key, value) == [key |-> key, value |-> value]

emptyTable == [h \in HashKeys |-> <<>>]

\* Where the loops of get, put and remove stop: at the first node of the chain
\* that has the key, or behind the last node.
nodesWith(chain, key) == {i \in DOMAIN chain : chain[i].key = key}
entryOf(chain, key)   == CHOOSE i \in nodesWith(chain, key) :
                           \A j \in nodesWith(chain, key) : i <= j

get(table, key) ==
  LET chain == table[calculateHashKey(key)]
  IN  IF nodesWith(chain, key) = {} THEN nullptr
      ELSE chain[entryOf(chain, key)].value

put(table, key, value) ==
  LET h     == calculateHashKey(key)
      chain == table[h]
  IN  IF nodesWith(chain, key) = {}
      THEN [table EXCEPT ![h] = Append(chain, Node(key, value))]
      ELSE [table EXCEPT ![h] = [chain EXCEPT ![entryOf(chain, key)] = Node(key, value)]]

\* The chain without its node i: the node before it, or the table, gets its next.
unlinked(chain, i) ==
  [j \in 1 .. (Len(chain) - 1) |-> IF j < i THEN chain[j] ELSE chain[j + 1]]

\* Variant: the nodes behind the removed one are lost.
removeRest(table, key) ==
  LET h     == calculateHashKey(key)
      chain == table[h]
  IN  IF nodesWith(chain, key) = {} THEN table
      ELSE [table EXCEPT ![h] = SubSeq(chain, 1, entryOf(chain, key) - 1)]

remove(table, key) ==
  LET h     == calculateHashKey(key)
      chain == table[h]
  IN  IF nodesWith(chain, key) = {} THEN table
      ELSE [table EXCEPT ![h] = unlinked(chain, entryOf(chain, key))]

-------------------------------------------------------------------------------
(* A chain is sound when it holds only keys that belong to it, each once:    *)
(* then what remove takes out does not show again.                           *)
ChainSound(h, chain) ==
  /\ \A i \in DOMAIN chain : calculateHashKey(chain[i].key) = h
  /\ \A i, j \in DOMAIN chain : chain[i].key = chain[j].key => i = j
===============================================================================
