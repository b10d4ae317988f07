----------------------------- MODULE Containers -----------------------------
(***************************************************************************)
(* The containers of top: Vector.c, a growing array, as a sequence with    *)
(* indices from 0, and Hashtable.c, its buckets as sequences of keys.  The *)
(* values behind the keys are those of the module that uses the table.     *)
(***************************************************************************)
EXTENDS Integers, SequencesExt

Vector_get(v, idx) == v[idx + 1]
Vector_insert(v, idx, data) == InsertAt(v, idx + 1, data)
Vector_take(v, idx) == RemoveAt(v, idx + 1)
Vector_set(v, idx, data) ==
  IF idx >= Len(v) THEN Append(v, data) ELSE ReplaceAt(v, idx + 1, data)
Vector_add(v, data) == Vector_set(v, Len(v), data)

Swapped(v, i, j) == [v EXCEPT ![i] = v[j], ![j] = v[i]]

Vector_moveUp(v, idx) == IF idx = 0 THEN v ELSE Swapped(v, idx, idx + 1)
Vector_moveDown(v, idx) == IF idx = Len(v) - 1 THEN v ELSE Swapped(v, idx + 1, idx + 2)

(* -1 when there is none.                                                  *)
Vector_indexOf(v, Same(_)) == SelectInSeq(v, Same) - 1

(* The pivot goes to the end; what compares as not after it is gathered in *)
(* front, and the pivot comes behind that.                                 *)
Partition(v, left, right, compare(_, _)) ==
  LET pivot == v[(left + right) \div 2]
      parted ==
        FoldLeft(LAMBDA acc, i : IF compare(acc.v[i], pivot) <= 0
                                 THEN [v |-> Swapped(acc.v, i, acc.at), at |-> acc.at + 1]
                                 ELSE acc,
                 [v |-> Swapped(v, (left + right) \div 2, right), at |-> left],
                 [k \in 1 .. right - left |-> left + k - 1])
  IN [parted EXCEPT !.v = Swapped(parted.v, parted.at, right)]

Vector_quickSort(v, compare(_, _)) ==
  LET RECURSIVE Sort(_, _, _)
      Sort(array, left, right) ==
        IF left >= right THEN array
        ELSE LET parted == Partition(array, left, right, compare)
             IN Sort(Sort(parted.v, left, parted.at - 1), parted.at + 1, right)
  IN Sort(v, 1, Len(v))

(* Each element goes behind the last one that compares as not after it.    *)
Vector_insertionSort(v, compare(_, _)) ==
  FoldLeft(LAMBDA sorted, t :
             LET before == {j \in DOMAIN sorted : compare(sorted[j], t) <= 0}
             IN InsertAt(sorted, IF before = {} THEN 1 ELSE Max(before) + 1, t),
           << >>, v)
-----------------------------------------------------------------------------
Hashtable_new(size) == [b \in 0 .. size - 1 |-> << >>]

Bucket(table, key) == table[key % Cardinality(DOMAIN table)]
WithBucket(table, key, bucket) == [table EXCEPT ![key % Cardinality(DOMAIN table)] = bucket]

Hashtable_get(table, key) == Contains(Bucket(table, key), key)

Hashtable_put(table, key) ==
  IF Hashtable_get(table, key) THEN table
  ELSE WithBucket(table, key, Append(Bucket(table, key), key))

Hashtable_remove(table, key) == WithBucket(table, key, Remove(Bucket(table, key), key))

(* The order in which Hashtable_foreach visits the keys.                   *)
Hashtable_foreach(table) ==
  FoldLeft(LAMBDA visited, b : visited \o table[b], << >>,
           [k \in 1 .. Cardinality(DOMAIN table) |-> k - 1])
=============================================================================
