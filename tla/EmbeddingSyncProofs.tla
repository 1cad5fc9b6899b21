-------------------------- MODULE EmbeddingSyncProofs --------------------------
(* What TLAPS proves of EmbeddingSync where no worker writes the index, the     *)
(* instance Sync of MCEmbeddingSync, for any memories: after every call of the  *)
(* client the vector index is exactly the active memories, each with the vector *)
(* of its latest content.                                                       *)

EXTENDS MCEmbeddingSync, Integers, FiniteSetTheorems, SequenceTheorems, TLAPS

\* The client embeds at once, the embedder answers, and the index has its
\* dimension from the start.
Embedding == SyncFallback /\ ~EmbedderFails /\ Present # {}

Vectors == [of : Ids, ver : Int]
Within(s) == {s[n] : n \in DOMAIN s}

\* What the store, the client and the worker's thread hold.
SyncTypes ==
    /\ pool \in [Ids -> {"none", "active", "archived", "deleted", "purged"}]
    /\ ver \in [Ids -> Int]
    /\ cpc \in {"idle", "embed", "append", "remove", "emit"}
    /\ IF cpc = "idle" THEN carg = None ELSE carg \in Ids
    /\ ~running /\ wpc = "off" /\ dim

\* Row n is the vector of ids[n] and _id_to_idx says n; while the client adds
\* an id its row is still missing.
Rows ==
    /\ ids \in Seq(Ids) /\ rows \in Seq(Vectors)
    /\ DOMAIN pos = Within(ids)
    /\ \A n \in DOMAIN ids : pos[ids[n]] = n
    /\ Len(rows) = IF cpc = "append" THEN Len(ids) - 1 ELSE Len(ids)
    /\ \A n \in DOMAIN rows :
          /\ rows[n].of = ids[n]
          /\ rows[n].ver = ver[ids[n]] \/ (cpc = "embed" /\ carg = ids[n])

\* The index has the active memories, but for the one the client works on.
Held ==
    /\ cpc = "append" => cvec = Sync!Current(carg) /\ ids # <<>> /\ ids[Len(ids)] = carg
    /\ cpc = "remove" => carg \notin Active /\ Active = Within(ids) \ {carg}
    /\ cpc = "embed"  => carg \in Active /\ Active = Within(ids) \cup {carg}
    /\ cpc \in {"idle", "append", "emit"} => Active = Within(ids)

\* The inductive invariant.
SyncInv == SyncTypes /\ Rows /\ Held

------------------------------------------------------------------------------
\* list.remove: what stands behind the id moves up by one.
LEMMA RemovedOnce ==
    ASSUME NEW S, NEW s \in Seq(S), NEW k \in DOMAIN s,
           \A n \in DOMAIN s : s[n] = s[k] => n = k
    PROVE  /\ Sync!RemoveFirst(s, s[k]) \in Seq(S)
           /\ Len(Sync!RemoveFirst(s, s[k])) = Len(s) - 1
           /\ \A n \in 1 .. Len(s) - 1 :
                 Sync!RemoveFirst(s, s[k])[n] = IF n < k THEN s[n] ELSE s[n + 1]
<1> DEFINE I == {i \in 1 .. Len(s) : s[i] = s[k]}
<1>1. I = {k} /\ k \in 1 .. Len(s)
  OBVIOUS
<1>2. Sync!Min(I) = k
  BY <1>1 DEF Sync!Min
<1>3. Sync!SelectInSeq(s, LAMBDA v : v = s[k]) = k
  BY <1>1, <1>2 DEF Sync!SelectInSeq
<1> DEFINE A == SubSeq(s, 1, k - 1)
           B == SubSeq(s, k + 1, Len(s))
<1>4. Sync!RemoveFirst(s, s[k]) = A \o B
  BY <1>1, <1>3 DEF Sync!RemoveFirst, Sync!RemoveAt
<1>5. A \in Seq(S) /\ Len(A) = k - 1 /\ \A n \in 1 .. k - 1 : A[n] = s[n]
  BY <1>1
<1>6. B \in Seq(S) /\ Len(B) = Len(s) - k /\ \A n \in 1 .. Len(s) - k : B[n] = s[n + k]
  BY <1>1
<1> HIDE DEF A, B
<1>7. /\ A \o B \in Seq(S) /\ Len(A \o B) = Len(s) - 1
      /\ \A n \in 1 .. Len(s) - 1 : (A \o B)[n] = IF n < k THEN A[n] ELSE B[n - (k - 1)]
  <2>1. /\ A \o B \in Seq(S)
        /\ Len(A \o B) = Len(A) + Len(B)
        /\ \A i \in 1 .. Len(A) + Len(B) :
              (A \o B)[i] = IF i <= Len(A) THEN A[i] ELSE B[i - Len(A)]
    BY <1>5, <1>6, ConcatProperties
  <2>2. Len(A) = k - 1 /\ Len(A) + Len(B) = Len(s) - 1 /\ Len(s) \in Nat
    BY <1>1, <1>5, <1>6
  <2> SUFFICES ASSUME NEW n \in 1 .. Len(s) - 1
               PROVE  (A \o B)[n] = IF n < k THEN A[n] ELSE B[n - (k - 1)]
    BY <2>1, <2>2
  <2>3. (A \o B)[n] = IF n <= k - 1 THEN A[n] ELSE B[n - (k - 1)]
    BY <2>1, <2>2
  <2>4. n <= k - 1 <=> n < k
    BY <1>1
  <2> QED
    BY <2>3, <2>4
<1>8. \A n \in 1 .. Len(s) - 1 : (A \o B)[n] = IF n < k THEN s[n] ELSE s[n + 1]
  <2> SUFFICES ASSUME NEW n \in 1 .. Len(s) - 1
               PROVE  (A \o B)[n] = IF n < k THEN s[n] ELSE s[n + 1]
    OBVIOUS
  <2>1. CASE n < k
    BY <1>1, <1>5, <1>7, <2>1
  <2>2. CASE ~(n < k)
    <3>1. n - (k - 1) \in 1 .. Len(s) - k /\ (n - (k - 1)) + k = n + 1
      BY <1>1, <2>2
    <3> QED
      BY <1>6, <1>7, <2>2, <3>1
  <2> QED
    BY <2>1, <2>2
<1> QED
  BY <1>4, <1>7, <1>8

\* An id that the index has is at its position.
LEMMA AtPosition ==
    ASSUME Rows, NEW i \in Within(ids)
    PROVE  pos[i] \in DOMAIN ids /\ ids[pos[i]] = i
  BY DEF Rows, Within

\* A sequence without its k-th element has the others, each once.
LEMMA WithoutOne ==
    ASSUME NEW S, NEW s \in Seq(S), NEW k \in DOMAIN s,
           \A m, n \in DOMAIN s : s[m] = s[n] => m = n,
           NEW left \in Seq(S), Len(left) = Len(s) - 1,
           \A n \in 1 .. Len(s) - 1 : left[n] = IF n < k THEN s[n] ELSE s[n + 1]
    PROVE  /\ Within(left) = Within(s) \ {s[k]}
           /\ \A m, n \in DOMAIN left : left[m] = left[n] => m = n
<1> DEFINE N == Len(s)
           from(n) == IF n < k THEN n ELSE n + 1
<1>1. N \in Nat /\ DOMAIN s = 1 .. N /\ DOMAIN left = 1 .. N - 1 /\ k \in 1 .. N
  OBVIOUS
<1> HIDE DEF N
<1>2. \A n \in 1 .. N - 1 : from(n) \in 1 .. N /\ from(n) # k
  BY <1>1
<1>3. \A n \in 1 .. N - 1 : left[n] = s[from(n)]
  BY DEF N
<1>4. \A m, n \in 1 .. N - 1 : from(m) = from(n) => m = n
  BY <1>1
<1>5. \A m \in 1 .. N : m # k => \E n \in 1 .. N - 1 : from(n) = m
  <2> SUFFICES ASSUME NEW m \in 1 .. N, m # k
               PROVE  \E n \in 1 .. N - 1 : from(n) = m
    OBVIOUS
  <2>1. CASE m < k
    BY <1>1, <2>1
  <2>2. CASE m > k
    <3>1. m - 1 \in 1 .. N - 1 /\ from(m - 1) = m
      BY <1>1, <2>2
    <3> QED
      BY <3>1
  <2> QED
    BY <1>1, <2>1, <2>2
<1> HIDE DEF from
<1>6. \A n \in 1 .. N : s[n] = s[k] => n = k
  BY <1>1
<1>7. \A m, n \in DOMAIN left : left[m] = left[n] => m = n
  <2> SUFFICES ASSUME NEW m \in 1 .. N - 1, NEW n \in 1 .. N - 1, left[m] = left[n]
               PROVE  m = n
    BY <1>1
  <2>1. from(m) = from(n)
    BY <1>1, <1>2, <1>3
  <2> QED
    BY <1>4, <2>1
<1>8. ASSUME NEW n \in DOMAIN left
      PROVE  left[n] \in Within(s) \ {s[k]}
  <2>1. n \in 1 .. N - 1 /\ from(n) \in DOMAIN s /\ from(n) # k
    BY <1>1, <1>2
  <2> QED
    BY <1>1, <1>3, <1>6, <2>1 DEF Within
<1>9. ASSUME NEW m \in DOMAIN s, s[m] # s[k]
      PROVE  \E n \in DOMAIN left : left[n] = s[m]
  BY <1>1, <1>3, <1>5, <1>9
<1> QED
  BY <1>7, <1>8, <1>9 DEF Within

\* What is left of the ids: all but the one that goes, each once.
LEMMA LeftIds ==
    ASSUME SyncTypes, Rows, NEW i \in Ids,
           NEW left, left = IF i \in DOMAIN pos THEN Sync!RemoveFirst(ids, i) ELSE ids
    PROVE  /\ left \in Seq(Ids) /\ Within(left) = Within(ids) \ {i}
           /\ \A m, n \in DOMAIN left : left[m] = left[n] => m = n
<1>1. ids \in Seq(Ids) /\ \A m, n \in DOMAIN ids : ids[m] = ids[n] => m = n
  BY DEF Rows
<1>2. CASE i \notin DOMAIN pos
  BY <1>1, <1>2 DEF Rows, Within
<1>3. CASE i \in DOMAIN pos
  <2>1. pos[i] \in DOMAIN ids /\ ids[pos[i]] = i /\ left = Sync!RemoveFirst(ids, i)
    BY <1>3, AtPosition DEF Rows
  <2>2. PICK k \in DOMAIN ids : ids[k] = i
    BY <2>1
  <2>3. \A n \in DOMAIN ids : ids[n] = ids[k] => n = k
    BY <1>1
  <2>4. /\ left \in Seq(Ids) /\ Len(left) = Len(ids) - 1
        /\ \A n \in 1 .. Len(ids) - 1 : left[n] = IF n < k THEN ids[n] ELSE ids[n + 1]
    BY <1>1, <2>1, <2>2, <2>3, RemovedOnce
  <2> QED
    BY <1>1, <2>2, <2>4, WithoutOne
<1> QED
  BY <1>2, <1>3

\* NumPyVectorIndex.remove: the rows of those that are left, moved up.
LEMMA RowsLeft ==
    ASSUME SyncTypes, Rows, cpc = "remove", Sync!Removed(carg)
    PROVE  /\ ids' \in Seq(Ids) /\ Within(ids') = Within(ids) \ {carg}
           /\ DOMAIN pos' = Within(ids') /\ \A n \in DOMAIN ids' : pos'[ids'[n]] = n
           /\ rows' \in Seq(Vectors) /\ Len(rows') = Len(ids')
           /\ \A n \in DOMAIN ids' : rows'[n] = rows[pos[ids'[n]]]
<1> DEFINE left == IF carg \in DOMAIN pos THEN Sync!RemoveFirst(ids, carg) ELSE ids
           kept == DOMAIN pos \ {carg}
           good(n) == left[n] \in kept /\ pos[left[n]] \in DOMAIN rows
           bad == {n \in DOMAIN left : ~good(n)}
           moved == IF ~dim THEN {} ELSE {n \in DOMAIN left : \A m \in bad : n < m}
<1>1. /\ ids' = left
      /\ pos' = [j \in kept |-> IF \E n \in moved : left[n] = j
                                THEN Sync!Max({n \in moved : left[n] = j}) ELSE pos[j]]
      /\ rows' = IF left = <<>> THEN <<>>
                 ELSE IF moved = DOMAIN left THEN [n \in DOMAIN left |-> rows[pos[left[n]]]]
                 ELSE rows
  BY DEF Sync!Removed
<1>2. /\ left \in Seq(Ids) /\ Within(left) = Within(ids) \ {carg}
      /\ \A m, n \in DOMAIN left : left[m] = left[n] => m = n
  <2>1. carg \in Ids
    BY DEF SyncTypes
  <2> HIDE DEF left
  <2> QED
    BY <2>1, LeftIds DEF left
<1> HIDE DEF left
<1>3. \A n \in DOMAIN left : left[n] \in Within(ids) \ {carg}
  BY <1>2 DEF Within
<1>4. /\ kept = Within(ids) \ {carg} /\ DOMAIN rows = DOMAIN ids
      /\ rows \in Seq(Vectors)
  BY DEF Rows
<1>5. \A n \in DOMAIN left : good(n)
  BY <1>3, <1>4, AtPosition
<1>6. moved = DOMAIN left
  BY <1>5 DEF SyncTypes
<1> HIDE DEF moved
<1>7. ASSUME NEW n \in DOMAIN left
      PROVE  pos'[left[n]] = n
  <2>1. left[n] \in kept /\ {m \in moved : left[m] = left[n]} = {n}
    BY <1>2, <1>3, <1>4, <1>6
  <2>2. Sync!Max({n}) = n
    BY <1>2 DEF Sync!Max
  <2> QED
    BY <1>1, <1>6, <2>1, <2>2
<1>8. /\ rows' \in Seq(Vectors) /\ Len(rows') = Len(left)
      /\ \A n \in DOMAIN left : rows'[n] = rows[pos[left[n]]]
  <2>1. \A n \in DOMAIN left : rows[pos[left[n]]] \in Vectors
    BY <1>4, <1>5
  <2>2. CASE left = <<>>
    BY <1>1, <2>2
  <2>3. CASE left # <<>>
    <3>1. rows' = [n \in 1 .. Len(left) |-> rows[pos[left[n]]]]
      BY <1>1, <1>2, <1>6, <2>3
    <3> QED
      BY <1>2, <2>1, <3>1
  <2> QED
    BY <2>2, <2>3
<1>9. DOMAIN pos' = Within(ids) \ {carg}
  <2> HIDE DEF kept
  <2> QED
    BY <1>1, <1>4
<1> HIDE DEF kept
<1>10. ids' = left
  BY <1>1
<1> QED
  BY <1>2, <1>7, <1>8, <1>9, <1>10

------------------------------------------------------------------------------
\* A call that changes the store tells the index next, if it embeds at all.
LEMMA CallsKeep ==
    ASSUME Embedding, SyncInv, NEW i \in Ids,
           \/ Sync!Create(i) \/ Sync!UpdateContent(i) \/ Sync!Touch(i) \/ Sync!Recover(i)
    PROVE  SyncInv'
<1> USE DEF SyncInv, Sync!Calls, Sync!Notify, Sync!indexVars, Sync!workerVars, Sync!storeVars
<1>0. None \notin Ids
  BY EmbeddingConstants
<1>1. /\ cpc = "idle" /\ carg' = i
      /\ UNCHANGED <<ids, pos, rows, dim, cvec, running, wpc>>
  BY DEF Sync!Create, Sync!UpdateContent, Sync!Touch, Sync!Recover
<1>2. \/ cpc' = "embed" /\ pool'[i] = "active"
      \/ cpc' = "emit" /\ pool' = pool /\ ver' = ver
  BY DEF Embedding, Sync!Create, Sync!UpdateContent, Sync!Touch, Sync!Recover, SyncTypes
<1>3. /\ pool' \in [Ids -> {"none", "active", "archived", "deleted", "purged"}]
      /\ ver' \in [Ids -> Int]
      /\ \A j \in Ids \ {i} : pool'[j] = pool[j] /\ ver'[j] = ver[j]
      /\ pool[i] = "active" => pool'[i] = "active"
  <2>1. CASE Sync!Create(i)
    BY <2>1 DEF Sync!Create, SyncTypes
  <2>2. CASE Sync!UpdateContent(i)
    <3>1. ver[i] + 1 \in Int
      BY DEF SyncTypes
    <3> QED
      BY <2>2, <3>1 DEF Sync!UpdateContent, SyncTypes
  <2>3. CASE Sync!Touch(i)
    BY <2>3 DEF Sync!Touch, SyncTypes
  <2>4. CASE Sync!Recover(i)
    BY <2>4 DEF Sync!Recover, SyncTypes
  <2> QED
    BY <2>1, <2>2, <2>3, <2>4
<1>4. SyncTypes'
  BY <1>0, <1>1, <1>2, <1>3 DEF SyncTypes
<1>5. Rows'
  BY <1>1, <1>2, <1>3 DEF Rows
<1>6. Held'
  BY <1>1, <1>2, <1>3 DEF Held, Active, Within
<1> QED
  BY <1>4, <1>5, <1>6

\* A memory that leaves the active pool, or the deleted one, leaves the index next.
LEMMA RetireKeeps ==
    ASSUME SyncInv, NEW i \in Ids, NEW op, NEW from \in {"active", "deleted"},
           NEW to \in {"archived", "deleted", "purged"}, Sync!Retire(i, op, from, to)
    PROVE  SyncInv'
<1> USE DEF SyncInv, Sync!Calls, Sync!Retire, Sync!indexVars, Sync!workerVars
<1>1. SyncTypes'
  BY EmbeddingConstants DEF SyncTypes
<1>2. Rows'
  BY DEF Rows
<1>3. Held'
  BY DEF Held, Active, SyncTypes
<1> QED
  BY <1>1, <1>2, <1>3

\* NumPyVectorIndex.update: the row is replaced, or the id entered.
LEMMA EmbedKeeps ==
    ASSUME Embedding, SyncInv, Sync!EmbedNow
    PROVE  SyncInv'
<1> USE DEF SyncInv, Sync!EmbedNow, Sync!indexVars, Sync!workerVars, Sync!storeVars, Sync!Current,
            Sync!Vec
<1>1. carg \in Ids /\ Sync!Current(carg) \in Vectors /\ cpc = "embed"
  BY DEF SyncTypes, Vectors
<1>2. SyncTypes'
  BY DEF SyncTypes, Embedding
<1>3. CASE carg \in DOMAIN pos
  <2>1. carg \in Within(ids) /\ pos[carg] \in DOMAIN rows /\ ids[pos[carg]] = carg
    BY <1>1, <1>3, AtPosition DEF Rows
  <2>2. /\ rows' = [rows EXCEPT ![pos[carg]] = Sync!Current(carg)]
        /\ cpc' = "emit" /\ UNCHANGED <<ids, pos, carg, pool, ver>>
    BY <1>3, <2>1 DEF Embedding
  <2>3. rows' \in Seq(Vectors) /\ Len(rows') = Len(rows)
    BY <1>1, <2>1, <2>2 DEF Rows
  <2>4. \A n \in DOMAIN rows : n # pos[carg] => rows'[n] = rows[n] /\ ids[n] # carg
    BY <2>1, <2>2 DEF Rows
  <2>5. Rows'
    BY <1>1, <2>1, <2>2, <2>3, <2>4 DEF Rows
  <2>6. Held'
    BY <1>1, <2>1, <2>2 DEF Held, Active
  <2> QED
    BY <1>2, <2>5, <2>6
<1>4. CASE carg \notin DOMAIN pos
  <2>1. /\ ids' = Append(ids, carg)
        /\ pos' = [j \in DOMAIN pos \cup {carg} |-> IF j = carg THEN Len(ids) + 1 ELSE pos[j]]
        /\ cvec' = Sync!Current(carg) /\ cpc' = "append"
        /\ UNCHANGED <<rows, carg, pool, ver>>
    BY <1>4 DEF Embedding
  <2>2. /\ ids \in Seq(Ids) /\ Len(ids') = Len(ids) + 1 /\ ids' \in Seq(Ids)
        /\ ids'[Len(ids) + 1] = carg /\ \A n \in DOMAIN ids : ids'[n] = ids[n]
        /\ DOMAIN ids' = DOMAIN ids \cup {Len(ids) + 1}
    BY <1>1, <2>1 DEF Rows
  <2>3. Within(ids') = Within(ids) \cup {carg} /\ carg \notin Within(ids)
    BY <1>4, <2>2 DEF Within, Rows
  <2>4. Rows'
    <3>1. \A n \in DOMAIN ids' : pos'[ids'[n]] = n
      BY <2>1, <2>2, <2>3 DEF Rows, Within
    <3>2. Len(rows) = Len(ids) /\ DOMAIN rows = DOMAIN ids
      BY <1>1, <2>2 DEF Rows
    <3>3. \A n \in DOMAIN ids : ids[n] # carg
      BY <2>3 DEF Within
    <3>4. \A n \in DOMAIN rows : rows[n].of = ids'[n] /\ rows[n].ver = ver[ids'[n]]
      BY <1>1, <2>2, <3>2, <3>3 DEF Rows
    <3>5. DOMAIN pos' = Within(ids')
      BY <2>1, <2>3 DEF Rows
    <3>6. /\ rows' = rows /\ ver' = ver /\ rows \in Seq(Vectors)
          /\ Len(rows) = IF cpc' = "append" THEN Len(ids') - 1 ELSE Len(ids')
      BY <2>1, <2>2, <3>2 DEF Rows
    <3> HIDE DEF SyncInv, Sync!EmbedNow
    <3> QED
      BY <2>2, <3>1, <3>4, <3>5, <3>6 DEF Rows
  <2>5. Held'
    BY <1>1, <2>1, <2>2, <2>3 DEF Held, Active
  <2> QED
    BY <1>2, <2>4, <2>5
<1> QED
  BY <1>3, <1>4

\* The row that was missing.
LEMMA AppendKeeps ==
    ASSUME SyncInv, Sync!AppendRow
    PROVE  SyncInv'
<1> USE DEF SyncInv, Sync!AppendRow, Sync!workerVars, Sync!storeVars, Sync!Current, Sync!Vec
<1>1. carg \in Ids /\ cvec = Sync!Current(carg) /\ cvec \in Vectors /\ cpc = "append"
  BY DEF SyncTypes, Held, Vectors
<1>2. /\ ids \in Seq(Ids) /\ Len(ids) \in Nat /\ ids # <<>> /\ ids[Len(ids)] = carg
      /\ rows \in Seq(Vectors) /\ Len(rows) = Len(ids) - 1
  BY <1>1 DEF Held, Rows
<1>3. /\ rows' \in Seq(Vectors) /\ Len(rows') = Len(ids)
      /\ rows'[Len(ids)] = cvec
      /\ \A n \in DOMAIN rows' : n # Len(ids) => n \in DOMAIN rows /\ rows'[n] = rows[n]
  BY <1>1, <1>2
<1>4. SyncTypes'
  BY DEF SyncTypes
<1>5. Rows'
  BY <1>1, <1>2, <1>3 DEF Rows
<1>6. Held'
  BY <1>1 DEF Held, Active
<1> QED
  BY <1>4, <1>5, <1>6

\* The end of a call.
LEMMA EmitKeeps ==
    ASSUME SyncInv, Sync!Emit
    PROVE  SyncInv'
  BY DEF SyncInv, SyncTypes, Rows, Held, Active, Sync!Emit, Sync!workerVars, Sync!storeVars,
         Sync!indexVars

\* EmbeddingIndex.on_delete.
LEMMA RemoveKeeps ==
    ASSUME SyncInv, Sync!RemoveRow
    PROVE  SyncInv'
<1> USE DEF SyncInv, Sync!RemoveRow, Sync!workerVars, Sync!storeVars
<1>1. /\ ids' \in Seq(Ids) /\ Within(ids') = Within(ids) \ {carg}
      /\ DOMAIN pos' = Within(ids') /\ \A n \in DOMAIN ids' : pos'[ids'[n]] = n
      /\ rows' \in Seq(Vectors) /\ Len(rows') = Len(ids')
      /\ \A n \in DOMAIN ids' : rows'[n] = rows[pos[ids'[n]]]
  BY RowsLeft
<1>2. SyncTypes'
  BY DEF SyncTypes, Sync!Removed
<1>3. \A n \in DOMAIN ids' : rows'[n].of = ids'[n] /\ rows'[n].ver = ver[ids'[n]]
  <2> SUFFICES ASSUME NEW n \in DOMAIN ids'
               PROVE  rows'[n].of = ids'[n] /\ rows'[n].ver = ver[ids'[n]]
    OBVIOUS
  <2>1. ids'[n] \in Within(ids)
    BY <1>1 DEF Within
  <2>2. pos[ids'[n]] \in DOMAIN rows /\ ids[pos[ids'[n]]] = ids'[n]
    BY <2>1, AtPosition DEF Rows
  <2> QED
    BY <1>1, <2>2 DEF Rows
<1>4. Rows'
  BY <1>1, <1>3 DEF Rows
<1>5. Held'
  BY <1>1 DEF Held, Active
<1> QED
  BY <1>2, <1>4, <1>5

\* Each step: the client's, for the worker's thread was never started.
LEMMA SyncStep ==
    ASSUME Embedding, SyncInv, Sync!Next
    PROVE  SyncInv'
<1>1. ~Sync!WorkerStep
  BY DEF SyncInv, SyncTypes, Sync!WorkerStep, Sync!Get, Sync!GetNothing, Sync!Flush,
         Sync!EmbedBatch, Sync!EnterBatch, Sync!BuildRows, Sync!Exit
<1>2. ~Sync!Stop /\ ~Sync!Start
  BY DEF Sync!Stop, Sync!Start, Sync!Calls
<1>3. ASSUME NEW i \in Ids,
             \/ Sync!Create(i) \/ Sync!UpdateContent(i) \/ Sync!Touch(i) \/ Sync!Recover(i)
             \/ Sync!Retire(i, "archive", "active", "archived")
             \/ Sync!Retire(i, "delete", "active", "deleted")
             \/ Sync!Retire(i, "purge", "deleted", "purged")
      PROVE  SyncInv'
  BY <1>3, CallsKeep, RetireKeeps
<1>4. CASE Sync!ClientCall
  BY <1>2, <1>3, <1>4, Zenon DEF Sync!ClientCall
<1>5. CASE Sync!ClientProgress
  BY <1>5, EmbedKeeps, AppendKeeps, EmitKeeps, RemoveKeeps DEF Sync!ClientProgress
<1> QED
  BY <1>1, <1>4, <1>5 DEF Sync!Next

\* SequencesExt: the members of a finite set in a row, each once.
LEMMA InRow ==
    ASSUME NEW S, IsFiniteSet(S)
    PROVE  /\ Sync!SetToSeq(S) \in Seq(S) /\ Within(Sync!SetToSeq(S)) = S
           /\ \A m, n \in DOMAIN Sync!SetToSeq(S) :
                 Sync!SetToSeq(S)[m] = Sync!SetToSeq(S)[n] => m = n
<1> DEFINE N == Cardinality(S)
           f == Sync!SetToSeq(S)
<1>1. N \in Nat /\ ExistsBijection(1 .. N, S)
  BY FS_CardinalityType
<1>2. PICK g \in [1 .. N -> S] : Sync!IsInjective(g)
  BY <1>1 DEF ExistsBijection, Bijection, Injection, IsInjective, Sync!IsInjective
<1>3. f = CHOOSE h \in [1 .. N -> S] : Sync!IsInjective(h)
  BY DEF Sync!SetToSeq, Sync!Cardinality, Cardinality
<1> HIDE DEF f
<1>4. f \in [1 .. N -> S] /\ Sync!IsInjective(f)
  BY <1>2, <1>3
<1>5. f \in Injection(1 .. N, S)
  BY <1>4 DEF Injection, IsInjective, Sync!IsInjective
<1>6. f \in Surjection(1 .. N, S)
  <2>1. IsFiniteSet(1 .. N) /\ Cardinality(1 .. N) = N
    BY <1>1, FS_Interval
  <2> QED
    BY <1>5, <2>1, FS_Injection
<1>7. f \in Seq(S) /\ DOMAIN f = 1 .. N
  BY <1>1, <1>4
<1>8. Within(f) = S
  BY <1>6, <1>7 DEF Within, Surjection
<1> QED
  BY <1>4, <1>7, <1>8 DEF f, Sync!IsInjective

\* RetrievalEngine.initialize: the active memories, each with its vector.
LEMMA SyncBegins ==
    ASSUME Embedding, Sync!Init
    PROVE  SyncInv
<1> USE DEF Sync!Init
<1>1. /\ ids = Sync!SetToSeq(Present) /\ ids \in Seq(Ids) /\ Within(ids) = Present
      /\ \A m, n \in DOMAIN ids : ids[m] = ids[n] => m = n
  <2>1. ids \in Seq(Present) /\ Within(ids) = Present
        /\ \A m, n \in DOMAIN ids : ids[m] = ids[n] => m = n
    BY SyncConstants, InRow
  <2> QED
    BY <2>1, SyncConstants
<1>2. SyncTypes
  <2>1. pool \in [Ids -> {"none", "active", "archived", "deleted", "purged"}]
    OBVIOUS
  <2>2. ver \in [Ids -> Int]
    OBVIOUS
  <2>3. cpc = "idle" /\ carg = None
    OBVIOUS
  <2>4. running = FALSE /\ wpc = "off"
    OBVIOUS
  <2>5. dim = TRUE
    BY DEF Embedding
  <2> QED
    BY <2>1, <2>2, <2>3, <2>4, <2>5 DEF SyncTypes
<1>3. \A n \in DOMAIN ids : ids[n] \in Present /\ pos[ids[n]] = n
  <2> SUFFICES ASSUME NEW n \in DOMAIN ids
               PROVE  ids[n] \in Present /\ pos[ids[n]] = n
    OBVIOUS
  <2>1. ids[n] \in Present
    BY <1>1 DEF Within
  <2>2. pos[ids[n]] = CHOOSE m \in DOMAIN ids : ids[m] = ids[n]
    BY <2>1
  <2> QED
    BY <1>1, <2>1, <2>2
<1>4. rows = [n \in DOMAIN ids |-> [of |-> ids[n], ver |-> 1]]
  BY DEF Sync!Vec
<1>5. rows \in Seq(Vectors) /\ Len(rows) = Len(ids) /\ DOMAIN rows = DOMAIN ids
  <2>1. \A n \in DOMAIN ids : [of |-> ids[n], ver |-> 1] \in Vectors
    BY <1>1 DEF Vectors
  <2>2. rows = [n \in 1 .. Len(ids) |-> [of |-> ids[n], ver |-> 1]]
    BY <1>1, <1>4
  <2> QED
    BY <1>1, <2>1, <2>2
<1>6. \A n \in DOMAIN rows : rows[n].of = ids[n] /\ rows[n].ver = ver[ids[n]]
  <2> SUFFICES ASSUME NEW n \in DOMAIN rows
               PROVE  rows[n].of = ids[n] /\ rows[n].ver = ver[ids[n]]
    OBVIOUS
  <2>1. n \in DOMAIN ids
    BY <1>5
  <2>2. ids[n] \in Present /\ ids[n] \in Ids
    BY <1>3, <2>1, SyncConstants
  <2>3. ver[ids[n]] = 1
    BY <2>2
  <2>4. rows[n] = [of |-> ids[n], ver |-> 1]
    BY <1>4, <2>1
  <2> QED
    BY <2>3, <2>4
<1>7. DOMAIN pos = Within(ids) /\ cpc = "idle"
  BY <1>1
<1>8. Rows
  BY <1>1, <1>3, <1>5, <1>6, <1>7 DEF Rows
<1>9. Active = Present
  BY SyncConstants DEF Active
<1>10. Held
  BY <1>1, <1>7, <1>9 DEF Held
<1> QED
  BY <1>2, <1>8, <1>10 DEF SyncInv

\* The invariant holds in the setting without worker.
LEMMA SyncAlways ==
    ASSUME Embedding
    PROVE  MCSpec => [](setting = "sync" => SyncInv)
<1>1. MCInit => (setting = "sync" => SyncInv)
  BY SyncBegins DEF MCInit
<1>2. (setting = "sync" => SyncInv) /\ [MCNext]_MCVars => (setting = "sync" => SyncInv)'
  <2> SUFFICES ASSUME setting = "sync" => SyncInv, [MCNext]_MCVars, setting' = "sync"
               PROVE  SyncInv'
    OBVIOUS
  <2>1. setting = "sync" /\ SyncInv /\ (Sync!Next \/ UNCHANGED vars)
    BY DEF MCNext, MCVars
  <2>2. CASE UNCHANGED vars
    BY <2>1, <2>2 DEF vars, storeVars, indexVars, clientVars, workerVars, SyncInv, SyncTypes,
                      Rows, Held, Active, Sync!Current, Sync!Vec
  <2> QED
    BY <2>1, <2>2, SyncStep
<1> QED
  BY <1>1, <1>2, PTL DEF MCSpec

\* Any memories and any calls: between two calls of the client the index has
\* exactly the active memories, each with the vector of its latest content, however
\* positions moved when others were removed (embedding_index.py, vector_index.py).
THEOREM MirrorsActiveWithoutWorker ==
    ASSUME Embedding
    PROVE  MCSpec => []MirrorsActiveAlone
<1>1. (setting = "sync" => SyncInv) => MirrorsActiveAlone
  <2> SUFFICES ASSUME SyncInv, cpc = "idle"
               PROVE  /\ ToSet(ids) = Active
                      /\ \A n \in DOMAIN ids : rows[n] = Current(ids[n])
    BY DEF MirrorsActiveAlone, MirrorsActive
  <2>1. Active = Within(ids)
    BY DEF SyncInv, Held
  <2>2. ASSUME NEW n \in DOMAIN ids
        PROVE  rows[n] = Current(ids[n])
    <3>1. n \in DOMAIN rows /\ rows[n].of = ids[n] /\ rows[n].ver = ver[ids[n]]
      BY DEF SyncInv, Rows
    <3>2. rows[n] \in Vectors
      BY <3>1 DEF SyncInv, Rows
    <3> QED
      BY <3>1, <3>2 DEF Current, Vec, Vectors
  <2> QED
    BY <2>1, <2>2 DEF ToSet, Within
<1> QED
  BY <1>1, SyncAlways, PTL

\* And whenever the client is not inside the index, the ids, the positions and the
\* rows of it agree (vector_index.py).
THEOREM AlignedWithoutWorker ==
    ASSUME Embedding
    PROVE  MCSpec => [](setting = "sync" => Aligned)
<1>1. (setting = "sync" => SyncInv) => (setting = "sync" => Aligned)
  BY DEF SyncInv, Rows, Aligned, Settled, ToSet, Within
<1> QED
  BY <1>1, SyncAlways, PTL
==============================================================================
