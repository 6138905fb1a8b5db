------------------------- MODULE AuditChain_proofs --------------------------
(***************************************************************************)
(* Proofs about the audit chain, for any number of callers, any contents   *)
(* and any length.                                                         *)
(***************************************************************************)
EXTENDS AuditChain, TLAPS, WellFoundedInduction, SequenceTheorems

-----------------------------------------------------------------------------
(* Where verification stops.                                                *)

\* A set of places that is not empty has a first one.
LEMMA FirstExists ==
  ASSUME NEW S \in SUBSET Nat, S # {}
  PROVE  \E k \in S : \A m \in S : k <= m
<1> DEFINE R == OpToRel(<, Nat)
<1>1. IsWellFoundedOn(R, Nat)
  BY NatLessThanWellFounded
<1>2. \A k, m \in Nat : <<k, m>> \in R <=> k < m
  BY DEF OpToRel
<1> HIDE DEF R
<1>3. PICK k \in S : \A m \in S : <<m, k>> \notin R
  BY <1>1, WFMin
<1>4. ASSUME NEW m \in S
      PROVE  k <= m
  <2>1. k \in Nat /\ m \in Nat /\ ~(m < k)
    BY <1>2, <1>3
  <2> QED
    BY <2>1
<1> QED
  BY <1>3, <1>4

\* broken_at is the first place at which a check fails.
LEMMA BrokenAtIsFirst ==
  ASSUME NEW rs, DOMAIN rs \subseteq Nat, ~Valid(rs)
  PROVE  /\ BrokenAt(rs) \in Faulty(rs)
         /\ \A m \in Faulty(rs) : BrokenAt(rs) <= m
<1>1. Faulty(rs) \in SUBSET Nat /\ Faulty(rs) # {}
  BY DEF Valid, Faulty
<1>2. \E k \in Faulty(rs) : \A m \in Faulty(rs) : k <= m
  BY <1>1, FirstExists
<1> QED
  BY <1>2 DEF BrokenAt

\* What an append does to the list.
LEMMA AppendFacts ==
  ASSUME NEW rs, rs \in Seq({rs[k] : k \in DOMAIN rs}), NEW r
  PROVE  /\ Len(rs) \in Nat /\ DOMAIN rs = 1 .. Len(rs)
         /\ Len(Append(rs, r)) = Len(rs) + 1
         /\ DOMAIN Append(rs, r) = 1 .. Len(rs) + 1
         /\ \A k \in DOMAIN rs : Append(rs, r)[k] = rs[k]
         /\ Append(rs, r)[Len(rs) + 1] = r
         /\ Append(rs, r) \in Seq({Append(rs, r)[k] : k \in DOMAIN Append(rs, r)})
<1> DEFINE S == {rs[k] : k \in DOMAIN rs} \cup {r}
<1>1. rs \in Seq(S) /\ r \in S
  <2>1. {rs[k] : k \in DOMAIN rs} \subseteq S
    OBVIOUS
  <2> QED
    BY <2>1
<1> HIDE DEF S
<1>2. /\ Len(rs) \in Nat /\ DOMAIN rs = 1 .. Len(rs)
      /\ Len(Append(rs, r)) = Len(rs) + 1
      /\ DOMAIN Append(rs, r) = 1 .. Len(rs) + 1
      /\ \A k \in DOMAIN rs : Append(rs, r)[k] = rs[k]
      /\ Append(rs, r)[Len(rs) + 1] = r
      /\ Append(rs, r) \in Seq(S)
  BY <1>1
<1>3. Append(rs, r) \in Seq({Append(rs, r)[k] : k \in DOMAIN Append(rs, r)})
  <2> DEFINE a == Append(rs, r)
  <2>1. a \in Seq(S) /\ DOMAIN a = 1 .. Len(a) /\ Len(a) \in Nat
    BY <1>2
  <2> HIDE DEF a
  <2>2. a = [k \in 1 .. Len(a) |-> a[k]]
    BY <2>1
  <2>3. a \in [1 .. Len(a) -> {a[k] : k \in DOMAIN a}]
    BY <2>1, <2>2
  <2>4. a \in Seq({a[k] : k \in DOMAIN a})
    <3> DEFINE T == {a[k] : k \in DOMAIN a}
    <3>1. \E n \in Nat : a \in [1 .. n -> T]
      BY <2>1, <2>3
    <3> HIDE DEF T
    <3>2. a \in UNION {[1 .. n -> T] : n \in Nat}
      BY <3>1, Zenon
    <3>3. a \in Seq(T)
      BY <3>2, SeqDef, Zenon
    <3> QED
      BY <3>3 DEF T
  <2> QED
    BY <2>4 DEF a
<1> QED
  BY <1>2, <1>3
\* An append leaves the records it finds where and as they are, so verification
\* finds the same of each of them.
LEMMA AppendKeepsFaults ==
  ASSUME NEW rs, rs \in Seq({rs[k] : k \in DOMAIN rs}), NEW r,
         NEW k \in DOMAIN rs
  PROVE  FaultAt(Append(rs, r), k) = FaultAt(rs, k)
<1> DEFINE a == Append(rs, r)
<1>1. /\ Len(rs) \in Nat /\ DOMAIN rs = 1 .. Len(rs)
      /\ \A m \in DOMAIN rs : a[m] = rs[m]
  BY AppendFacts
<1> HIDE DEF a
<1>2. a[k] = rs[k] /\ (k # 1 => a[k - 1] = rs[k - 1])
  <2>1. k \in 1 .. Len(rs) /\ (k # 1 => k - 1 \in 1 .. Len(rs))
    BY <1>1
  <2> QED
    BY <1>1, <2>1
<1>3. FaultAt(a, k) = FaultAt(rs, k)
  BY <1>2, Zenon DEF FaultAt, ComputedHash
<1> QED
  BY <1>3 DEF a

-----------------------------------------------------------------------------
(* Types.                                                                   *)

\* TypeOK: no caller holds a length the list has not had, whatever the
\* interleaving, and every field a record may be given keeps its type.
THEOREM TypeCorrect == Spec => []TypeOK
<1>1. Init => TypeOK
  <2>1. RecordList(<<>>)
    BY DEF RecordList
  <2> QED
    BY <2>1, ChainAssumption DEF Init, TypeOK
<1>2. TypeOK /\ [Next]_vars => TypeOK'
  <2> SUFFICES ASSUME TypeOK, [Next]_vars
               PROVE  TypeOK'
    OBVIOUS
  <2>0. /\ RecordList(records)
        /\ Len(records) \in Nat /\ DOMAIN records = 1 .. Len(records)
        /\ changes \in Nat /\ MaxChanges \in Nat
        /\ \A c \in Caller : sequence[c] \in Nat
    <3>1. Len(records) \in Nat /\ DOMAIN records = 1 .. Len(records)
      BY AppendFacts DEF TypeOK, RecordList
    <3>2. changes \in 0 .. MaxChanges /\ sequence \in [Caller -> 0 .. Len(records)]
      BY DEF TypeOK
    <3>3. changes \in Nat /\ MaxChanges \in Nat
      BY <3>2, ChainAssumption
    <3>4. ASSUME NEW c \in Caller
          PROVE  sequence[c] \in Nat
      <4>1. sequence[c] \in 0 .. Len(records)
        BY <3>2
      <4> QED
        BY <3>1, <4>1
    <3> QED
      BY <3>1, <3>3, <3>4 DEF TypeOK
  <2>1. ASSUME NEW c \in Caller, ReadLength(c)
        PROVE  TypeOK'
    <3>1. sequence' \in [Caller -> 0 .. Len(records)]
      <4>1. Len(records) \in 0 .. Len(records)
        BY <2>0
      <4> QED
        BY <2>1, <4>1 DEF ReadLength, TypeOK
    <3>2. pc' \in [Caller -> {"idle", "length read", "head read"}]
      BY <2>1 DEF ReadLength, TypeOK
    <3> QED
      BY <2>0, <2>1, <3>1, <3>2 DEF ReadLength, TypeOK
  <2>2. ASSUME NEW c \in Caller, ReadHead(c)
        PROVE  TypeOK'
    <3>1. pc' \in [Caller -> {"idle", "length read", "head read"}]
      BY <2>2 DEF ReadHead, TypeOK
    <3>2. DOMAIN previous' = Caller
      BY <2>2 DEF ReadHead, TypeOK
    <3> QED
      BY <2>0, <2>2, <3>1, <3>2 DEF ReadHead, TypeOK
  <2>3. ASSUME NEW c \in Caller, Commit(c)
        PROVE  TypeOK'
    <3>1. PICK content \in Content :
            records' = Append(records, NewRecord(sequence[c], previous[c], content))
      BY <2>3 DEF Commit
    <3> DEFINE r == NewRecord(sequence[c], previous[c], content)
    <3>2. WellFormed(r)
      BY <2>0 DEF NewRecord, WellFormed
    <3>3. records' = Append(records, r)
      BY <3>1
    <3> HIDE DEF r
    <3>4. /\ Len(records') = Len(records) + 1
          /\ DOMAIN records' = 1 .. Len(records) + 1
          /\ \A k \in DOMAIN records : records'[k] = records[k]
          /\ records'[Len(records) + 1] = r
          /\ records' \in Seq({records'[k] : k \in DOMAIN records'})
      BY <2>0, <3>3, AppendFacts DEF RecordList
    <3>5. RecordList(records')
      BY <2>0, <3>2, <3>4 DEF RecordList
    <3>6. sequence' \in [Caller -> 0 .. Len(records')]
      <4>1. 0 .. Len(records) \subseteq 0 .. Len(records')
        BY <2>0, <3>4
      <4> QED
        BY <2>3, <4>1 DEF Commit, TypeOK
    <3>7. pc' \in [Caller -> {"idle", "length read", "head read"}]
      BY <2>3 DEF Commit, TypeOK
    <3> QED
      BY <2>3, <3>5, <3>6, <3>7 DEF Commit, TypeOK
  <2>4. ASSUME changes < MaxChanges, changes' = changes + 1,
               NEW i \in DOMAIN records, NEW j \in DOMAIN records,
               NEW r, WellFormed(r), NEW q, WellFormed(q),
               records' = [records EXCEPT ![i] = r, ![j] = q],
               UNCHANGED <<pc, sequence, previous>>
        PROVE  TypeOK'
    <3>1. /\ DOMAIN records' = DOMAIN records
          /\ \A k \in DOMAIN records' : WellFormed(records'[k])
      BY <2>0, <2>4 DEF RecordList
    <3>2. /\ records' \in Seq({records'[k] : k \in DOMAIN records'})
          /\ Len(records') = Len(records)
      <4> DEFINE T == {records'[k] : k \in DOMAIN records'}
      <4>1. records' = [k \in 1 .. Len(records) |-> records'[k]]
        BY <2>0, <2>4
      <4>2. records' \in [1 .. Len(records) -> T]
        BY <2>0, <3>1, <4>1
      <4> HIDE DEF T
      <4>3. records' \in Seq(T)
        <5>1. records' \in UNION {[1 .. n -> T] : n \in Nat}
          BY <2>0, <4>2
        <5> QED
          BY <5>1, SeqDef, Zenon
      <4>4. Len(records') = Len(records)
        BY <2>0, <4>2, <4>3
      <4> QED
        BY <4>3, <4>4 DEF T
    <3>3. changes' \in 0 .. MaxChanges
      <4>1. changes < MaxChanges /\ changes' = changes + 1
        BY <2>4
      <4> QED
        BY <2>0, <4>1
    <3>4. RecordList(records')
      BY <3>1, <3>2 DEF RecordList
    <3> QED
      BY <2>4, <3>2, <3>3, <3>4 DEF TypeOK
  <2>5. ASSUME NEW i \in DOMAIN records, Edit(i)
        PROVE  TypeOK'
    <3>1. PICK r \in Edited(records[i]) : records' = [records EXCEPT ![i] = r]
      BY <2>5 DEF Edit
    <3>2. WellFormed(records[i])
      BY <2>0 DEF RecordList
    <3>3. WellFormed(r)
      <4>1. \A n \in 0 .. MaxRecords : n \in Nat
        BY ChainAssumption
      <4> QED
        BY <3>2, <4>1 DEF Edited, WellFormed
    <3>4. records' = [records EXCEPT ![i] = r, ![i] = r]
      BY <3>1
    <3> QED
      BY <2>4, <2>5, <3>3, <3>4 DEF Edit
  <2>6. ASSUME NEW i \in DOMAIN records, NEW j \in DOMAIN records, Swap(i, j)
        PROVE  TypeOK'
    <3>1. WellFormed(records[i]) /\ WellFormed(records[j])
      BY <2>0 DEF RecordList
    <3> QED
      BY <2>4, <2>6, <3>1 DEF Swap
  <2>7. CASE UNCHANGED vars
    BY <2>7 DEF vars, TypeOK
  <2> QED
    BY <2>1, <2>2, <2>3, <2>5, <2>6, <2>7 DEF Next
<1> QED
  BY <1>1, <1>2, PTL DEF Spec

-----------------------------------------------------------------------------
(* Appends.                                                                 *)

\* Every step of the chain either appends one record, or changes records and
\* counts that, or leaves the list alone.
LEMMA Steps ==
  ASSUME TypeOK, [Next]_vars
  PROVE  \/ \E c \in Caller : Commit(c)
         \/ changes' = changes + 1
         \/ UNCHANGED <<records, changes>>
BY DEF Next, vars, ReadLength, ReadHead, Edit, Swap

\* AppendsRepairNothing: what is wrong with a chain stays visible at its place.
THEOREM AppendsRepairNothingAlways == Spec => AppendsRepairNothing
<1>1. ASSUME TypeOK, Next, ~Valid(records), changes' = changes
      PROVE  ~Valid(records') /\ BrokenAt(records') = BrokenAt(records)
  <2>0. Len(records) \in Nat /\ DOMAIN records = 1 .. Len(records) /\ changes \in Nat
    <3>1. Len(records) \in Nat /\ DOMAIN records = 1 .. Len(records)
      BY <1>1, AppendFacts DEF TypeOK, RecordList
    <3>2. changes \in 0 .. MaxChanges
      BY <1>1 DEF TypeOK
    <3> QED
      BY <3>1, <3>2, ChainAssumption
  <2>1. CASE \E c \in Caller : Commit(c)
    <3>1. PICK r : records' = Append(records, r)
      BY <2>1 DEF Commit
    <3>2. records \in Seq({records[k] : k \in DOMAIN records})
      BY <1>1 DEF TypeOK, RecordList
    <3>3. /\ DOMAIN records' = 1 .. Len(records) + 1
          /\ \A k \in DOMAIN records : FaultAt(records', k) = FaultAt(records, k)
      BY <3>1, <3>2, AppendFacts, AppendKeepsFaults
    <3>4. /\ Faulty(records) \subseteq Faulty(records')
          /\ Faulty(records') \subseteq Faulty(records) \cup {Len(records) + 1}
      BY <2>0, <3>3 DEF Faulty
    <3> DEFINE b == BrokenAt(records)
               d == BrokenAt(records')
    <3>5. b \in Faulty(records) /\ \A m \in Faulty(records) : b <= m
      BY <1>1, <2>0, BrokenAtIsFirst
    <3>6. ~Valid(records')
      BY <3>4, <3>5 DEF Valid
    <3>7. d \in Faulty(records') /\ \A m \in Faulty(records') : d <= m
      BY <2>0, <3>3, <3>6, BrokenAtIsFirst
    <3>8. b \in 1 .. Len(records) /\ d \in 1 .. Len(records) + 1
      BY <2>0, <3>3, <3>5, <3>7 DEF Faulty
    <3>9. d <= b /\ (d \in Faulty(records) => b <= d)
      BY <3>4, <3>5, <3>7
    <3>10. d \in Faulty(records) \/ d = Len(records) + 1
      BY <3>4, <3>7
    <3> HIDE DEF b, d
    <3>11. d = b
      BY <2>0, <3>8, <3>9, <3>10
    <3> QED
      BY <3>6, <3>11 DEF b, d
  <2>2. CASE UNCHANGED <<records, changes>>
    BY <1>1, <2>2
  <2>3. changes' # changes + 1
    BY <1>1, <2>0
  <2> QED
    BY <1>1, <2>1, <2>2, <2>3, Steps
<1>2. TypeOK /\ [Next]_vars =>
        [~Valid(records) /\ changes' = changes =>
           ~Valid(records') /\ BrokenAt(records') = BrokenAt(records)]_vars
  BY <1>1
<1> QED
  BY <1>2, TypeCorrect, PTL DEF Spec, AppendsRepairNothing

-----------------------------------------------------------------------------
(* Overlapping appends.                                                     *)

\* IInv: how an append that overlapped another betrays itself.
LEMMA InductiveInvariant == Spec => []IInv
<1>1. Init => IInv
  BY DEF Init, IInv
<1>2. TypeOK /\ IInv /\ [Next]_vars => IInv'
  <2> SUFFICES ASSUME TypeOK, IInv, [Next]_vars, changes' = 0
               PROVE  IInv'
    BY DEF IInv
  <2>0. /\ Len(records) \in Nat /\ DOMAIN records = 1 .. Len(records)
        /\ changes \in Nat
        /\ records \in Seq({records[k] : k \in DOMAIN records})
        /\ \A c \in Caller : sequence[c] \in 0 .. Len(records)
    <3>1. /\ Len(records) \in Nat /\ DOMAIN records = 1 .. Len(records)
          /\ records \in Seq({records[k] : k \in DOMAIN records})
      BY AppendFacts DEF TypeOK, RecordList
    <3>2. changes \in 0 .. MaxChanges
      BY DEF TypeOK
    <3>3. changes \in Nat
      BY <3>2, ChainAssumption
    <3>4. \A c \in Caller : sequence[c] \in 0 .. Len(records)
      BY Zenon DEF TypeOK
    <3> QED
      BY <3>1, <3>3, <3>4
  <2> DEFINE hashed(r) == r.record_hash = ComputedHash(r)
             linked(r, k) == r.sequence = k - 1 => r.previous_hash = HeadHash(k - 1)
             fresh(c) == pc[c] = "head read" /\ sequence[c] = Len(records)
                           => previous[c] = HeadHash(Len(records))
  <2>1. changes = 0 =>
          /\ \A k \in DOMAIN records : hashed(records[k]) /\ linked(records[k], k)
          /\ \A c \in Caller : fresh(c)
    BY DEF IInv
  <2>2. ASSUME NEW c \in Caller, ReadLength(c)
        PROVE  IInv'
    <3>1. /\ changes = 0 /\ records' = records /\ previous' = previous
          /\ pc' = [pc EXCEPT ![c] = "length read"]
          /\ sequence' = [sequence EXCEPT ![c] = Len(records)]
      BY <2>2 DEF ReadLength
    <3>2. \A d \in Caller : pc'[d] = "head read" => d # c /\ pc[d] = "head read"
                                                      /\ sequence'[d] = sequence[d]
      BY <3>1 DEF TypeOK
    <3> QED
      BY <2>1, <3>1, <3>2 DEF IInv, HeadHash
  <2>3. ASSUME NEW c \in Caller, ReadHead(c)
        PROVE  IInv'
    <3>1. /\ changes = 0 /\ records' = records /\ sequence' = sequence
          /\ pc' = [pc EXCEPT ![c] = "head read"]
          /\ previous' = [previous EXCEPT ![c] = HeadHash(Len(records))]
      BY <2>3 DEF ReadHead
    <3>2. \A d \in Caller : pc'[d] = "head read" /\ sequence[d] = Len(records)
                              => previous'[d] = HeadHash(Len(records))
      BY <2>1, <3>1 DEF TypeOK
    <3> QED
      BY <2>1, <3>1, <3>2 DEF IInv, HeadHash
  <2>4. ASSUME NEW c \in Caller, Commit(c)
        PROVE  IInv'
    <3>1. PICK content \in Content :
            records' = Append(records, NewRecord(sequence[c], previous[c], content))
      BY <2>4 DEF Commit
    <3> DEFINE r == NewRecord(sequence[c], previous[c], content)
    <3>2. /\ changes = 0 /\ pc[c] = "head read"
          /\ pc' = [pc EXCEPT ![c] = "idle"]
          /\ sequence' = sequence /\ previous' = previous
      BY <2>4 DEF Commit
    <3>3. hashed(r) /\ r.sequence = sequence[c] /\ r.previous_hash = previous[c]
      BY DEF NewRecord, ComputedHash
    <3>4. records' = Append(records, r)
      BY <3>1
    <3> HIDE DEF r
    <3>5. /\ Len(records') = Len(records) + 1
          /\ DOMAIN records' = 1 .. Len(records) + 1
          /\ \A k \in DOMAIN records : records'[k] = records[k]
          /\ records'[Len(records) + 1] = r
      BY <2>0, <3>4, AppendFacts
    <3>6. ASSUME NEW k \in 0 .. Len(records)
          PROVE  HeadHash(k)' = HeadHash(k)
      <4>1. k = 0 \/ k \in DOMAIN records
        BY <2>0
      <4> QED
        BY <3>5, <4>1 DEF HeadHash
    <3>7. ASSUME NEW k \in DOMAIN records'
          PROVE  /\ hashed(records'[k])
                 /\ records'[k].sequence = k - 1 =>
                      records'[k].previous_hash = HeadHash(k - 1)'
      <4>0. k - 1 \in 0 .. Len(records)
        BY <2>0, <3>5
      <4>1. CASE k \in DOMAIN records
        BY <2>1, <3>2, <3>5, <3>6, <4>0, <4>1
      <4>2. CASE k = Len(records) + 1
        <5>1. records'[k] = r /\ k - 1 = Len(records)
          BY <2>0, <3>5, <4>2
        <5>2. sequence[c] = Len(records) => previous[c] = HeadHash(Len(records))
          BY <2>1, <3>2
        <5> QED
          BY <3>3, <3>6, <4>0, <5>1, <5>2
      <4> QED
        BY <2>0, <3>5, <4>1, <4>2
    <3>8. \A d \in Caller : sequence'[d] # Len(records')
      <4>1. ASSUME NEW d \in Caller
            PROVE  sequence[d] # Len(records) + 1
        <5>1. sequence[d] \in 0 .. Len(records)
          BY <2>0
        <5> QED
          BY <2>0, <5>1
      <4> QED
        BY <3>2, <3>5, <4>1
    <3> QED
      BY <3>7, <3>8 DEF IInv, ComputedHash
  <2>5. changes' # changes + 1
    BY <2>0
  <2>6. CASE UNCHANGED vars
    BY <2>6, <2>1 DEF vars, IInv, HeadHash
  <2> QED
    BY <2>2, <2>3, <2>4, <2>5, <2>6 DEF Next, Edit, Swap
<1> QED
  BY <1>1, <1>2, TypeCorrect, PTL DEF Spec

\* RacesAreDetected: on a chain nobody changed, misplaced records are the faulty
\* ones, so verification refuses every race and nothing else.
THEOREM RacesAreDetectedAlways == Spec => []RacesAreDetected
<1>1. TypeOK /\ IInv => RacesAreDetected
  <2> SUFFICES ASSUME TypeOK, IInv, changes = 0
               PROVE  RacesAreDetected
    BY DEF RacesAreDetected
  <2> DEFINE misplaced == {k \in DOMAIN records : records[k].sequence # k - 1}
  <2>0. Len(records) \in Nat /\ DOMAIN records = 1 .. Len(records)
    BY AppendFacts DEF TypeOK, RecordList
  <2>1. Faulty(records) = misplaced
    <3>1. ASSUME NEW k \in DOMAIN records, records[k].sequence = k - 1
          PROVE  FaultAt(records, k) = "none"
      <4>1. /\ records[k].record_hash = ComputedHash(records[k])
            /\ records[k].previous_hash = HeadHash(k - 1)
        BY <3>1 DEF IInv
      <4>2. k \in Nat /\ (k - 1 = 0 <=> k = 1)
        BY <2>0
      <4> QED
        BY <3>1, <4>1, <4>2 DEF FaultAt, HeadHash
    <3>2. ASSUME NEW k \in DOMAIN records, records[k].sequence # k - 1
          PROVE  FaultAt(records, k) # "none"
      BY <3>2 DEF FaultAt
    <3> QED
      BY <3>1, <3>2 DEF Faulty
  <2> HIDE DEF misplaced
  <2>2. CASE misplaced = {}
    BY <2>1, <2>2 DEF RacesAreDetected, Valid, misplaced
  <2>3. CASE misplaced # {}
    <3>1. ~Valid(records)
      BY <2>1, <2>3 DEF Valid
    <3>2. BrokenAt(records) \in misplaced /\ \A k \in misplaced : BrokenAt(records) <= k
      BY <2>0, <2>1, <3>1, BrokenAtIsFirst
    <3> QED
      BY <2>3, <3>1, <3>2 DEF RacesAreDetected, misplaced
  <2> QED
    BY <2>2, <2>3
<1> QED
  BY <1>1, TypeCorrect, InductiveInvariant, PTL

-----------------------------------------------------------------------------
(* Changes behind the chain's back.                                         *)

\* In a valid chain every record is in its place, linked and hashed.
LEMMA ValidRecords ==
  ASSUME NEW rs, Valid(rs), NEW k \in DOMAIN rs
  PROVE  /\ rs[k].sequence = k - 1
         /\ rs[k].previous_hash = IF k = 1 THEN Genesis ELSE rs[k - 1].record_hash
         /\ rs[k].record_hash = ComputedHash(rs[k])
<1>1. FaultAt(rs, k) = "none"
  BY DEF Valid, Faulty
<1> QED
  BY <1>1 DEF FaultAt

\* What verification says of a record depends on it and the one before it.
LEMMA FaultIsLocal ==
  ASSUME NEW rs, NEW new, NEW k \in Nat, new[k] = rs[k],
         k # 1 => new[k - 1] = rs[k - 1]
  PROVE  FaultAt(new, k) = FaultAt(rs, k)
BY Zenon DEF FaultAt, ComputedHash

\* A valid list that stays as it is before place i, and is faulty there, is
\* broken at i.
LEMMA BrokenAtTheChange ==
  ASSUME NEW rs, NEW n \in Nat, DOMAIN rs = 1 .. n, Valid(rs),
         NEW new, DOMAIN new = 1 .. n, NEW i \in 1 .. n,
         \A k \in 1 .. n : k < i => new[k] = rs[k],
         FaultAt(new, i) # "none"
  PROVE  ~Valid(new) /\ BrokenAt(new) = i
<1>1. i \in Faulty(new) /\ ~Valid(new)
  BY DEF Faulty, Valid
<1>2. ASSUME NEW k \in 1 .. n, k < i
      PROVE  k \notin Faulty(new)
  <2>1. k \in Nat /\ (k # 1 => k - 1 \in 1 .. n /\ k - 1 < i)
    BY <1>2
  <2>2. FaultAt(new, k) = FaultAt(rs, k)
    BY <1>2, <2>1, FaultIsLocal
  <2>3. FaultAt(rs, k) = "none"
    BY DEF Valid, Faulty
  <2> QED
    BY <2>2, <2>3 DEF Faulty
<1> DEFINE b == BrokenAt(new)
<1>3. b \in Faulty(new) /\ \A m \in Faulty(new) : b <= m
  BY <1>1, BrokenAtIsFirst
<1>4. b \in 1 .. n
  BY <1>3 DEF Faulty
<1> HIDE DEF b
<1>5. b = i
  BY <1>1, <1>2, <1>3, <1>4
<1> QED
  BY <1>1, <1>5 DEF b

\* A record of a valid chain with one field assigned anew fails a check where it
\* is: its number, its link, or its hash.
LEMMA EditIsAFault ==
  ASSUME NEW rs, NEW n \in Nat, DOMAIN rs = 1 .. n, Valid(rs),
         NEW i \in 1 .. n, WellFormed(rs[i]),
         NEW r \in Edited(rs[i]), r # rs[i],
         NEW new, new[i] = r, i # 1 => new[i - 1] = rs[i - 1]
  PROVE  FaultAt(new, i) # "none"
<1> DEFINE q == rs[i]
<1>1. /\ q.sequence = i - 1
      /\ q.previous_hash = IF i = 1 THEN Genesis ELSE rs[i - 1].record_hash
      /\ q.record_hash = ComputedHash(q)
  BY ValidRecords
<1>2. q = [sequence |-> q.sequence, previous_hash |-> q.previous_hash,
           content |-> q.content, record_hash |-> q.record_hash]
  BY DEF WellFormed
<1>3. r \in Edited(q) /\ r # q
  OBVIOUS
<1> HIDE DEF q
<1>4. CASE \E v : r = [q EXCEPT !.content = v]
  <2>1. PICK v : r = [q EXCEPT !.content = v]
    BY <1>4
  <2>2. /\ r.content # q.content /\ r.previous_hash = q.previous_hash
        /\ r.sequence = q.sequence /\ r.record_hash = q.record_hash
    BY <1>2, <1>3, <2>1
  <2>3. ComputedHash(r) # r.record_hash
    BY <1>1, <2>2 DEF ComputedHash, Hash
  <2> QED
    BY <2>3 DEF FaultAt
<1>5. CASE \E v : r = [q EXCEPT !.sequence = v]
  <2>1. r.sequence # q.sequence
    BY <1>2, <1>3, <1>5
  <2> QED
    BY <1>1, <2>1 DEF FaultAt
<1>6. CASE \E v : r = [q EXCEPT !.previous_hash = v]
  <2>1. r.previous_hash # q.previous_hash
    BY <1>2, <1>3, <1>6
  <2> QED
    BY <1>1, <2>1 DEF FaultAt
<1>7. CASE \E v : r = [q EXCEPT !.record_hash = v]
  <2>1. /\ r.record_hash # q.record_hash /\ r.previous_hash = q.previous_hash
        /\ r.sequence = q.sequence /\ r.content = q.content
    BY <1>2, <1>3, <1>7
  <2>2. ComputedHash(r) # r.record_hash
    BY <1>1, <2>1 DEF ComputedHash, Hash
  <2> QED
    BY <2>2 DEF FaultAt
<1> QED
  BY <1>3, <1>4, <1>5, <1>6, <1>7 DEF Edited

\* ChangesAreLocated: one field changed or two records exchanged in a chain that
\* verifies, however long, and verification stops at the first that differs.
THEOREM ChangesAreLocatedAlways == Spec => ChangesAreLocated
<1>1. ASSUME TypeOK, Next, Valid(records), changes' # changes
      PROVE  LET changed == {k \in DOMAIN records : records'[k] # records[k]}
             IN  /\ ~Valid(records')
                 /\ BrokenAt(records') \in changed
                 /\ \A k \in changed : BrokenAt(records') <= k
  <2> DEFINE changed == {k \in DOMAIN records : records'[k] # records[k]}
             n == Len(records)
  <2>1. /\ n \in Nat /\ DOMAIN records = 1 .. n
        /\ \A k \in 1 .. n : WellFormed(records[k])
    BY <1>1, AppendFacts DEF TypeOK, RecordList
  <2> HIDE DEF n
  <2>2. ASSUME NEW i \in 1 .. n, i \in changed, DOMAIN records' = 1 .. n,
               \A k \in 1 .. n : k < i => records'[k] = records[k],
               FaultAt(records', i) # "none"
        PROVE  /\ ~Valid(records')
               /\ BrokenAt(records') \in changed
               /\ \A k \in changed : BrokenAt(records') <= k
    <3>1. ~Valid(records') /\ BrokenAt(records') = i
      BY <1>1, <2>1, <2>2, BrokenAtTheChange
    <3>2. ASSUME NEW k \in changed
          PROVE  i <= k
      <4>1. k \in 1 .. n /\ ~(k < i)
        BY <2>1, <2>2
      <4> QED
        BY <4>1
    <3> QED
      BY <2>2, <3>1, <3>2
  <2>3. CASE \E i \in DOMAIN records : Edit(i)
    <3>1. PICK i \in 1 .. n : Edit(i)
      BY <2>1, <2>3
    <3>2. PICK r \in Edited(records[i]) \ {records[i]} :
            records' = [records EXCEPT ![i] = r]
      BY <3>1 DEF Edit
    <3>3. /\ DOMAIN records' = 1 .. n /\ records'[i] = r
          /\ \A k \in 1 .. n : k # i => records'[k] = records[k]
      BY <2>1, <3>2
    <3>4. i # 1 => records'[i - 1] = records[i - 1]
      <4>1. i # 1 => i - 1 \in 1 .. n /\ i - 1 # i
        BY <2>1
      <4> QED
        BY <3>3, <4>1
    <3>5. FaultAt(records', i) # "none"
      <4> DEFINE new == records'
      <4>1. /\ WellFormed(records[i]) /\ Valid(records)
            /\ r \in Edited(records[i]) /\ r # records[i]
        BY <1>1, <2>1, <3>2
      <4>2. /\ DOMAIN records = 1 .. n /\ n \in Nat /\ new[i] = r
            /\ (i # 1 => new[i - 1] = records[i - 1])
        BY <2>1, <3>3, <3>4
      <4> HIDE DEF new
      <4>3. FaultAt(new, i) # "none"
        BY <4>1, <4>2, EditIsAFault, Zenon
      <4> QED
        BY <4>3 DEF new
    <3>6. \A k \in 1 .. n : k < i => records'[k] = records[k]
      BY <2>1, <3>3
    <3>7. i \in changed
      BY <2>1, <3>2, <3>3
    <3> QED
      BY <2>2, <3>3, <3>5, <3>6, <3>7
  <2>4. CASE \E i, j \in DOMAIN records : i < j /\ Swap(i, j)
    <3>1. PICK i \in 1 .. n, j \in 1 .. n : i < j /\ Swap(i, j)
      BY <2>1, <2>4
    <3>2. /\ DOMAIN records' = 1 .. n /\ records'[i] = records[j]
          /\ \A k \in 1 .. n : k < i => records'[k] = records[k]
      BY <2>1, <3>1 DEF Swap
    <3>3. records[i].sequence = i - 1 /\ records[j].sequence = j - 1
      BY <1>1, <2>1, ValidRecords
    <3>4. i - 1 # j - 1
      BY <2>1, <3>1
    <3>5. FaultAt(records', i) # "none"
      BY <3>2, <3>3, <3>4 DEF FaultAt
    <3>6. i \in changed
      BY <2>1, <3>2, <3>3, <3>4
    <3> QED
      BY <2>2, <3>2, <3>5, <3>6
  <2> QED
    BY <1>1, <2>3, <2>4 DEF Next, ReadLength, ReadHead, Commit
<1>2. TypeOK /\ [Next]_vars =>
        [Valid(records) /\ changes' # changes =>
           LET changed == {k \in DOMAIN records : records'[k] # records[k]}
           IN  /\ ~Valid(records')
               /\ BrokenAt(records') \in changed
               /\ \A k \in changed : BrokenAt(records') <= k]_vars
  BY <1>1
<1> QED
  BY <1>2, TypeCorrect, PTL DEF Spec, ChangesAreLocated

-----------------------------------------------------------------------------
(* Rebuilding the chain.                                                    *)

\* The list serial appends leave after the first k contents of rs, when before
\* the last of them it was `before`.
Rebuilt(rs, before, k) ==
  Append(before, NewRecord(k - 1, IF k = 1 THEN Genesis ELSE before[k - 1].record_hash,
                           rs[k].content))

(* f rebuilds the chain of rs: f[k] is what the calls for its first k       *)
(* records leave.                                                           *)
IsBuilt(rs, n, f) ==
  f = [k \in 0 .. n |-> IF k = 0 THEN <<>> ELSE Rebuilt(rs, f[k - 1], k)]

(* There is such a rebuilding: if not, there is a least length without,     *)
(* and it extends the one before it.                                        *)
LEMMA BuiltExists ==
  ASSUME NEW rs, NEW n \in Nat
  PROVE  \E f : IsBuilt(rs, n, f)
<1> DEFINE Bad == {k \in Nat : ~ \E f : IsBuilt(rs, k, f)}
<1> SUFFICES ASSUME Bad # {} PROVE FALSE
  OBVIOUS
<1>1. PICK k \in Bad : \A m \in Bad : k <= m
  BY FirstExists
<1>2. CASE k = 0
  <2>1. PICK f : f = [j \in 0 .. 0 |-> <<>>]
    OBVIOUS
  <2>2. IsBuilt(rs, 0, f)
    BY <2>1 DEF IsBuilt
  <2> QED
    BY <1>1, <1>2, <2>2
<1>3. CASE k # 0
  <2>1. k \in Nat /\ k - 1 \in Nat /\ ~(k <= k - 1)
    BY <1>1, <1>3
  <2>2. PICK g : IsBuilt(rs, k - 1, g)
    BY <1>1, <2>1
  <2>3. PICK f : f = [j \in 0 .. k |-> IF j = k THEN Rebuilt(rs, g[k - 1], k) ELSE g[j]]
    OBVIOUS
  <2>4. g = [j \in 0 .. k - 1 |-> IF j = 0 THEN <<>> ELSE Rebuilt(rs, g[j - 1], j)]
    BY <2>2 DEF IsBuilt
  <2>5. ASSUME NEW j \in 0 .. k
        PROVE  f[j] = IF j = 0 THEN <<>> ELSE Rebuilt(rs, f[j - 1], j)
    <3>1. CASE j = k
      <4>1. j - 1 \in 0 .. k /\ j - 1 # k /\ j # 0
        BY <1>3, <2>1, <3>1
      <4>2. f[j - 1] = g[k - 1]
        BY <2>3, <3>1, <4>1
      <4> QED
        BY <2>3, <3>1, <4>1, <4>2
    <3>2. CASE j # k
      <4>1. j \in 0 .. k - 1 /\ (j # 0 => j - 1 \in 0 .. k /\ j - 1 # k)
        BY <2>1, <3>2
      <4>2. f[j] = g[j] /\ (j # 0 => f[j - 1] = g[j - 1])
        BY <2>3, <3>2, <4>1
      <4> QED
        BY <2>4, <4>1, <4>2
    <3> QED
      BY <3>1, <3>2
  <2>6. f = [j \in 0 .. k |-> f[j]]
    BY <2>3
  <2>7. IsBuilt(rs, k, f)
    BY <2>5, <2>6 DEF IsBuilt
  <2> QED
    BY <1>1, <2>7
<1> QED
  BY <1>2, <1>3

(* Serial is the end of the rebuilding.                                     *)
LEMMA SerialIs ==
  ASSUME NEW rs, Len(rs) \in Nat
  PROVE  \E f : IsBuilt(rs, Len(rs), f) /\ Serial(rs) = f[Len(rs)]
<1> DEFINE b == CHOOSE f : IsBuilt(rs, Len(rs), f)
<1>1. IsBuilt(rs, Len(rs), b)
  BY BuiltExists
<1>2. Serial(rs) = b[Len(rs)]
  BY DEF Serial, IsBuilt, Rebuilt
<1> QED
  BY <1>1, <1>2

\* A sequence, whatever its elements are.
IsList(s) == s \in Seq({s[m] : m \in DOMAIN s})

\* The record in place j of what f builds from the contents of rs.
SerialRecord(rs, f, j) ==
  NewRecord(j - 1, IF j = 1 THEN Genesis ELSE f[j - 1][j - 1].record_hash, rs[j].content)

\* What serial appends build: k records after k contents, the earlier ones where
\* and as they were, each numbered, linked and hashed for its place.
LEMMA BuiltRecords ==
  ASSUME NEW rs, NEW n \in Nat, NEW f, IsBuilt(rs, n, f), NEW k \in 0 .. n
  PROVE  /\ IsList(f[k]) /\ Len(f[k]) = k /\ DOMAIN f[k] = 1 .. k
         /\ \A j \in 1 .. k : f[k][j] = f[j][j] /\ f[j][j] = SerialRecord(rs, f, j)
<1> DEFINE last(j) == SerialRecord(rs, f, j)
           Good(i) == /\ IsList(f[i]) /\ Len(f[i]) = i /\ DOMAIN f[i] = 1 .. i
                      /\ \A j \in 1 .. i : f[i][j] = f[j][j] /\ f[j][j] = last(j)
           Bad == {i \in 0 .. n : ~Good(i)}
<1> SUFFICES ASSUME Bad # {} PROVE FALSE
  OBVIOUS
<1>1. PICK i \in Bad : \A m \in Bad : i <= m
  <2>1. Bad \in SUBSET Nat
    OBVIOUS
  <2> HIDE DEF Bad
  <2> QED
    BY <2>1, FirstExists
<1>2. f = [j \in 0 .. n |-> IF j = 0 THEN <<>> ELSE Rebuilt(rs, f[j - 1], j)]
  BY DEF IsBuilt
<1>3. CASE i = 0
  <2>1. f[0] = <<>>
    BY <1>2
  <2>2. PICK e : e = <<>>
    OBVIOUS
  <2>3. e \in Seq({e[m] : m \in DOMAIN e})
    BY <2>2
  <2>4. Len(e) = 0 /\ DOMAIN e = 1 .. 0 /\ 1 .. 0 = {}
    BY <2>2
  <2>5. Good(0)
    BY <2>1, <2>2, <2>3, <2>4 DEF IsList
  <2> QED
    BY <1>1, <1>3, <2>5
<1>4. CASE i # 0
  <2>1. i \in Nat /\ i \in 0 .. n /\ i - 1 \in 0 .. n /\ ~(i <= i - 1)
    BY <1>1, <1>4
  <2>2. Good(i - 1)
    BY <1>1, <2>1
  <2>3. PICK p : p = f[i - 1]
    OBVIOUS
  <2>4. /\ IsList(p) /\ Len(p) = i - 1 /\ DOMAIN p = 1 .. i - 1
        /\ \A j \in 1 .. i - 1 : p[j] = f[j][j] /\ f[j][j] = last(j)
    BY <2>2, <2>3, SMTT(60)
  <2>5. f[i] = Append(p, last(i))
    BY <1>2, <1>4, <2>1, <2>3 DEF Rebuilt, SerialRecord
  <2>6. PICK r : r = last(i)
    OBVIOUS
  <2> HIDE DEF last
  <2>7. PICK a : a = Append(p, r)
    OBVIOUS
  <2>8. /\ IsList(a) /\ Len(a) = Len(p) + 1
        /\ DOMAIN a = 1 .. Len(p) + 1 /\ \A m \in DOMAIN p : a[m] = p[m]
        /\ a[Len(p) + 1] = r
    BY <2>4, <2>7, AppendFacts DEF IsList
  <2>9. f[i] = a
    BY <2>5, <2>6, <2>7
  <2>10. Len(a) = i /\ DOMAIN a = 1 .. i /\ a[i] = r
    BY <2>1, <2>4, <2>8
  <2>11. ASSUME NEW j \in 1 .. i
         PROVE  f[i][j] = f[j][j] /\ f[j][j] = last(j)
    <3>1. CASE j = i
      BY <2>6, <2>9, <2>10, <3>1
    <3>2. CASE j # i
      <4>1. j \in 1 .. i - 1
        BY <2>1, <3>2
      <4> QED
        BY <2>4, <2>8, <2>9, <4>1
    <3> QED
      BY <3>1, <3>2
  <2>12. Good(i)
    BY <2>8, <2>9, <2>10, <2>11
  <2> QED
    BY <1>1, <2>12
<1> QED
  BY <1>3, <1>4

\* A list that verifies is the list its contents build, record by record.
LEMMA ValidIsBuilt ==
  ASSUME NEW rs, NEW n \in Nat, DOMAIN rs = 1 .. n, Valid(rs),
         \A k \in 1 .. n : WellFormed(rs[k]),
         NEW f, IsBuilt(rs, n, f), NEW k \in 1 .. n
  PROVE  rs[k] = f[k][k]
<1> DEFINE Bad == {j \in 1 .. n : rs[j] # f[j][j]}
<1> SUFFICES ASSUME Bad # {} PROVE FALSE
  OBVIOUS
<1>1. PICK j \in Bad : \A m \in Bad : j <= m
  <2>1. Bad \in SUBSET Nat
    OBVIOUS
  <2> HIDE DEF Bad
  <2> QED
    BY <2>1, FirstExists
<1>2. /\ j \in 1 .. n /\ rs[j] # f[j][j]
      /\ j # 1 => j - 1 \in 1 .. n /\ ~(j <= j - 1)
  BY <1>1
<1>3. j # 1 => rs[j - 1] = f[j - 1][j - 1]
  BY <1>1, <1>2
<1>4. f[j][j] = SerialRecord(rs, f, j)
  <2>1. j \in 0 .. n /\ j \in 1 .. j
    BY <1>2
  <2> QED
    BY <2>1, BuiltRecords
<1>5. /\ rs[j].sequence = j - 1
      /\ rs[j].previous_hash = IF j = 1 THEN Genesis ELSE rs[j - 1].record_hash
      /\ rs[j].record_hash = ComputedHash(rs[j])
  BY <1>2, ValidRecords
<1>6. WellFormed(rs[j])
  BY <1>2
<1>7. rs[j] = NewRecord(j - 1, IF j = 1 THEN Genesis ELSE rs[j - 1].record_hash,
                        rs[j].content)
  BY <1>5, <1>6 DEF WellFormed, NewRecord, ComputedHash
<1> QED
  BY <1>2, <1>3, <1>4, <1>7 DEF SerialRecord

\* ValidMeansSerial holds of every chain, tampered with or not: verify_chain's
\* local checks accept exactly what appending one after the other builds.
THEOREM ValidMeansSerialAlways == Spec => []ValidMeansSerial
<1>1. TypeOK => ValidMeansSerial
  <2> SUFFICES ASSUME RecordList(records)
               PROVE  Valid(records) <=> records = Serial(records)
    BY DEF TypeOK, ValidMeansSerial
  <2>1. PICK rs : rs = records
    OBVIOUS
  <2>2. PICK n : n = Len(rs)
    OBVIOUS
  <2>3. /\ IsList(rs) /\ n \in Nat /\ DOMAIN rs = 1 .. n
        /\ \A k \in 1 .. n : WellFormed(rs[k])
    BY <2>1, <2>2, AppendFacts DEF RecordList, IsList
  <2>4. PICK f : IsBuilt(rs, n, f) /\ Serial(rs) = f[n]
    BY <2>2, <2>3, SerialIs
  <2>5. /\ IsList(f[n]) /\ Len(f[n]) = n /\ DOMAIN f[n] = 1 .. n
        /\ \A j \in 1 .. n : f[n][j] = f[j][j] /\ f[j][j] = SerialRecord(rs, f, j)
    <3>1. n \in 0 .. n
      BY <2>3
    <3> QED
      BY <2>3, <2>4, <3>1, BuiltRecords
  <2>6. ASSUME Valid(rs) PROVE rs = f[n]
    <3>1. \A k \in 1 .. n : rs[k] = f[k][k]
      BY <2>3, <2>4, <2>6, ValidIsBuilt
    <3>2. \A k \in 1 .. n : rs[k] = f[n][k]
      BY <2>5, <3>1
    <3>3. \A s : IsList(s) => s = [k \in 1 .. Len(s) |-> s[k]]
      BY DEF IsList
    <3> QED
      BY <2>2, <2>3, <2>5, <3>2, <3>3
  <2>7. ASSUME rs = f[n] PROVE Valid(rs)
    <3>1. ASSUME NEW k \in 1 .. n
          PROVE  FaultAt(rs, k) = "none"
      <4>1. k # 1 => k - 1 \in 1 .. n
        BY <2>3
      <4>2. k # 1 => f[k - 1][k - 1] = rs[k - 1]
        BY <2>5, <2>7, <4>1
      <4>3. rs[k] = NewRecord(k - 1, IF k = 1 THEN Genesis ELSE rs[k - 1].record_hash,
                              rs[k].content)
        BY <2>5, <2>7, <4>2 DEF SerialRecord
      <4> QED
        BY <4>3 DEF FaultAt, NewRecord, ComputedHash
    <3> QED
      BY <2>3, <3>1 DEF Valid, Faulty
  <2> QED
    BY <2>1, <2>4, <2>6, <2>7
<1> QED
  BY <1>1, TypeCorrect, PTL

=============================================================================
