----------------------------- MODULE AuditChain -----------------------------
(***************************************************************************)
(* The hash-linked audit chain of packages/s3m_engine_contract/audit.py.   *)
(*                                                                         *)
(* append reads the length of the list, then the hash of its last record,  *)
(* then appends; it holds no lock, and the module says of itself that it   *)
(* is "not concurrency-safe".  Each read is a step of its own here and     *)
(* several callers may be inside append at once.  The records it returns   *)
(* are the ones in the list and stay mutable, and the list can be reached, *)
(* as test_audit.py does: Edit and Swap are those two.                     *)
(*                                                                         *)
(* SHA-256 is taken to be injective: a hash is the tuple of what it was    *)
(* computed from.  A record's position is its index in the Python list     *)
(* plus one; `sequence` counts from 0 as the code does.                    *)
(***************************************************************************)
EXTENDS Naturals, Sequences

CONSTANTS
  Caller,      \* the threads that may be inside append
  Content,     \* what a record commits to besides its place in the chain
  Genesis,     \* GENESIS_HASH
  MaxRecords,  \* bound: appends
  MaxChanges   \* bound: edits and swaps

ASSUME ChainAssumption == MaxRecords \in Nat /\ MaxChanges \in Nat

VARIABLES
  records,   \* self._records
  pc,        \* where each caller is in append
  sequence,  \* the length each caller inside append has read
  previous,  \* the head hash each caller inside append has read
  changes    \* how many records have been changed behind the chain's back

vars == <<records, pc, sequence, previous, changes>>

Hash(prev, seq, content) == <<prev, seq, content>>

\* compute_hash: from the fields a record has now.
ComputedHash(r) == Hash(r.previous_hash, r.sequence, r.content)

\* head_hash of the first k records: the hash the last of them stores.
HeadHash(k) == IF k = 0 THEN Genesis ELSE records[k].record_hash

NewRecord(seq, prev, content) ==
  [sequence |-> seq, previous_hash |-> prev, content |-> content,
   record_hash |-> Hash(prev, seq, content)]

Init ==
  /\ records = <<>>
  /\ pc = [c \in Caller |-> "idle"]
  /\ sequence = [c \in Caller |-> 0]
  /\ previous = [c \in Caller |-> Genesis]
  /\ changes = 0

-----------------------------------------------------------------------------
(* append.                                                                  *)

\* `sequence=len(self._records)`
ReadLength(c) ==
  /\ pc[c] = "idle"
  /\ Len(records) < MaxRecords
  /\ pc' = [pc EXCEPT ![c] = "length read"]
  /\ sequence' = [sequence EXCEPT ![c] = Len(records)]
  /\ UNCHANGED <<records, previous, changes>>

\* `previous_hash=self.head_hash`
ReadHead(c) ==
  /\ pc[c] = "length read"
  /\ pc' = [pc EXCEPT ![c] = "head read"]
  /\ previous' = [previous EXCEPT ![c] = HeadHash(Len(records))]
  /\ UNCHANGED <<records, sequence, changes>>

CommitAtItsPlace(c) ==
  /\ pc[c] = "head read"
  /\ \E content \in Content :
       records' = Append(records, NewRecord(Len(records), previous[c], content))
  /\ pc' = [pc EXCEPT ![c] = "idle"]
  /\ UNCHANGED <<sequence, previous, changes>>

\* The hash is computed on the caller's own record; the append is atomic.
Commit(c) ==
  /\ pc[c] = "head read"
  /\ \E content \in Content :
       records' = Append(records, NewRecord(sequence[c], previous[c], content))
  /\ pc' = [pc EXCEPT ![c] = "idle"]
  /\ UNCHANGED <<sequence, previous, changes>>

-----------------------------------------------------------------------------
(* What happens to records behind the chain's back.                         *)

StoredHashes == {Genesis} \cup {records[k].record_hash : k \in DOMAIN records}

\* One field of one record as a holder of the record may assign it.
Edited(r) ==
  {[r EXCEPT !.content = v] : v \in Content}
    \cup {[r EXCEPT !.sequence = n] : n \in 0 .. MaxRecords}
    \cup {[r EXCEPT !.previous_hash = h] : h \in StoredHashes}
    \cup {[r EXCEPT !.record_hash = h] : h \in StoredHashes}

Edit(i) ==
  /\ changes < MaxChanges
  /\ \E r \in Edited(records[i]) \ {records[i]} :
       records' = [records EXCEPT ![i] = r]
  /\ changes' = changes + 1
  /\ UNCHANGED <<pc, sequence, previous>>

\* Two records of the list exchanged: the chain has no operation for it, its
\* surroundings reach into the list, as packages/tests/test_audit.py:58-62 does.
Swap(i, j) ==
  /\ changes < MaxChanges
  /\ records' = [records EXCEPT ![i] = records[j], ![j] = records[i]]
  /\ changes' = changes + 1
  /\ UNCHANGED <<pc, sequence, previous>>

Next ==
  \/ \E c \in Caller : ReadLength(c) \/ ReadHead(c) \/ Commit(c)
  \/ \E i \in DOMAIN records : Edit(i)
  \/ \E i, j \in DOMAIN records : i < j /\ Swap(i, j)

Spec == Init /\ [][Next]_vars

-----------------------------------------------------------------------------
(* verify_chain.                                                            *)

FaultAtHeadOnly(rs, k) ==
  IF k # Len(rs) \/ ComputedHash(rs[k]) = rs[k].record_hash THEN "none" ELSE "tampered"

FaultAtUnlinked(rs, k) ==
  IF rs[k].sequence # k - 1 THEN "reordered"
  ELSE IF ComputedHash(rs[k]) # rs[k].record_hash THEN "tampered"
  ELSE "none"

FaultAtUnhashed(rs, k) ==
  IF rs[k].sequence # k - 1 THEN "reordered"
  ELSE IF rs[k].previous_hash # (IF k = 1 THEN Genesis ELSE rs[k - 1].record_hash)
    THEN "unlinked"
  ELSE "none"

\* The first check that record k of the list rs fails.
FaultAt(rs, k) ==
  IF rs[k].sequence # k - 1 THEN "reordered"
  ELSE IF rs[k].previous_hash # (IF k = 1 THEN Genesis ELSE rs[k - 1].record_hash)
    THEN "unlinked"
  ELSE IF ComputedHash(rs[k]) # rs[k].record_hash THEN "tampered"
  ELSE "none"

Faulty(rs) == {k \in DOMAIN rs : FaultAt(rs, k) # "none"}

Valid(rs) == Faulty(rs) = {}

\* broken_at, for a chain that is not valid (the position, not the index).
BrokenAt(rs) == CHOOSE k \in Faulty(rs) : \A m \in Faulty(rs) : k <= m

-----------------------------------------------------------------------------
(* Properties.                                                              *)

WellFormed(r) ==
  /\ r = [sequence |-> r.sequence, previous_hash |-> r.previous_hash,
          content |-> r.content, record_hash |-> r.record_hash]
  /\ r.sequence \in Nat /\ r.content \in Content

RecordList(rs) ==
  /\ rs \in Seq({rs[k] : k \in DOMAIN rs})
  /\ \A k \in DOMAIN rs : WellFormed(rs[k])

\* Types; and no caller has read a length the list has not had.
TypeOK ==
  /\ RecordList(records)
  /\ pc \in [Caller -> {"idle", "length read", "head read"}]
  /\ sequence \in [Caller -> 0 .. Len(records)]
  /\ DOMAIN previous = Caller
  /\ changes \in 0 .. MaxChanges

\* Why overlapping appends cannot escape verification while nobody changes a
\* record: every record carries its own hash; a record in its place is linked;
\* and a caller whose length is still the list's has the list's head hash.
IInv ==
  changes = 0 =>
    /\ \A k \in DOMAIN records :
         /\ records[k].record_hash = ComputedHash(records[k])
         /\ records[k].sequence = k - 1 => records[k].previous_hash = HeadHash(k - 1)
    /\ \A c \in Caller :
         pc[c] = "head read" /\ sequence[c] = Len(records)
           => previous[c] = HeadHash(Len(records))

\* The list that appending the same contents one after the other would give.
Serial(rs) ==
  LET built[k \in 0 .. Len(rs)] ==
        IF k = 0 THEN <<>>
        ELSE LET prev == IF k = 1 THEN Genesis ELSE built[k - 1][k - 1].record_hash
             IN  Append(built[k - 1], NewRecord(k - 1, prev, rs[k].content))
  IN  built[Len(rs)]

\* verify_chain accepts a list exactly when it is one that serial appends could
\* have built: its three checks per record, each against its neighbour only, are
\* together as strong as rebuilding the whole chain (audit.py:155-192).
ValidMeansSerial == Valid(records) <=> records = Serial(records)

\* Appends that overlap are never accepted silently, and appends that do not are
\* never refused: a chain nobody changed is valid iff every record got the
\* sequence number of the place it landed in, and the first that did not is
\* where verification stops.  A stale head never comes with a fresh length,
\* because the length is read first (audit.py:135-136).
RacesAreDetected ==
  changes = 0 =>
    LET misplaced == {k \in DOMAIN records : records[k].sequence # k - 1}
    IN  IF misplaced = {} THEN Valid(records)
        ELSE /\ ~Valid(records)
             /\ BrokenAt(records) \in misplaced
             /\ \A k \in misplaced : BrokenAt(records) <= k

\* Once broken, a chain stays broken at the same place whatever is appended to
\* it: later records never hide an earlier fault.
AppendsRepairNothing ==
  [][~Valid(records) /\ changes' = changes =>
       ~Valid(records') /\ BrokenAt(records') = BrokenAt(records)]_vars

\* "Any later edit or reordering breaks the chain and is detected"
\* (audit.py:4-6): one field changed, or two records exchanged, in a valid chain
\* and verification fails at the first record that is not what it was.
ChangesAreLocated ==
  [][Valid(records) /\ changes' # changes =>
       LET changed == {k \in DOMAIN records : records'[k] # records[k]}
       IN  /\ ~Valid(records')
           /\ BrokenAt(records') \in changed
           /\ \A k \in changed : BrokenAt(records') <= k]_vars

=============================================================================
