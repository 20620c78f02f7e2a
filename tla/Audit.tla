-------------------------------- MODULE Audit ---------------------------------
(* AuditLogManager of src/src/audit.py: records chained by hashes, and         *)
(* verify_integrity, which recomputes them.                                    *)
(*                                                                             *)
(* SHA-256 is taken to be free of collisions: the hash of a record is the      *)
(* sequence of all contents hashed into it, its own last.  The content of a    *)
(* record is its serial number (uuid4 gives each another id) and its details;  *)
(* actor, action and the rest are part of them.  The details remain the dict   *)
(* of the caller, who may change it later; whoever gets at _records may also   *)
(* remove records or change their order.  What listeners do inside             *)
(* record_event is in AuditBus.                                                *)
EXTENDS Naturals, Sequences

CONSTANTS
  Details,
  MaxRecords    \* bound: records since the last clear()

\* What the constants are, assumed by the modules that use this one.
AuditAssumption == MaxRecords \in Nat

VARIABLES
  auditRecords,    \* _records
  lastHash,        \* _last_hash
  recorded         \* the contents that record_event was given since the last clear()

auditVars == <<auditRecords, lastHash, recorded>>

Content == [serial : Nat, details : Details]

\* "0" * 64
Genesis == <<>>

Hash(content, previous) == Append(previous, content)

Init ==
  /\ auditRecords = <<>>
  /\ lastHash = Genesis
  /\ recorded = <<>>

-------------------------------------------------------------------------------
(* record_event, clear                                                         *)

Previous == lastHash

Chained(content) == [content |-> content, previous |-> Previous, hash |-> Hash(content, Previous)]

Record(d) ==
  /\ Len(recorded) < MaxRecords
  /\ LET record == Chained([serial |-> Len(recorded) + 1, details |-> d])
     IN  /\ auditRecords' = Append(auditRecords, record)
         /\ lastHash' = record.hash
         /\ recorded' = Append(recorded, record.content)

Clear ==
  /\ auditRecords' = <<>>
  /\ lastHash' = Genesis
  /\ recorded' = <<>>

-------------------------------------------------------------------------------
(* What others do to the records                                               *)

\* The caller of record_event changes the dict it passed.
ChangeDetails(i, d) ==
  /\ auditRecords[i].content.details # d
  /\ auditRecords' = [auditRecords EXCEPT ![i].content.details = d]
  /\ UNCHANGED <<lastHash, recorded>>

Remove(i) ==
  /\ auditRecords' = SubSeq(auditRecords, 1, i - 1) \o SubSeq(auditRecords, i + 1, Len(auditRecords))
  /\ UNCHANGED <<lastHash, recorded>>

Swap(i) ==
  /\ i < Len(auditRecords)
  /\ auditRecords' = [auditRecords EXCEPT ![i] = auditRecords[i + 1], ![i + 1] = auditRecords[i]]
  /\ UNCHANGED <<lastHash, recorded>>

Tamper ==
  \E i \in 1..Len(auditRecords) :
    \/ \E d \in Details : ChangeDetails(i, d)
    \/ Remove(i)
    \/ Swap(i)

-------------------------------------------------------------------------------
(* verify_integrity                                                            *)

\* Mutant: the recomputed hash is all that is compared.
AnyPrevious(i) == auditRecords[i].previous

ExpectedPrevious(i) == IF i = 1 THEN Genesis ELSE auditRecords[i - 1].hash

Valid ==
  \A i \in 1..Len(auditRecords) :
    LET record == auditRecords[i] IN
    /\ record.previous = ExpectedPrevious(i)
    /\ record.hash = Hash(record.content, record.previous)

-------------------------------------------------------------------------------
Contents == [i \in 1..Len(auditRecords) |-> auditRecords[i].content]

TypeOK ==
  /\ recorded \in Seq(Content)
  /\ lastHash \in Seq(Content)
  /\ auditRecords \in Seq([content : Content, previous : Seq(Content), hash : Seq(Content)])

\* "tamper-evident cryptographic hash chaining" (audit.py:2): verify_integrity finds
\* the trail valid exactly when it is what was recorded, as far as it goes: changed
\* details, records that are missing inside and records in another order are found.
\* Records cut off at the end are found only once another event is recorded.
ValidIsPrefix ==
  Valid <=> /\ Len(Contents) <= Len(recorded)
            /\ Contents = SubSeq(recorded, 1, Len(Contents))
===============================================================================
