--------------------------- MODULE EngineContract ---------------------------
(***************************************************************************)
(* The envelope of a reasoning invocation                                  *)
(* (packages/s3m_engine_contract: packet.py, routing.py, determinism.py,   *)
(* refusal.py): what a packet hashes to, where it is routed, which         *)
(* versions a card is pinned to, and the fingerprint the audit record      *)
(* carries.                                                                *)
(*                                                                         *)
(* A packet is an ordinary mutable object: its hash may be written onto    *)
(* it, and it may be changed before or after that.  No orchestrator exists *)
(* in this code base yet: that packets are stamped, changed and recorded,  *)
(* and when, is its doing.  The caller here may stamp, change, refuse,     *)
(* advise and record in any order.  SHA-256 is taken to be injective: a    *)
(* digest is what was hashed.  What a card says is the business of         *)
(* GroundingGate; enforce copies the fields kept here unchanged.           *)
(***************************************************************************)
EXTENDS Naturals, Sequences, FiniteSets

CONSTANTS
  Contents,    \* what packets may hold: class, urgency, and the rest
  Configs,     \* the engine configurations a caller may try
  MaxRecords,  \* bound: audit records written
  NoHash,      \* the empty packet_hash
  NoContent,   \* no packet_hash has been written
  NoVersion,   \* a version the configuration does not give
  NoCard

PacketClass ==
  {"LIVE_STATE", "ALARM_TRIAGE", "ANOMALY_INVESTIGATION", "POWER_QUALITY_EVENT",
   "ASSET_CONDITION", "MAINTENANCE_PLANNING", "ENERGY_ANALYSIS",
   "RESILIENCE_SCENARIO", "ROOT_CAUSE", "EXECUTIVE_SUMMARY", "OPERATOR_QUERY"}

Urgency == {"ROUTINE", "ELEVATED", "URGENT", "IMMEDIATE"}

ASSUME ContractAssumption ==
  /\ \A c \in Contents : c.class \in PacketClass /\ c.urgency \in Urgency
  /\ NoContent \notin Contents
  /\ \A c \in Configs : c.prompt \in Seq(STRING) \cup {NoVersion}
                       /\ c.model \in Seq(STRING) \cup {NoVersion}
  /\ MaxRecords \in Nat

VARIABLES
  content,    \* of the packet, all but packet_hash
  stamp,      \* packet.packet_hash
  stampedFor, \* the content packet_hash was computed of
  card,       \* the card in hand, with the packet content it was built from
  records     \* the audit records written so far, whatever their order

vars == <<content, stamp, stampedFor, card, records>>

-----------------------------------------------------------------------------
(* Routing.                                                                 *)

Escalating == {"URGENT", "IMMEDIATE"}

EscalatesToTactical == {"ANOMALY_INVESTIGATION", "ASSET_CONDITION", "ROOT_CAUSE"}

\* _BASE_RULES, without their rationales.
BaseRule(class) ==
  CASE class \in {"LIVE_STATE", "ALARM_TRIAGE", "POWER_QUALITY_EVENT"} ->
         [engine |-> "TACTICAL", rule |-> "R1"]
    [] class \in EscalatesToTactical ->
         [engine |-> "REASONING", rule |-> "R2"]
    [] class \in {"MAINTENANCE_PLANNING", "ENERGY_ANALYSIS", "RESILIENCE_SCENARIO"} ->
         [engine |-> "PLANNING", rule |-> "R3"]
    [] OTHER -> [engine |-> "BILINGUAL", rule |-> "R4"]

\* One entry of ROUTING_TABLE.
Route(c) ==
  IF c.class \in EscalatesToTactical /\ c.urgency \in Escalating
    THEN [engine |-> "TACTICAL", rule |-> "R5"]
    ELSE BaseRule(c.class)

-----------------------------------------------------------------------------
(* Hashes and fingerprints.                                                 *)

PacketHashWithItself(c, s) == <<c, s>>

\* compute_packet_hash: canonical JSON of everything but the hash field.
PacketHash(c, s) == c

\* "\x1f", which Python's str.strip() takes for blank; a version is a sequence
\* of characters, of which only this one is told from the others.
Delimiter == "US"

JoinedWithoutDelimiter(hash, prompt, model, engine) ==
  <<"s3m-invocation-v1", hash>> \o prompt \o model \o <<engine>>

\* invocation_fingerprint.
Joined(hash, prompt, model, engine) ==
  <<"s3m-invocation-v1", Delimiter, hash, Delimiter>>
    \o prompt \o <<Delimiter>> \o model \o <<Delimiter, engine>>

NonBlank(version) ==
  version # NoVersion /\ \E k \in DOMAIN version : version[k] # Delimiter

\* assert_deterministic_config does not raise.
Pinned(config) ==
  /\ config.temperature = 0
  /\ config.top_p = 100
  /\ NonBlank(config.model) /\ NonBlank(config.prompt)

-----------------------------------------------------------------------------

Init ==
  /\ content \in Contents
  /\ stamp = NoHash /\ stampedFor = NoContent
  /\ card = NoCard
  /\ records = {}

\* The caller: packet.packet_hash = compute_packet_hash(packet).
Stamp ==
  /\ stamp' = PacketHash(content, stamp)
  /\ stampedFor' = content
  /\ UNCHANGED <<content, card, records>>

\* The caller: a field is assigned or a list appended to, and nothing in the
\* packet touches packet_hash.
Amend ==
  /\ content' \in Contents \ {content}
  /\ UNCHANGED <<stamp, stampedFor, card, records>>

NewCard(hash, prompt, model) ==
  [about |-> content, fresh |-> stampedFor \in {NoContent, content},
   hash |-> hash, decision |-> Route(content), prompt |-> prompt, model |-> model]

\* insufficient_data_card: a hash that is already there is taken as it is.
Refuse ==
  /\ card' = NewCard(IF stamp # NoHash THEN stamp ELSE PacketHash(content, stamp),
                     <<"none">>, <<"none">>)
  /\ UNCHANGED <<content, stamp, stampedFor, records>>

\* An engine under a configuration that has been asserted; any other is refused
\* with ValueError and there is no card.
Advise ==
  /\ \E config \in {c \in Configs : Pinned(c)} :
       card' = NewCard(PacketHash(content, stamp), config.prompt, config.model)
  /\ UNCHANGED <<content, stamp, stampedFor, records>>

\* What the caller hands to append: append computes no fingerprint of its own.
RecordOf(c) ==
  [about |-> c.about, fresh |-> c.fresh,
   hash |-> c.hash, decision |-> c.decision, prompt |-> c.prompt, model |-> c.model,
   fingerprint |-> Joined(c.hash, c.prompt, c.model, c.decision.engine)]

\* The card is recorded with the fingerprint of its invocation.
Record ==
  /\ card # NoCard /\ Cardinality(records) < MaxRecords
  /\ records' = records \cup {RecordOf(card)}
  /\ card' = NoCard
  /\ UNCHANGED <<content, stamp, stampedFor>>

Next == Stamp \/ Amend \/ Refuse \/ Advise \/ Record

Spec == Init /\ [][Next]_vars

-----------------------------------------------------------------------------
(* Properties.                                                              *)

SameInputs(r, s) == r.about = s.about /\ r.prompt = s.prompt /\ r.model = s.model

\* A refusal of a packet that was changed after its hash was written onto it.
Outdated(r) == ~r.fresh /\ r.prompt = <<"none">> /\ r.model = <<"none">>

\* "The same packet, prompt template and model version must always yield the
\* same routing" (determinism.py:3-4), and "identical inputs share a fingerprint"
\* (determinism.py:33-35), whether or when the packet's hash was written onto
\* it.  An outdated hash gets no further than the refusals that take it over
\* (refusal.py:44): it is in no other record, and it misroutes none.
SameInputsSameRecord ==
  \A r, s \in records :
    SameInputs(r, s) =>
      /\ r.decision = s.decision
      /\ \/ r.hash = s.hash /\ r.fingerprint = s.fingerprint
         \/ Outdated(r) \/ Outdated(s)

Occurs(version) == \E k \in DOMAIN version : version[k] = Delimiter

\* One fingerprint, one invocation, where no hash was outdated: the packets are
\* the same, and so are the versions, unless both differ and one of them contains
\* the delimiter itself.
FingerprintsTellApart ==
  \A r, s \in records :
    ~Outdated(r) /\ ~Outdated(s) /\ r.fingerprint = s.fingerprint =>
      /\ r.about = s.about
      /\ \/ SameInputs(r, s)
         \/ /\ r.prompt # s.prompt /\ r.model # s.model
            /\ \E v \in {r.prompt, s.prompt, r.model, s.model} : Occurs(v)

=============================================================================
