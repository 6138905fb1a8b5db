------------------------ MODULE EngineContract_proofs ------------------------
(***************************************************************************)
(* Proofs about hashes, routes and fingerprints: for any packets, any      *)
(* configurations and any order of stamping, changing, refusing, advising  *)
(* and recording; and about the start of the service they are built for.   *)
(***************************************************************************)
EXTENDS EngineContract, ServiceStartup, TLAPS, SequenceTheorems

-----------------------------------------------------------------------------
(* What is joined.                                                          *)

\* Where the elements of two sequences are found in their concatenation.
LEMMA ConcatAt ==
  ASSUME NEW S, NEW s \in Seq(S), NEW t \in Seq(S)
  PROVE  /\ s \o t \in Seq(S) /\ Len(s \o t) = Len(s) + Len(t)
         /\ \A i \in 1 .. Len(s) : (s \o t)[i] = s[i]
         /\ \A i \in 1 .. Len(t) : (s \o t)[Len(s) + i] = t[i]
<1>1. /\ s \o t \in Seq(S) /\ Len(s \o t) = Len(s) + Len(t)
      /\ \A i \in 1 .. Len(s) + Len(t) :
           (s \o t)[i] = IF i <= Len(s) THEN s[i] ELSE t[i - Len(s)]
  BY ConcatProperties
<1>2. ASSUME NEW i \in 1 .. Len(s)
      PROVE  (s \o t)[i] = s[i]
  <2>1. i \in 1 .. Len(s) + Len(t) /\ i <= Len(s)
    OBVIOUS
  <2> QED
    BY <1>1, <2>1
<1>3. ASSUME NEW i \in 1 .. Len(t)
      PROVE  (s \o t)[Len(s) + i] = t[i]
  <2>1. /\ Len(s) + i \in 1 .. Len(s) + Len(t)
        /\ ~(Len(s) + i <= Len(s)) /\ (Len(s) + i) - Len(s) = i
    OBVIOUS
  <2> QED
    BY <1>1, <2>1
<1> QED
  BY <1>1, <1>2, <1>3

\* J lays out A, p, M, m and something of length z, in this order.
LaidOut(J, A, p, M, m, z) ==
  /\ Len(J) = Len(A) + Len(p) + Len(M) + Len(m) + z
  /\ \A i \in 1 .. Len(A) : J[i] = A[i]
  /\ \A i \in 1 .. Len(p) : J[Len(A) + i] = p[i]
  /\ \A i \in 1 .. Len(M) : J[Len(A) + Len(p) + i] = M[i]
  /\ \A i \in 1 .. Len(m) : J[Len(A) + Len(p) + Len(M) + i] = m[i]

\* Where the elements of five concatenated sequences are found.
LEMMA JoinAt ==
  ASSUME NEW S, NEW A \in Seq(S), NEW p \in Seq(S), NEW M \in Seq(S),
         NEW m \in Seq(S), NEW E \in Seq(S)
  PROVE  LaidOut(A \o p \o M \o m \o E, A, p, M, m, Len(E))
<1> DEFINE B == A \o p
           C == B \o M
           D == C \o m
           J == D \o E
<1>0. /\ Len(A) \in Nat /\ Len(p) \in Nat /\ Len(M) \in Nat
      /\ Len(m) \in Nat /\ Len(E) \in Nat
  OBVIOUS
<1>1. B \in Seq(S)
  OBVIOUS
<1>2. /\ Len(B) = Len(A) + Len(p)
      /\ \A i \in 1 .. Len(A) : B[i] = A[i]
      /\ \A i \in 1 .. Len(p) : B[Len(A) + i] = p[i]
  BY ConcatAt
<1> HIDE DEF B
<1>3. C \in Seq(S)
  BY <1>1
<1>4. /\ Len(C) = Len(B) + Len(M)
      /\ \A i \in 1 .. Len(B) : C[i] = B[i]
      /\ \A i \in 1 .. Len(M) : C[Len(B) + i] = M[i]
  BY <1>1, ConcatAt
<1> HIDE DEF C
<1>5. D \in Seq(S)
  BY <1>3
<1>6. /\ Len(D) = Len(C) + Len(m)
      /\ \A i \in 1 .. Len(C) : D[i] = C[i]
      /\ \A i \in 1 .. Len(m) : D[Len(C) + i] = m[i]
  BY <1>3, ConcatAt
<1> HIDE DEF D
<1>7. J = A \o p \o M \o m \o E
  BY DEF B, C, D
<1>8. /\ Len(J) = Len(D) + Len(E)
      /\ \A i \in 1 .. Len(D) : J[i] = D[i]
  BY <1>5, ConcatAt
<1> HIDE DEF J
<1>9. ASSUME NEW i \in 1 .. Len(A)
      PROVE  J[i] = A[i]
  <2>1. i \in 1 .. Len(B) /\ i \in 1 .. Len(C) /\ i \in 1 .. Len(D)
    BY <1>0, <1>2, <1>4, <1>6
  <2> QED
    BY <2>1, <1>2, <1>4, <1>6, <1>8
<1>10. ASSUME NEW i \in 1 .. Len(p)
       PROVE  J[Len(A) + i] = p[i]
  <2>1. /\ Len(A) + i \in 1 .. Len(B) /\ Len(A) + i \in 1 .. Len(C)
        /\ Len(A) + i \in 1 .. Len(D)
    BY <1>0, <1>2, <1>4, <1>6
  <2> QED
    BY <2>1, <1>2, <1>4, <1>6, <1>8
<1>11. ASSUME NEW i \in 1 .. Len(M)
       PROVE  J[Len(A) + Len(p) + i] = M[i]
  <2>1. Len(B) + i \in 1 .. Len(C) /\ Len(B) + i \in 1 .. Len(D)
    BY <1>0, <1>2, <1>4, <1>6
  <2> QED
    BY <2>1, <1>2, <1>4, <1>6, <1>8
<1>12. ASSUME NEW i \in 1 .. Len(m)
       PROVE  J[Len(A) + Len(p) + Len(M) + i] = m[i]
  <2>1. Len(C) + i \in 1 .. Len(D)
    BY <1>0, <1>2, <1>4, <1>6
  <2> QED
    BY <2>1, <1>2, <1>4, <1>6, <1>8
<1>13. Len(J) = Len(A) + Len(p) + Len(M) + Len(m) + Len(E)
  BY <1>2, <1>4, <1>6, <1>8
<1> QED
  BY <1>7, <1>9, <1>10, <1>11, <1>12, <1>13 DEF LaidOut

\* J holds the hash and the two versions, with a delimiter between them.
Parts(J, h, p, m) ==
  /\ Len(J) = 4 + Len(p) + 1 + Len(m) + 2
  /\ J[3] = h
  /\ \A i \in 1 .. Len(p) : J[4 + i] = p[i]
  /\ J[4 + Len(p) + 1] = Delimiter
  /\ \A i \in 1 .. Len(m) : J[4 + Len(p) + 1 + i] = m[i]

\* The four parts of a fingerprint are found at places that depend on the
\* lengths of the versions alone.
LEMMA JoinedParts ==
  ASSUME NEW Char, NEW h, NEW p \in Seq(Char), NEW m \in Seq(Char), NEW e
  PROVE  Parts(Joined(h, p, m, e), h, p, m)
<1> DEFINE S == Char \cup {"s3m-invocation-v1", Delimiter, h, e}
           A == <<"s3m-invocation-v1", Delimiter, h, Delimiter>>
           M == <<Delimiter>>
           E == <<Delimiter, e>>
           J == Joined(h, p, m, e)
<1>1. A \in Seq(S) /\ Len(A) = 4 /\ A[3] = h
  OBVIOUS
<1>2. /\ p \in Seq(S) /\ Len(p) \in Nat
      /\ m \in Seq(S) /\ Len(m) \in Nat
  BY SeqMonotonic
<1>3. /\ M \in Seq(S) /\ Len(M) = 1 /\ M[1] = Delimiter
      /\ E \in Seq(S) /\ Len(E) = 2
  OBVIOUS
<1>4. J = A \o p \o M \o m \o E
  BY DEF Joined
<1> HIDE DEF S, A, M, E, J
<1>5. LaidOut(J, A, p, M, m, Len(E))
  <2>1. /\ A \in Seq(S) /\ p \in Seq(S) /\ M \in Seq(S) /\ m \in Seq(S)
        /\ E \in Seq(S)
    BY <1>1, <1>2, <1>3
  <2> QED
    BY <1>4, <2>1, JoinAt
<1>6. /\ Len(J) = 4 + Len(p) + 1 + Len(m) + 2
      /\ \A i \in 1 .. 4 : J[i] = A[i]
      /\ \A i \in 1 .. Len(p) : J[4 + i] = p[i]
      /\ \A i \in 1 .. 1 : J[4 + Len(p) + i] = M[i]
      /\ \A i \in 1 .. Len(m) : J[4 + Len(p) + 1 + i] = m[i]
  BY <1>1, <1>3, <1>5, Zenon DEF LaidOut
<1>7. J[3] = h
  <2>1. 3 \in 1 .. 4
    OBVIOUS
  <2> QED
    BY <1>1, <1>6, <2>1
<1>8. J[4 + Len(p) + 1] = Delimiter
  <2>1. 1 \in 1 .. 1
    OBVIOUS
  <2> QED
    BY <1>3, <1>6, <2>1
<1> QED
  BY <1>6, <1>7, <1>8 DEF J, Parts

\* A fingerprint gives the hash back, and the versions unless the two pairs are
\* cut at different places, which takes a delimiter inside one of them.
LEMMA JoinedTellsApart ==
  ASSUME NEW Char,
         NEW h, NEW p \in Seq(Char), NEW m \in Seq(Char), NEW e,
         NEW k, NEW q \in Seq(Char), NEW n \in Seq(Char), NEW f,
         Joined(h, p, m, e) = Joined(k, q, n, f)
  PROVE  /\ h = k
         /\ \/ p = q /\ m = n
            \/ /\ p # q /\ m # n
               /\ \E v \in {p, q, m, n} : \E i \in DOMAIN v : v[i] = Delimiter
<1> DEFINE J == Joined(h, p, m, e)
           K == Joined(k, q, n, f)
<1>0. Parts(J, h, p, m)
  BY JoinedParts
<1>1. Parts(K, k, q, n)
  BY JoinedParts
<1>2. J = K
  OBVIOUS
<1> HIDE DEF J, K
<1> USE DEF Parts
<1>3. /\ Len(p) \in Nat /\ Len(q) \in Nat /\ Len(m) \in Nat /\ Len(n) \in Nat
      /\ Len(p) + Len(m) = Len(q) + Len(n)
  BY <1>0, <1>1, <1>2
<1>4. CASE Len(p) = Len(q)
  <2>1. Len(m) = Len(n)
    BY <1>3, <1>4
  <2>2. \A i \in 1 .. Len(p) : p[i] = q[i]
    BY <1>0, <1>1, <1>2, <1>4
  <2>3. \A i \in 1 .. Len(m) : m[i] = n[i]
    BY <1>0, <1>1, <1>2, <1>4, <2>1
  <2>4. p = q /\ m = n
    BY <1>4, <2>1, <2>2, <2>3, SeqEqual
  <2> QED
    BY <2>4, <1>0, <1>1, <1>2
<1>5. CASE Len(p) < Len(q)
  <2>1. Len(p) + 1 \in 1 .. Len(q)
    BY <1>3, <1>5
  <2>2. K[4 + (Len(p) + 1)] = q[Len(p) + 1]
    BY <1>1, <2>1
  <2>3. 4 + (Len(p) + 1) = 4 + Len(p) + 1
    BY <1>3
  <2>4. q[Len(p) + 1] = Delimiter
    BY <1>0, <1>2, <2>2, <2>3
  <2>5. p # q /\ m # n
    BY <1>3, <1>5
  <2> QED
    BY <1>0, <1>1, <1>2, <2>1, <2>4, <2>5
<1>6. CASE Len(q) < Len(p)
  <2>1. Len(q) + 1 \in 1 .. Len(p)
    BY <1>3, <1>6
  <2>2. J[4 + (Len(q) + 1)] = p[Len(q) + 1]
    BY <1>0, <2>1
  <2>3. 4 + (Len(q) + 1) = 4 + Len(q) + 1
    BY <1>3
  <2>4. p[Len(q) + 1] = Delimiter
    BY <1>1, <1>2, <2>2, <2>3
  <2>5. p # q /\ m # n
    BY <1>3, <1>6
  <2> QED
    BY <1>0, <1>1, <1>2, <2>1, <2>4, <2>5
<1> QED
  BY <1>3, <1>4, <1>5, <1>6

-----------------------------------------------------------------------------
(* The invariant.                                                           *)

\* What packet_hash holds is the hash of what it was computed of.
StampInv ==
  /\ content \in Contents
  /\ stampedFor = NoContent => stamp = NoHash
  /\ stampedFor # NoContent => stamp = stampedFor

\* The characters of a version: all strings, the named ones among them.
Character == STRING \cup {Delimiter, "none"}

\* A card or record bears the hash of its packet, unless it refuses one changed
\* after it was stamped; it always bears its packet's route, and is pinned to
\* versions that are character sequences.
Sound(c) ==
  /\ ~Outdated(c) => c.hash = c.about
  /\ c.decision = Route(c.about)
  /\ c.prompt \in Seq(Character) /\ c.model \in Seq(Character)

(* The inductive invariant: the stamp, the card and every record are        *)
(* sound, and each fingerprint is joined from its own fields.               *)
IInv ==
  /\ StampInv
  /\ card # NoCard => Sound(card)
  /\ \A r \in records :
       /\ Sound(r)
       /\ r.fingerprint = Joined(r.hash, r.prompt, r.model, r.decision.engine)

\* A new card is sound when its hash is right wherever it has to be.
LEMMA NewCardIsSound ==
  ASSUME NEW hash, NEW prompt \in Seq(Character), NEW model \in Seq(Character),
         \/ hash = content
         \/ /\ stampedFor \notin {NoContent, content}
            /\ prompt = <<"none">> /\ model = <<"none">>
  PROVE  Sound(NewCard(hash, prompt, model))
BY DEF Sound, Outdated, NewCard

\* Recording keeps what the card says.
LEMMA RecordKeeps ==
  ASSUME NEW c, Sound(c)
  PROVE  /\ Sound(RecordOf(c))
         /\ RecordOf(c).fingerprint =
              Joined(RecordOf(c).hash, RecordOf(c).prompt, RecordOf(c).model,
                     RecordOf(c).decision.engine)
BY DEF Sound, Outdated, RecordOf

\* No card and no record: nothing to be wrong about.
LEMMA InitIInv == Init => IInv
BY DEF Init, IInv, StampInv

\* Every step keeps the invariant.
LEMMA StepIInv == IInv /\ [Next]_vars => IInv'
<1> SUFFICES ASSUME IInv, [Next]_vars
             PROVE  IInv'
  OBVIOUS
<1> USE ContractAssumption
<1>1. CASE Stamp
  BY <1>1 DEF Stamp, PacketHash, IInv, StampInv, Sound, Outdated
<1>2. CASE Amend
  BY <1>2 DEF Amend, IInv, StampInv, Sound, Outdated
<1>3. CASE Refuse
  <2> DEFINE hash == IF stamp # NoHash THEN stamp ELSE PacketHash(content, stamp)
  <2>1. hash = content \/ stampedFor \notin {NoContent, content}
    BY DEF IInv, StampInv, PacketHash
  <2>2. <<"none">> \in Seq(Character)
    BY DEF Character
  <2>3. card' = NewCard(hash, <<"none">>, <<"none">>)
    BY <1>3 DEF Refuse
  <2> HIDE DEF hash
  <2>4. Sound(card')
    BY <2>1, <2>2, <2>3, NewCardIsSound, Zenon
  <2>5. StampInv' /\ records' = records
    BY <1>3 DEF Refuse, IInv, StampInv
  <2> QED
    BY <2>4, <2>5 DEF IInv, Sound, Outdated
<1>4. CASE Advise
  <2>1. PICK cfg \in Configs :
          /\ Pinned(cfg)
          /\ card' = NewCard(PacketHash(content, stamp), cfg.prompt, cfg.model)
    BY <1>4 DEF Advise
  <2>2. cfg.prompt \in Seq(Character) /\ cfg.model \in Seq(Character)
    <3>1. cfg.prompt \in Seq(STRING) /\ cfg.model \in Seq(STRING)
      BY <2>1 DEF Pinned, NonBlank
    <3> QED
      BY <3>1, SeqMonotonic DEF Character
  <2>3. Sound(card')
    BY <2>1, <2>2, NewCardIsSound DEF PacketHash
  <2>4. StampInv' /\ records' = records
    BY <1>4 DEF Advise, IInv, StampInv
  <2> QED
    BY <2>3, <2>4 DEF IInv, Sound, Outdated
<1>5. CASE Record
  <2>1. Sound(card)
    BY <1>5 DEF Record, IInv
  <2>2. \A r \in records' :
          /\ Sound(r)
          /\ r.fingerprint = Joined(r.hash, r.prompt, r.model, r.decision.engine)
    BY <1>5, <2>1, RecordKeeps DEF Record, IInv
  <2>3. StampInv' /\ card' = NoCard
    BY <1>5 DEF Record, IInv, StampInv
  <2> QED
    BY <2>2, <2>3 DEF IInv, Sound, Outdated
<1>6. CASE UNCHANGED vars
  BY <1>6 DEF vars, IInv, StampInv, Sound, Outdated
<1> QED
  BY <1>1, <1>2, <1>3, <1>4, <1>5, <1>6 DEF Next

\* The invariant of the envelope: packet_hash is the hash of what it was
\* computed of, and whatever was built bears the route of the packet it is
\* about, and its hash but for a refusal that took over an outdated one
\* (packet.py:122-138, refusal.py:44).
THEOREM InductiveInvariant == Spec => []IInv
BY InitIInv, StepIInv, PTL DEF Spec

-----------------------------------------------------------------------------

\* SameInputsSameRecord: equal packets and versions are recorded alike, however
\* often and when the packets were hashed, and an outdated hash is found with
\* the refusals that took it over only (determinism.py:33-48, refusal.py:44).
THEOREM SameInputsSameRecordAlways == Spec => []SameInputsSameRecord
<1>1. IInv => SameInputsSameRecord
  BY DEF IInv, Sound, SameInputsSameRecord, SameInputs
<1> QED
  BY <1>1, InductiveInvariant, PTL

\* FingerprintsTellApart: for versions of any length, two invocations share a
\* fingerprint only when packet and versions are the same, or the delimiter
\* occurs inside a version and both differ (determinism.py:39-48).
THEOREM FingerprintsTellApartAlways == Spec => []FingerprintsTellApart
<1>1. ASSUME IInv, NEW r \in records, NEW s \in records,
             ~Outdated(r), ~Outdated(s), r.fingerprint = s.fingerprint
      PROVE  /\ r.about = s.about
             /\ \/ SameInputs(r, s)
                \/ /\ r.prompt # s.prompt /\ r.model # s.model
                   /\ \E v \in {r.prompt, s.prompt, r.model, s.model} : Occurs(v)
  <2>1. /\ r.hash = r.about /\ s.hash = s.about
        /\ r.prompt \in Seq(Character) /\ r.model \in Seq(Character)
        /\ s.prompt \in Seq(Character) /\ s.model \in Seq(Character)
    BY <1>1 DEF IInv, Sound, Outdated
  <2>2. Joined(r.hash, r.prompt, r.model, r.decision.engine)
          = Joined(s.hash, s.prompt, s.model, s.decision.engine)
    BY <1>1 DEF IInv
  <2>3. /\ r.hash = s.hash
        /\ \/ r.prompt = s.prompt /\ r.model = s.model
           \/ /\ r.prompt # s.prompt /\ r.model # s.model
              /\ \E v \in {r.prompt, s.prompt, r.model, s.model} :
                   \E i \in DOMAIN v : v[i] = Delimiter
    BY <2>1, <2>2, JoinedTellsApart
  <2> QED
    BY <2>1, <2>3 DEF SameInputs, Occurs
<1>2. IInv => FingerprintsTellApart
  BY <1>1 DEF FingerprintsTellApart
<1> QED
  BY <1>2, InductiveInvariant, PTL

-----------------------------------------------------------------------------
(* Starting and serving: for any set of deployment profiles.                *)

(* The types of the environment, the phase and the two configurations.      *)
ServiceTypeOK ==
  /\ env \in Environment
  /\ phase \in Phase
  /\ config \in Config \cup {NoConfig}
  /\ state \in Config \cup {NoConfig}

\* What a phase of the lifespan owes to the ones before it.
StartInv ==
  /\ phase # "down" => config \in Config
  /\ phase \in {"asserted", "serving"} => Passes(config)
  /\ phase = "serving" => state = config
  /\ state # NoConfig => Passes(state)

(* The inductive invariant.                                                 *)
ServiceInv == ServiceTypeOK /\ StartInv

\* load_config returns a configuration from any environment it does not refuse.
LEMMA LoadedIsAConfig ==
  ASSUME env \in Environment, Loadable
  PROVE  env \in Config
BY DEF Environment, Loadable, Config

\* A new process is down and has no configuration.
LEMMA InitServiceInv == ServiceInit => ServiceInv
BY StartupAssumption DEF ServiceInit, ServiceInv, ServiceTypeOK, StartInv, Phase

\* Every step keeps the invariant.
LEMMA StepServiceInv == ServiceInv /\ [ServiceNext]_serviceVars => ServiceInv'
<1> SUFFICES ASSUME ServiceInv, [ServiceNext]_serviceVars
             PROVE  ServiceInv'
  OBVIOUS
<1> USE DEF ServiceInv, ServiceTypeOK, StartInv, Phase
<1>1. CASE SetEnvironment
  BY <1>1 DEF SetEnvironment, Passes
<1>2. CASE LoadConfig
  <2>1. env \in Config
    BY <1>2, LoadedIsAConfig DEF LoadConfig
  <2> QED
    BY <1>2, <2>1 DEF LoadConfig, Passes
<1>3. CASE AssertInvariants
  BY <1>3 DEF AssertInvariants, Passes
<1>4. CASE Serve
  BY <1>4 DEF Serve, Passes
<1>5. CASE Shutdown
  BY <1>5 DEF Shutdown, Passes
<1>6. CASE Restart
  BY <1>6 DEF Restart, Passes
<1>7. CASE Health
  BY <1>7 DEF Health, Passes
<1>8. CASE UNCHANGED serviceVars
  BY <1>8 DEF serviceVars, Passes
<1> QED
  BY <1>1, <1>2, <1>3, <1>4, <1>5, <1>6, <1>7, <1>8 DEF ServiceNext

\* The invariant of start and stop: a phase past the assertion has a
\* configuration that passed it, app.state only ever holds such a one, and what
\* serves is what this start asserted (main.py:102-120).
THEOREM ServiceInvariant == ServiceSpec => []ServiceInv
BY InitServiceInv, StepServiceInv, PTL DEF ServiceSpec

\* OnlyAssertedConfigsServe: nothing that allows outbound OT connections is
\* asserted, served or kept in app.state, by whatever history of failed starts,
\* shutdowns and changes of the environment (config.py:79-97).
THEOREM OnlyAssertedConfigsServeAlways == ServiceSpec => []OnlyAssertedConfigsServe
<1>1. ServiceInv => OnlyAssertedConfigsServe
  BY DEF ServiceInv, ServiceTypeOK, StartInv, Passes, OnlyAssertedConfigsServe
<1> QED
  BY <1>1, ServiceInvariant, PTL

\* AnswersAreOfTheStart: a request to a serving process is answered from the
\* configuration its start asserted, not from the environment, and a process
\* that has served never again from an unasserted one (main.py:131-135).
THEOREM AnswersAreOfTheStartAlways == ServiceSpec => AnswersAreOfTheStart
<1>1. ServiceInv /\ [ServiceNext]_serviceVars =>
        [answer' \notin {answer, NoAnswer} =>
           /\ phase = "serving" => answer' = config
           /\ state # NoConfig => Passes(answer')]_serviceVars
  <2> SUFFICES ASSUME ServiceInv, ServiceNext, answer' \notin {answer, NoAnswer}
               PROVE  /\ phase = "serving" => answer' = config
                      /\ state # NoConfig => Passes(answer')
    BY DEF serviceVars
  <2>1. Health
    BY DEF ServiceNext, SetEnvironment, LoadConfig, AssertInvariants, Serve, Shutdown, Restart
  <2>2. /\ phase = "serving" => state = config /\ config # NoConfig
        /\ state # NoConfig => Passes(state)
    BY NoConfigAssumption DEF ServiceInv, StartInv
  <2>3. state # NoConfig => answer' = state
    BY <2>1 DEF Health, CurrentConfig
  <2> QED
    BY <2>2, <2>3
<1> QED
  BY <1>1, ServiceInvariant, PTL DEF ServiceSpec, AnswersAreOfTheStart

=============================================================================
