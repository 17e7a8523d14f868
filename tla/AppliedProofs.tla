----------------------------- MODULE AppliedProofs -----------------------------
(***************************************************************************)
(* What the version a node reports as applied means, for any number of      *)
(* polls, events and rotations that overtake each other.                    *)
(***************************************************************************)
EXTENDS NodeProofs

(* An agent at the current version has all that the row says of it. *)
Fresh(version, desired, pending) ==
    version = deployment.configVersion =>
        /\ desired = deployment.desired
        /\ deployment.pending # NoCredential => pending = deployment.pending

(* What the server believes applied is never ahead of what is.                *)
ReportInv(i) ==
    /\ Enrolled(i) => deployment.applied <= agent[i].applied
    /\ agent[i].applied > 0 => Enrolled(i)
    /\ Fresh(agent[i].applied, agent[i].desired, agent[i].pending)

(* A poll reports what its agent has had; a configuration under way is at     *)
(* least as new as what its agent has.                                        *)
FetchInv(s) ==
    /\ polls[s].phase \in {"read", "update"} => polls[s].applied <= agent[polls[s].by].applied
    /\ polls[s].phase = "answer" =>
            /\ polls[s].configVersion >= agent[polls[s].by].applied
            /\ Fresh(polls[s].configVersion, polls[s].desired, polls[s].pending)

AppliedInv ==
    /\ deployment.applied = 0 \/ \E i \in Installs : Enrolled(i)
    /\ \A i \in Installs : ReportInv(i)
    /\ \A s \in PollSlots : FetchInv(s)

LEMMA Numbers ==
    ASSUME TypeOK
    PROVE  /\ deployment.configVersion \in Nat /\ deployment.applied \in Nat
           /\ \A i \in Installs : agent[i].applied \in Nat /\ agent[i].applied <= deployment.configVersion
           /\ \A s \in PollSlots : polls[s].phase \in {"read", "update"} =>
                    polls[s].by \in Installs /\ polls[s].applied \in Nat
           /\ \A s \in PollSlots : polls[s].phase = "answer" =>
                    /\ polls[s].by \in Installs /\ polls[s].configVersion \in Nat
                    /\ polls[s].configVersion <= deployment.configVersion
  <1>1. deployment.configVersion \in Nat /\ deployment.applied \in ConfigVersions
    BY DEF TypeOK, Deployments
  <1>2. \A i \in Installs : agent[i].applied \in ConfigVersions
    BY DEF TypeOK, Agents
  <1>3. ASSUME NEW s \in PollSlots, polls[s].phase \in {"read", "update"}
        PROVE  polls[s].by \in Installs /\ polls[s].applied \in ConfigVersions
    BY <1>3, PollFields
  <1>4. ASSUME NEW s \in PollSlots, polls[s].phase = "answer"
        PROVE  polls[s].by \in Installs /\ polls[s].configVersion \in ConfigVersions
    BY <1>4, PollFields
  <1>5. \A v \in ConfigVersions : v \in Nat /\ v <= deployment.configVersion
    BY <1>1 DEF ConfigVersions
  <1> QED BY <1>1, <1>2, <1>3, <1>4, <1>5

LEMMA AppliedStarts == Init => AppliedInv
  <1> SUFFICES ASSUME Init PROVE AppliedInv
    OBVIOUS
  <1>1. deployment.applied = 0 /\ deployment.configVersion = 1
    BY DEF Init
  <1>2. \A i \in Installs : agent[i].applied = 0 /\ ~Enrolled(i)
    BY DEF Init, Enrolled
  <1>3. \A s \in PollSlots : polls[s].phase = "idle"
    BY DEF Init, Idle
  <1> QED BY <1>1, <1>2, <1>3 DEF AppliedInv, ReportInv, FetchInv, Fresh

(* A step of the row that agents and polls do not see keeps the invariant when *)
(* it raises the version, or changes nothing but that a rotation ends.         *)
LEMMA RowMoves ==
    ASSUME TypeOK, AppliedInv, agent' = agent, polls' = polls, deployment'.applied = deployment.applied,
           \/ deployment'.configVersion > deployment.configVersion
           \/ /\ deployment'.configVersion = deployment.configVersion
              /\ deployment'.desired = deployment.desired
              /\ deployment'.pending \in {deployment.pending, NoCredential}
    PROVE  AppliedInv'
  <1>1. ASSUME NEW v \in Nat, v <= deployment.configVersion, NEW d, NEW c, Fresh(v, d, c) PROVE Fresh(v, d, c)'
    BY <1>1, Numbers DEF Fresh
  <1>2. \A i : Enrolled(i)' <=> Enrolled(i)
    BY DEF Enrolled
  <1>3. ASSUME NEW i \in Installs PROVE ReportInv(i)'
    <2>1. Fresh(agent[i].applied, agent[i].desired, agent[i].pending)
      BY DEF AppliedInv, ReportInv
    <2>2. Fresh(agent[i].applied, agent[i].desired, agent[i].pending)'
      BY <1>1, <2>1, Numbers DEF Fresh
    <2> QED BY <1>2, <2>2 DEF AppliedInv, ReportInv
  <1>4. ASSUME NEW s \in PollSlots PROVE FetchInv(s)'
    <2>1. polls[s].phase = "answer" => Fresh(polls[s].configVersion, polls[s].desired, polls[s].pending)'
      BY <1>1, Numbers DEF AppliedInv, FetchInv, Fresh
    <2> QED BY <2>1 DEF AppliedInv, FetchInv
  <1> QED BY <1>2, <1>3, <1>4 DEF AppliedInv

LEMMA AppliedEnrol == ASSUME TypeOK, NodeInv, AppliedInv, Enrol PROVE AppliedInv'
  <1> SUFFICES ASSUME NEW s \in EnrolSlots,
                      \/ \E i \in Installs : EnrolSend(i, s)
                      \/ EnrolRead(s) \/ EnrolClaim(s) \/ EnrolReread(s) \/ EnrolAnswer(s) \/ GiveUpEnrol(s)
               PROVE  AppliedInv'
    BY DEF Enrol
  <1> USE DEF serverVars
  <1>1. CASE (\E i \in Installs : EnrolSend(i, s)) \/ EnrolRead(s) \/ EnrolReread(s) \/ GiveUpEnrol(s)
    BY <1>1, RowMoves DEF EnrolSend, EnrolRead, EnrolReread, GiveUpEnrol
  <1>2. CASE EnrolClaim(s)
    BY <1>2, RowMoves DEF EnrolClaim, TypeOK, Deployments
  <1>3. CASE EnrolAnswer(s)
    <2> DEFINE e == enrols[s]
    <2>1. /\ deployment' = deployment /\ polls' = polls /\ e.phase = "answer"
          /\ agent' = [agent EXCEPT ![e.by].active = e.reply]
      BY <1>3 DEF EnrolAnswer
    <2>2. e.by \in Installs /\ Awaited(e) /\ e.reply = deployment.active /\ e.reply # NoCredential
      BY <2>1, EnrolFields, CredentialFields DEF NodeInv, EnrolInv, Awaited, RowInv
    <2>3. deployment.installId = e.by /\ ~Enrolled(e.by)
      BY <2>1, <2>2 DEF NodeInv, EnrolInv
    <2>4. deployment.applied = 0
      BY <2>3 DEF AppliedInv, NodeInv, AgentInv
    <2>5. \A i \in Installs : /\ agent'[i].applied = agent[i].applied /\ agent'[i].desired = agent[i].desired
                              /\ agent'[i].pending = agent[i].pending
      BY <2>1, <2>2 DEF TypeOK, Agents
    <2>6. \A i \in Installs : Enrolled(i) => agent'[i].active # NoCredential
      BY <2>1, <2>2 DEF TypeOK, Agents, Enrolled
    <2>7. ASSUME NEW i \in Installs PROVE ReportInv(i)'
      <3>1. deployment'.applied <= agent'[i].applied
        BY <2>1, <2>4, <2>5, Numbers
      <3>2. agent'[i].applied > 0 => agent'[i].active # NoCredential
        BY <2>5, <2>6 DEF AppliedInv, ReportInv
      <3> QED BY <2>1, <2>5, <3>1, <3>2 DEF AppliedInv, ReportInv, Fresh, Enrolled
    <2>8. ASSUME NEW t \in PollSlots PROVE FetchInv(t)'
      BY <2>1, <2>5, Numbers DEF AppliedInv, FetchInv, Fresh
    <2> QED BY <2>1, <2>4, <2>7, <2>8 DEF AppliedInv
  <1> QED BY <1>1, <1>2, <1>3

LEMMA AppliedConfirm == ASSUME TypeOK, NodeInv, AppliedInv, Confirm PROVE AppliedInv'
  <1> SUFFICES ASSUME NEW s \in ConfirmSlots,
                      \/ \E i \in Installs : ConfirmSend(i, s)
                      \/ ConfirmRead(s) \/ ConfirmPromote(s) \/ ConfirmCheck(s)
                      \/ ConfirmAnswer(s) \/ GiveUpConfirm(s)
               PROVE  AppliedInv'
    BY DEF Confirm
  <1> USE DEF serverVars
  <1>1. CASE (\E i \in Installs : ConfirmSend(i, s)) \/ ConfirmRead(s) \/ ConfirmCheck(s) \/ GiveUpConfirm(s)
    BY <1>1, RowMoves DEF ConfirmSend, ConfirmRead, ConfirmCheck, GiveUpConfirm
  <1>2. CASE ConfirmPromote(s)
    BY <1>2, RowMoves DEF ConfirmPromote, TypeOK, Deployments
  <1>3. CASE ConfirmAnswer(s)
    <2> DEFINE c == confirms[s]
               a == agent[c.by]
               b == [a EXCEPT !.active = IF c.credential.version > @.version THEN c.credential ELSE @,
                              !.pending = IF @ = c.credential THEN NoCredential ELSE @]
    <2>1. deployment' = deployment /\ polls' = polls /\ c.phase = "answer" /\ agent' = [agent EXCEPT ![c.by] = b]
      BY <1>3 DEF ConfirmAnswer
    <2>2. c.by \in Installs /\ c # Idle
      BY <2>1, ConfirmFields
    <2>3. /\ Enrolled(c.by) /\ c.credential # NoCredential
          /\ c.credential.version <= deployment.active.version
      BY <2>1, <2>2 DEF NodeInv, ConfirmInv
    <2>4. deployment.pending # NoCredential => c.credential # deployment.pending
      BY <2>3, CredentialFields DEF NodeInv, RowInv
    <2>5. /\ agent'[c.by] = b /\ b.applied = a.applied /\ b.desired = a.desired /\ b.active # NoCredential
          /\ b.pending = (IF a.pending = c.credential THEN NoCredential ELSE a.pending)
          /\ \A i \in Installs \ {c.by} : agent'[i] = agent[i]
      BY <2>1, <2>2, <2>3 DEF TypeOK, Agents, Enrolled
    <2> HIDE DEF b
    <2>6. \A i \in Installs : agent'[i].applied = agent[i].applied /\ (agent'[i].active # NoCredential <=> Enrolled(i))
      BY <2>2, <2>3, <2>5 DEF Enrolled
    <2>7. ASSUME NEW i \in Installs PROVE ReportInv(i)'
      <3>1. Fresh(agent[i].applied, agent[i].desired, agent[i].pending)'
        BY <2>1, <2>4, <2>5 DEF AppliedInv, ReportInv, Fresh
      <3> QED BY <2>1, <2>6, <3>1 DEF AppliedInv, ReportInv, Enrolled
    <2>8. ASSUME NEW t \in PollSlots PROVE FetchInv(t)'
      BY <2>1, <2>6, Numbers DEF AppliedInv, FetchInv, Fresh
    <2> QED BY <2>1, <2>6, <2>7, <2>8 DEF AppliedInv, Enrolled
  <1> QED BY <1>1, <1>2, <1>3

(* A poll's step that neither reports nor fetches. *)
LEMMA FetchGoesOn ==
    ASSUME TypeOK, AppliedInv, agent' = agent, deployment' = deployment, NEW s \in PollSlots, NEW r,
           polls' = [polls EXCEPT ![s] = r],
           \/ r.phase \notin {"read", "update", "answer"}
           \/ /\ r.phase \in {"read", "update"} /\ r.by \in Installs /\ r.applied <= agent[r.by].applied
    PROVE  AppliedInv'
  <1>1. polls'[s] = r /\ \A t \in PollSlots \ {s} : polls'[t] = polls[t]
    BY DEF TypeOK
  <1>2. FetchInv(s)'
    BY <1>1 DEF FetchInv
  <1>3. ASSUME NEW t \in PollSlots \ {s} PROVE FetchInv(t)'
    BY <1>1 DEF AppliedInv, FetchInv, Fresh
  <1>4. \A i \in Installs : ReportInv(i)' /\ (Enrolled(i)' <=> Enrolled(i))
    BY DEF AppliedInv, ReportInv, Fresh, Enrolled
  <1> QED BY <1>2, <1>3, <1>4 DEF AppliedInv

(* A report of a version that an agent has had. *)
LEMMA Reported ==
    ASSUME TypeOK, NodeInv, AppliedInv, agent' = agent, NEW i \in Installs, NEW v \in Nat,
           v <= agent[i].applied, Enrolled(i) \/ v > 0,
           deployment'.applied = v, deployment'.configVersion = deployment.configVersion,
           deployment'.desired = deployment.desired, deployment'.pending = deployment.pending
    PROVE  /\ deployment'.applied = 0 \/ \E j \in Installs : Enrolled(j)'
           /\ \A j \in Installs : ReportInv(j)'
  <1>1. Enrolled(i)
    BY Numbers DEF AppliedInv, ReportInv
  <1>2. \A j \in Installs : Enrolled(j) => j = i
    BY <1>1 DEF NodeInv, AgentInv
  <1>3. \A j \in Installs : Enrolled(j)' <=> Enrolled(j)
    BY DEF Enrolled
  <1>4. \A j \in Installs : ReportInv(j)'
    BY <1>2, <1>3 DEF AppliedInv, ReportInv, Fresh
  <1> QED BY <1>1, <1>3, <1>4

LEMMA AppliedPoll == ASSUME TypeOK, NodeInv, AppliedInv, Poll PROVE AppliedInv'
  <1> SUFFICES ASSUME NEW s \in PollSlots,
                      \/ \E i \in Installs : PollSend(i, s)
                      \/ PollRead(s) \/ PollUpdate(s) \/ PollAnswer(s)
                      \/ ConfigAuth(s) \/ ConfigRead(s) \/ ConfigAnswer(s) \/ GiveUpPoll(s)
               PROVE  AppliedInv'
    BY DEF Poll
  <1> DEFINE p == polls[s]
  <1> USE DEF serverVars
  <1>a. Idle.phase = "idle" /\ Unsent.phase = "unsent" /\ FetchInv(s) /\ polls \in [PollSlots -> Polls]
    BY DEF Idle, Unsent, AppliedInv, TypeOK
  <1>1. ASSUME NEW i \in Installs, PollSend(i, s) PROVE AppliedInv'
    <2> DEFINE r == [phase |-> "read", by |-> i, secret |-> agent[i].active.secret,
                     applied |-> agent[i].applied, awaited |-> TRUE]
    <2>1. agent' = agent /\ deployment' = deployment /\ polls' = [polls EXCEPT ![s] = r]
      BY <1>1 DEF PollSend
    <2>2. r.phase = "read" /\ r.by = i /\ r.applied <= agent[i].applied
      BY Numbers
    <2> HIDE DEF r
    <2> QED BY <2>1, <2>2, FetchGoesOn
  <1>2. CASE PollRead(s)
    <2>1. agent' = agent /\ deployment' = deployment /\ p.phase = "read"
      BY <1>2 DEF PollRead, AuthenticateAs
    <2>2. CASE polls' = [polls EXCEPT ![s] = Idle]
      BY <1>a, <2>1, <2>2, FetchGoesOn
    <2>3. CASE polls' = [polls EXCEPT ![s] = [p EXCEPT !.phase = "update"]]
      <3> DEFINE r == [p EXCEPT !.phase = "update"]
      <3>1. r.phase = "update" /\ r.by = p.by /\ r.applied = p.applied
        BY <2>1, PollShapes
      <3>2. p.by \in Installs /\ p.applied <= agent[p.by].applied
        BY <1>a, <2>1, PollFields DEF FetchInv
      <3> HIDE DEF r
      <3> QED BY <2>1, <2>3, <3>1, <3>2, FetchGoesOn DEF r
    <2> QED BY <1>2, <2>2, <2>3 DEF PollRead, AuthenticateAs
  <1>3. CASE PollUpdate(s)
    <2>1. /\ agent' = agent /\ p.phase = "update"
          /\ deployment' = [deployment EXCEPT !.status = "active", !.applied = IF p.applied > 0 THEN p.applied ELSE @]
      BY <1>3 DEF PollUpdate
    <2>2. /\ deployment'.configVersion = deployment.configVersion /\ deployment'.desired = deployment.desired
          /\ deployment'.pending = deployment.pending
          /\ deployment'.applied = (IF p.applied > 0 THEN p.applied ELSE deployment.applied)
      BY <2>1 DEF TypeOK, Deployments
    <2>3. p.by \in Installs /\ p.applied \in Nat /\ p.applied <= agent[p.by].applied
      BY <1>a, <2>1, Numbers DEF FetchInv
    <2>4. /\ deployment'.applied = 0 \/ \E j \in Installs : Enrolled(j)'
          /\ \A j \in Installs : ReportInv(j)'
      <3>1. CASE p.applied > 0
        BY <2>1, <2>2, <2>3, <3>1, Reported
      <3>2. CASE ~(p.applied > 0)
        BY <2>1, <2>2, <3>2 DEF AppliedInv, ReportInv, Fresh, Enrolled
      <3> QED BY <3>1, <3>2
    <2>5. polls'[s].phase \in {"idle", "look"} /\ \A t \in PollSlots \ {s} : polls'[t] = polls[t]
      BY <1>3, <1>a DEF PollUpdate, Onward
    <2>6. ASSUME NEW t \in PollSlots PROVE FetchInv(t)'
      BY <2>1, <2>2, <2>5 DEF AppliedInv, FetchInv, Fresh
    <2> QED BY <2>4, <2>6 DEF AppliedInv
  <1>4. CASE PollAnswer(s)
    <2> DEFINE r == [phase |-> "config_auth", by |-> p.by, secret |-> agent[p.by].active.secret, awaited |-> TRUE]
    <2>1. agent' = agent /\ deployment' = deployment /\ polls' = [polls EXCEPT ![s] = IF Announced(p.by) THEN r ELSE Idle]
      BY <1>4 DEF PollAnswer
    <2>2. r.phase = "config_auth"
      OBVIOUS
    <2> HIDE DEF r
    <2> QED BY <1>a, <2>1, <2>2, FetchGoesOn
  <1>5. CASE ConfigAuth(s)
    <2>1. agent' = agent /\ deployment' = deployment /\ p.phase = "config_auth"
      BY <1>5 DEF ConfigAuth, AuthenticateAs
    <2>2. [p EXCEPT !.phase = "config"].phase = "config"
      BY <2>1, PollShapes
    <2> QED BY <1>5, <1>a, <2>1, <2>2, FetchGoesOn DEF ConfigAuth, AuthenticateAs
  <1>6. CASE ConfigRead(s)
    <2> DEFINE r == [phase |-> "answer", by |-> p.by, awaited |-> TRUE,
                     configVersion |-> deployment.configVersion,
                     desired |-> deployment.desired, pending |-> deployment.pending]
    <2>1. /\ agent' = agent /\ deployment' = deployment /\ p.phase = "config"
          /\ polls' = [polls EXCEPT ![s] = r]
      BY <1>6 DEF ConfigRead
    <2>2. /\ r.phase = "answer" /\ r.by = p.by /\ r.configVersion = deployment.configVersion
          /\ r.desired = deployment.desired /\ r.pending = deployment.pending
      OBVIOUS
    <2> HIDE DEF r
    <2>3. polls'[s] = r /\ \A t \in PollSlots \ {s} : polls'[t] = polls[t]
      BY <1>a, <2>1
    <2>4. p.by \in Installs /\ deployment.configVersion >= agent[p.by].applied
      BY <2>1, PollFields, Numbers
    <2>5. FetchInv(s)'
      BY <2>1, <2>2, <2>3, <2>4 DEF FetchInv, Fresh
    <2>6. ASSUME NEW t \in PollSlots \ {s} PROVE FetchInv(t)'
      BY <2>1, <2>3 DEF AppliedInv, FetchInv, Fresh
    <2>7. \A i \in Installs : ReportInv(i)' /\ (Enrolled(i)' <=> Enrolled(i))
      BY <2>1 DEF AppliedInv, ReportInv, Fresh, Enrolled
    <2> QED BY <2>1, <2>5, <2>6, <2>7 DEF AppliedInv
  <1>7. CASE ConfigAnswer(s)
    <2> DEFINE i == p.by
               a == agent[i]
               b == [a EXCEPT !.applied = p.configVersion, !.desired = p.desired,
                              !.pending = IF p.pending.version > a.active.version THEN p.pending ELSE @]
    <2>1. /\ deployment' = deployment /\ p.phase = "answer" /\ agent' = [agent EXCEPT ![i] = b]
          /\ polls' = [polls EXCEPT ![s] = Idle]
      BY <1>7 DEF ConfigAnswer
    <2>2. /\ i \in Installs /\ Enrolled(i) /\ p.configVersion \in Nat /\ p.configVersion >= a.applied
          /\ Fresh(p.configVersion, p.desired, p.pending) /\ Awaited(p)
      <3>1. p # Idle /\ p # Unsent
        BY <1>a, <2>1
      <3>2. i \in Installs /\ p.awaited = TRUE /\ p.configVersion \in Nat
        BY <2>1, PollFields, Numbers
      <3>3. Enrolled(i)
        BY <3>1 DEF NodeInv, PollInv
      <3> QED BY <1>a, <2>1, <3>1, <3>2, <3>3 DEF FetchInv, Awaited
    <2>3. /\ agent'[i] = b /\ \A j \in Installs \ {i} : agent'[j] = agent[j]
          /\ b.active = a.active /\ b.applied = p.configVersion /\ b.desired = p.desired
          /\ b.pending = (IF p.pending.version > a.active.version THEN p.pending ELSE a.pending)
      BY <2>1, <2>2 DEF TypeOK, Agents
    <2> HIDE DEF b
    <2>4. deployment.pending # NoCredential /\ p.pending = deployment.pending => b.pending = deployment.pending
      <3>1. a.active.version <= deployment.active.version
        BY <2>2, CredentialFields DEF NodeInv, AgentInv
      <3>2. deployment.pending # NoCredential => deployment.pending.version > a.active.version
        BY <2>2, <3>1, CredentialFields DEF NodeInv, RowInv
      <3> QED BY <2>3, <3>2
    <2>5. \A j \in Installs : agent'[j].applied >= agent[j].applied /\ agent'[j].applied \in Nat
      BY <2>2, <2>3, Numbers
    <2>6. \A j \in Installs : agent'[j].active # NoCredential <=> Enrolled(j)
      BY <2>3 DEF Enrolled
    <2>7. ASSUME NEW j \in Installs PROVE ReportInv(j)'
      <3>1. Enrolled(j) => deployment.applied <= agent'[j].applied
        BY <2>5, Numbers DEF AppliedInv, ReportInv
      <3>2. agent'[j].applied > 0 => Enrolled(j)
        BY <2>2, <2>3 DEF AppliedInv, ReportInv
      <3>3. Fresh(agent[j].applied, agent[j].desired, agent[j].pending)'
        <4>1. CASE j = i
          BY <2>1, <2>2, <2>3, <2>4, <4>1 DEF Fresh
        <4>2. CASE j # i
          BY <2>1, <2>3, <4>2 DEF AppliedInv, ReportInv, Fresh
        <4> QED BY <4>1, <4>2
      <3> QED BY <2>1, <2>6, <3>1, <3>2, <3>3 DEF ReportInv, Enrolled
    <2>8. ASSUME NEW t \in PollSlots PROVE FetchInv(t)'
      <3>1. CASE t = s
        BY <1>a, <2>1, <3>1 DEF FetchInv
      <3>2. CASE t # s
        <4>1. polls'[t] = polls[t]
          BY <1>a, <2>1, <3>2
        <4>2. polls[t].phase \in {"read", "update"} => polls[t].applied <= agent'[polls[t].by].applied
          BY <2>5, Numbers DEF AppliedInv, FetchInv
        <4>3. polls[t].phase = "answer" => agent'[polls[t].by] = agent[polls[t].by]
          <5>1. polls[t].phase = "answer" => Awaited(polls[t]) /\ polls[t].by \in Installs
            BY <1>a, PollFields DEF Awaited
          <5> QED BY <1>a, <2>2, <2>3, <3>2, <5>1 DEF NodeInv, Lone
        <4> QED BY <2>1, <4>1, <4>2, <4>3 DEF AppliedInv, FetchInv, Fresh
      <3> QED BY <3>1, <3>2
    <2> QED BY <2>1, <2>6, <2>7, <2>8 DEF AppliedInv, Enrolled
  <1>8. CASE GiveUpPoll(s)
    <2>1. agent' = agent /\ deployment' = deployment
      BY <1>8 DEF GiveUpPoll
    <2>2. CASE polls' = [polls EXCEPT ![s] = Idle]
      BY <1>a, <2>1, <2>2, FetchGoesOn
    <2>3. CASE p.phase \in {"read", "update"} /\ polls' = [polls EXCEPT ![s] = [p EXCEPT !.awaited = FALSE]]
      <3> DEFINE r == [p EXCEPT !.awaited = FALSE]
      <3>1. r.phase = p.phase /\ r.by = p.by /\ r.applied = p.applied
        BY <2>3, PollShapes
      <3>2. p.by \in Installs /\ p.applied <= agent[p.by].applied
        BY <1>a, <2>3, PollFields DEF FetchInv
      <3> HIDE DEF r
      <3> QED BY <2>1, <2>3, <3>1, <3>2, FetchGoesOn DEF r
    <2> QED BY <1>8, <2>2, <2>3 DEF GiveUpPoll, GiveUp
  <1> QED BY <1>1, <1>2, <1>3, <1>4, <1>5, <1>6, <1>7, <1>8

LEMMA AppliedRow == ASSUME TypeOK, NodeInv, AppliedInv, TokenExpires \/ Report \/ Administer PROVE AppliedInv'
  <1> USE DEF serverVars
  <1>0. deployment.configVersion + 1 > deployment.configVersion
    BY Numbers
  <1>1. CASE TokenExpires
    BY <1>1, RowMoves DEF TokenExpires, TypeOK, Deployments
  <1>2. CASE IssueToken \/ Revoke
    BY <1>2, RowMoves DEF IssueToken, Revoke, TypeOK, Deployments
  <1>3. CASE SetPrinters
    <2>1. /\ deployment'.applied = deployment.applied
          /\ deployment'.configVersion = deployment.configVersion + 1
      BY <1>3 DEF SetPrinters, WithPrinters, TypeOK, Deployments
    <2> QED BY <1>0, <1>3, <2>1, RowMoves DEF SetPrinters
  <1>4. ASSUME NEW s \in StageSlots, StageRead(s) PROVE AppliedInv'
    BY <1>4, RowMoves DEF StageRead
  <1>5. ASSUME NEW s \in StageSlots, StageWrite(s) PROVE AppliedInv'
    <2>1. agent' = agent /\ polls' = polls
      BY <1>5 DEF StageWrite
    <2>2. CASE deployment' = deployment
      BY <2>1, <2>2, RowMoves
    <2>3. CASE deployment' = Staged(stages[s].seen, drawn + 1)
      <3>1. /\ deployment'.applied = deployment.applied
            /\ deployment'.configVersion = deployment.configVersion + 1
        BY <2>3 DEF Staged, TypeOK, Deployments
      <3> QED BY <1>0, <2>1, <3>1, RowMoves
    <2> QED BY <1>5, <2>2, <2>3 DEF StageWrite
  <1>6. ASSUME NEW i \in Installs, ConfigApplied(i) PROVE AppliedInv'
    <2>1. PICK v \in 1 .. agent[i].applied : deployment' = [deployment EXCEPT !.applied = v]
      BY <1>6 DEF ConfigApplied
    <2>2. /\ deployment'.applied = v /\ deployment'.configVersion = deployment.configVersion
          /\ deployment'.desired = deployment.desired /\ deployment'.pending = deployment.pending
      BY <2>1 DEF TypeOK, Deployments
    <2>3. v \in Nat /\ v > 0 /\ v <= agent[i].applied
      BY <2>1, Numbers
    <2>4. agent' = agent /\ polls' = polls
      BY <1>6 DEF ConfigApplied
    <2>5. \A t \in PollSlots : FetchInv(t)'
      BY <2>2, <2>4 DEF AppliedInv, FetchInv, Fresh
    <2> QED BY <2>2, <2>3, <2>4, <2>5, Reported DEF AppliedInv
  <1> QED BY <1>1, <1>2, <1>3, <1>4, <1>5, <1>6 DEF Administer, Report

LEMMA AppliedStep == TypeOK /\ NodeInv /\ AppliedInv /\ [Next]_vars => AppliedInv'
  <1> SUFFICES ASSUME TypeOK, NodeInv, AppliedInv, [Next]_vars PROVE AppliedInv'
    OBVIOUS
  <1>1. CASE UNCHANGED vars
    BY <1>1, RowMoves DEF vars
  <1> QED BY <1>1, AppliedEnrol, AppliedConfirm, AppliedPoll, AppliedRow DEF Next

(* Once the server reads its own version back, the agent runs the desired     *)
(* printers and keeps the staged secret, in whatever order polls, events,      *)
(* fetches and rotations arrive.                                              *)
THEOREM AppliedIsApplied == Spec => []AppliedMeansApplied
  <1>1. TypeOK /\ AppliedInv => AppliedMeansApplied
    <2> SUFFICES ASSUME TypeOK, AppliedInv, NEW i \in Installs, Enrolled(i),
                        deployment.applied = deployment.configVersion
                 PROVE  /\ agent[i].desired = deployment.desired
                        /\ deployment.pending # NoCredential => deployment.pending = agent[i].pending
      BY DEF AppliedMeansApplied
    <2>1. agent[i].applied = deployment.configVersion
      BY Numbers DEF AppliedInv, ReportInv
    <2> QED BY <2>1 DEF AppliedInv, ReportInv, Fresh
  <1> QED BY <1>1, TypeCorrect, NodeInvariant, AppliedStarts, AppliedStep, PTL DEF Spec
=============================================================================
