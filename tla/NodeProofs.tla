----------------------------- MODULE NodeProofs -----------------------------
(***************************************************************************)
(* Theorems about EdgeNode for any set of installations and any number of   *)
(* requests in flight.                                                      *)
(***************************************************************************)
EXTENDS EdgeNode, TLAPS

-----------------------------------------------------------------------------
(* What a request in flight carries, by its phase. *)

LEMMA EnrolFields ==
    ASSUME TypeOK, NEW s \in EnrolSlots, enrols[s].phase \in {"read", "claim", "reread", "answer"}
    PROVE  /\ enrols[s] \in [phase : {"read", "claim", "reread", "answer"}, by : Installs, token : Nat,
                             awaited : BOOLEAN, reply : Credentials]
           /\ enrols[s] \notin {Unsent, Idle}
  BY DEF TypeOK, Enrolments, Idle, Unsent

LEMMA ConfirmFields ==
    ASSUME TypeOK, NEW s \in ConfirmSlots, confirms[s].phase \in {"read", "promote", "check", "answer"}
    PROVE  /\ confirms[s] \in [phase : {"read", "promote", "check", "answer"}, by : Installs,
                               credential : Credentials, awaited : BOOLEAN, seen : Nat]
           /\ confirms[s] # Idle
  BY DEF TypeOK, Confirmations, Idle

LEMMA PollShapes ==
    ASSUME TypeOK, NEW s \in PollSlots
    PROVE  /\ polls[s].phase \in {"read", "update"} =>
                polls[s] \in [phase : {"read", "update"}, by : Installs, secret : Nat,
                              applied : ConfigVersions, awaited : BOOLEAN]
           /\ polls[s].phase = "look" => polls[s] \in [phase : {"look"}, by : Installs, awaited : {TRUE}]
           /\ polls[s].phase \in {"config_auth", "config"} =>
                polls[s] \in [phase : {"config_auth", "config"}, by : Installs, secret : Nat, awaited : {TRUE}]
           /\ polls[s].phase = "answer" =>
                polls[s] \in [phase : {"answer"}, by : Installs, awaited : {TRUE}, configVersion : ConfigVersions,
                              desired : Nat, pending : Credentials]
           /\ polls[s] # Idle => polls[s].phase \in {"read", "update", "look", "config_auth", "config", "answer"}
  <1>1. polls[s] \in Polls
    BY DEF TypeOK
  <1>2. CASE polls[s] = Idle
    BY <1>2 DEF Idle
  <1>3. CASE polls[s] \in [phase : {"read", "update"}, by : Installs, secret : Nat,
                           applied : ConfigVersions, awaited : BOOLEAN]
    BY <1>3
  <1>4. CASE polls[s] \in [phase : {"look"}, by : Installs, awaited : {TRUE}]
    BY <1>4
  <1>5. CASE polls[s] \in [phase : {"config_auth", "config"}, by : Installs, secret : Nat, awaited : {TRUE}]
    BY <1>5
  <1>6. CASE polls[s] \in [phase : {"answer"}, by : Installs, awaited : {TRUE}, configVersion : ConfigVersions,
                           desired : Nat, pending : Credentials]
    BY <1>6
  <1> QED BY <1>1, <1>2, <1>3, <1>4, <1>5, <1>6 DEF Polls

LEMMA PollFields ==
    ASSUME TypeOK, NEW s \in PollSlots
    PROVE  /\ polls[s].phase \in {"read", "update"} =>
                /\ polls[s].by \in Installs /\ polls[s].secret \in Nat
                /\ polls[s].applied \in ConfigVersions /\ polls[s].awaited \in BOOLEAN
           /\ polls[s].phase = "look" => polls[s].by \in Installs /\ polls[s].awaited = TRUE
           /\ polls[s].phase \in {"config_auth", "config"} =>
                polls[s].by \in Installs /\ polls[s].secret \in Nat /\ polls[s].awaited = TRUE
           /\ polls[s].phase = "answer" =>
                /\ polls[s].by \in Installs /\ polls[s].configVersion \in ConfigVersions
                /\ polls[s].desired \in Nat /\ polls[s].pending \in Credentials /\ polls[s].awaited = TRUE
  BY PollShapes

-----------------------------------------------------------------------------
(* Type correctness.  A version once applied stays one there has been,        *)
(* because the configuration's version only rises.                            *)

LEMMA VersionsStay ==
    ASSUME TypeOK, deployment' \in Deployments', deployment'.configVersion >= deployment.configVersion
    PROVE  /\ ConfigVersions \subseteq ConfigVersions'
           /\ agent \in [Installs -> Agents']
           /\ polls \in [PollSlots -> Polls']
  <1>1. deployment.configVersion \in Nat /\ deployment'.configVersion \in Nat
    BY DEF TypeOK, Deployments
  <1>2. ConfigVersions \subseteq ConfigVersions'
    BY <1>1 DEF ConfigVersions
  <1>3. Agents \subseteq Agents'
    BY <1>2 DEF Agents
  <1>4. Polls \subseteq Polls'
    BY <1>2 DEF Polls
  <1> QED BY <1>2, <1>3, <1>4 DEF TypeOK

LEMMA SameRow ==
    ASSUME TypeOK, UNCHANGED deployment
    PROVE  deployment' \in Deployments' /\ Agents' = Agents /\ Polls' = Polls
  <1>1. ConfigVersions' = ConfigVersions
    BY DEF ConfigVersions
  <1>2. Deployments' = Deployments /\ Agents' = Agents /\ Polls' = Polls
    BY <1>1 DEF Deployments, Agents, Polls
  <1> QED BY <1>2 DEF TypeOK

LEMMA InitialTypes == Init => TypeOK
  <1> SUFFICES ASSUME Init PROVE TypeOK
    OBVIOUS
  <1>1. 0 \in ConfigVersions
    BY DEF Init, ConfigVersions
  <1>2. deployment \in Deployments
    BY <1>1 DEF Init, Deployments, Credentials, NoCredential
  <1>3. agent \in [Installs -> Agents]
    BY <1>1 DEF Init, Agents, Credentials, NoCredential
  <1> QED BY <1>2, <1>3 DEF Init, TypeOK, Enrolments, Confirmations, Polls, Stagings

LEMMA EnrolTypes == ASSUME TypeOK, Enrol PROVE TypeOK'
  <1> SUFFICES ASSUME NEW s \in EnrolSlots,
                      \/ \E i \in Installs : EnrolSend(i, s)
                      \/ EnrolRead(s) \/ EnrolClaim(s) \/ EnrolReread(s) \/ EnrolAnswer(s) \/ GiveUpEnrol(s)
               PROVE  TypeOK'
    BY DEF Enrol
  <1> DEFINE e == enrols[s]
  <1> USE DEF serverVars
  <1>a. deployment.active \in Credentials /\ deployment.token \in Nat /\ deployment.configVersion \in Nat
    BY DEF TypeOK, Deployments
  <1>b. Idle \in Enrolments
    BY DEF Enrolments
  <1>c. ASSUME e.phase \in {"read", "claim", "reread"}
        PROVE  /\ [e EXCEPT !.phase = "answer", !.reply = deployment.active] \in Enrolments
               /\ [e EXCEPT !.phase = "claim"] \in Enrolments
               /\ [e EXCEPT !.phase = "reread"] \in Enrolments
               /\ [e EXCEPT !.awaited = FALSE] \in Enrolments
    BY <1>a, <1>c, EnrolFields DEF Enrolments
  <1>1. ASSUME NEW i \in Installs, EnrolSend(i, s) PROVE TypeOK'
    <2>1. NoCredential \in Credentials
      BY DEF Credentials, NoCredential
    <2>2. PICK t \in 1 .. deployment.token :
            enrols' = [enrols EXCEPT ![s] = [phase |-> "read", by |-> i, token |-> t,
                                             awaited |-> TRUE, reply |-> NoCredential]]
      BY <1>1 DEF EnrolSend
    <2>3. enrols' \in [EnrolSlots -> Enrolments]
      BY <1>a, <2>1, <2>2 DEF TypeOK, Enrolments
    <2> QED BY <1>1, <2>3, SameRow DEF EnrolSend, TypeOK
  <1>2. CASE EnrolRead(s)
    BY <1>2, <1>b, <1>c, SameRow DEF EnrolRead, Onward, TypeOK
  <1>3. CASE EnrolClaim(s)
    <2>1. e.by \in Installs
      BY <1>3, EnrolFields DEF EnrolClaim
    <2>2. deployment' \in Deployments' /\ deployment'.configVersion = deployment.configVersion
      BY ZenonT(40), <1>3, <2>1 DEF EnrolClaim, TypeOK, Deployments, ConfigVersions
    <2>3. enrols' \in [EnrolSlots -> Enrolments]
      BY <1>3, <1>b, <1>c DEF EnrolClaim, Onward, TypeOK
    <2> QED BY <1>3, <1>a, <2>2, <2>3, VersionsStay DEF EnrolClaim, TypeOK
  <1>4. CASE EnrolReread(s)
    BY <1>4, <1>b, <1>c, SameRow DEF EnrolReread, TypeOK
  <1>5. CASE EnrolAnswer(s)
    <2>1. e.by \in Installs /\ e.reply \in Credentials
      BY <1>5, EnrolFields DEF EnrolAnswer
    <2>2. agent' \in [Installs -> Agents]
      BY <1>5, <2>1 DEF EnrolAnswer, TypeOK, Agents
    <2> QED BY <1>5, <1>b, <2>2, SameRow DEF EnrolAnswer, TypeOK
  <1>6. CASE GiveUpEnrol(s)
    BY <1>6, <1>b, <1>c, SameRow DEF GiveUpEnrol, GiveUp, TypeOK
  <1> QED BY <1>1, <1>2, <1>3, <1>4, <1>5, <1>6

LEMMA ConfirmTypes == ASSUME TypeOK, Confirm PROVE TypeOK'
  <1> SUFFICES ASSUME NEW s \in ConfirmSlots,
                      \/ \E i \in Installs : ConfirmSend(i, s)
                      \/ ConfirmRead(s) \/ ConfirmPromote(s) \/ ConfirmCheck(s)
                      \/ ConfirmAnswer(s) \/ GiveUpConfirm(s)
               PROVE  TypeOK'
    BY DEF Confirm
  <1> DEFINE c == confirms[s]
  <1> USE DEF serverVars
  <1>a. deployment.active.version \in Nat /\ deployment.configVersion \in Nat /\ NoCredential \in Credentials
    BY DEF TypeOK, Deployments, Credentials, NoCredential
  <1>b. Idle \in Confirmations
    BY DEF Confirmations
  <1>c. ASSUME c.phase \in {"read", "promote", "check"}
        PROVE  /\ [c EXCEPT !.phase = "answer"] \in Confirmations
               /\ [c EXCEPT !.phase = "answer", !.seen = 0] \in Confirmations
               /\ [c EXCEPT !.phase = "check", !.seen = 0] \in Confirmations
               /\ [c EXCEPT !.phase = "promote", !.seen = deployment.active.version] \in Confirmations
               /\ [c EXCEPT !.awaited = FALSE] \in Confirmations
    BY <1>a, <1>c, ConfirmFields DEF Confirmations
  <1>1. ASSUME NEW i \in Installs, ConfirmSend(i, s) PROVE TypeOK'
    <2>1. agent[i].pending \in Credentials
      BY DEF TypeOK, Agents
    <2>2. confirms' \in [ConfirmSlots -> Confirmations]
      BY <1>1, <2>1 DEF ConfirmSend, TypeOK, Confirmations
    <2> QED BY <1>1, <2>2, SameRow DEF ConfirmSend, TypeOK
  <1>2. CASE ConfirmRead(s)
    <2>1. CASE confirms' = [confirms EXCEPT ![s] = Onward(@, [@ EXCEPT !.phase = "answer"])]
      BY <1>2, <2>1, <1>b, <1>c, SameRow DEF ConfirmRead, Onward, TypeOK
    <2>2. CASE confirms' = [confirms EXCEPT ![s].phase = "promote", ![s].seen = deployment.active.version]
      <3>1. confirms' = [confirms EXCEPT ![s] =
                            [c EXCEPT !.phase = "promote", !.seen = deployment.active.version]]
        BY <2>2 DEF TypeOK
      <3> QED BY <1>2, <3>1, <1>c, SameRow DEF ConfirmRead, TypeOK
    <2>3. CASE confirms' = [confirms EXCEPT ![s] = Idle]
      BY <1>2, <2>3, <1>b, SameRow DEF ConfirmRead, TypeOK
    <2> QED BY <1>2, <2>1, <2>2, <2>3 DEF ConfirmRead
  <1>3. CASE ConfirmPromote(s)
    <2>1. c.credential \in Credentials
      BY <1>3, ConfirmFields DEF ConfirmPromote
    <2>2. deployment' \in Deployments' /\ deployment'.configVersion = deployment.configVersion
      BY <1>3, <1>a, <2>1 DEF ConfirmPromote, TypeOK, Deployments, ConfigVersions
    <2>3. confirms' \in [ConfirmSlots -> Confirmations]
      BY <1>3, <1>b, <1>c DEF ConfirmPromote, Onward, TypeOK
    <2> QED BY <1>3, <1>a, <2>2, <2>3, VersionsStay DEF ConfirmPromote, TypeOK
  <1>4. CASE ConfirmCheck(s)
    BY <1>4, <1>b, <1>c, SameRow DEF ConfirmCheck, TypeOK
  <1>5. CASE ConfirmAnswer(s)
    <2>1. c.credential \in Credentials /\ c.by \in Installs
      BY <1>5, ConfirmFields DEF ConfirmAnswer
    <2>2. agent' \in [Installs -> Agents]
      <3> DEFINE a == agent[c.by]
                 activated == [a EXCEPT !.active = IF c.credential.version > @.version THEN c.credential ELSE @,
                                        !.pending = IF @ = c.credential THEN NoCredential ELSE @]
      <3>1. a \in Agents
        BY <2>1 DEF TypeOK
      <3>2. activated \in Agents
        BY <3>1, <2>1, <1>a DEF Agents
      <3>3. agent' = [agent EXCEPT ![c.by] = activated]
        BY <1>5 DEF ConfirmAnswer
      <3> QED BY <3>2, <3>3 DEF TypeOK
    <2> QED BY <1>5, <1>b, <2>2, SameRow DEF ConfirmAnswer, TypeOK
  <1>6. CASE GiveUpConfirm(s)
    BY <1>6, <1>b, <1>c, SameRow DEF GiveUpConfirm, GiveUp, TypeOK
  <1> QED BY <1>1, <1>2, <1>3, <1>4, <1>5, <1>6

LEMMA PollTypes == ASSUME TypeOK, Poll PROVE TypeOK'
  <1> SUFFICES ASSUME NEW s \in PollSlots,
                      \/ \E i \in Installs : PollSend(i, s)
                      \/ PollRead(s) \/ PollUpdate(s) \/ PollAnswer(s)
                      \/ ConfigAuth(s) \/ ConfigRead(s) \/ ConfigAnswer(s) \/ GiveUpPoll(s)
               PROVE  TypeOK'
    BY DEF Poll
  <1> DEFINE p == polls[s]
  <1> USE DEF serverVars
  <1>a. deployment.configVersion \in Nat
    BY DEF TypeOK, Deployments
  <1>b. Idle \in Polls
    BY DEF Polls
  <1>c. ASSUME p.phase \in {"read", "update"}
        PROVE  /\ [p EXCEPT !.phase = "update"] \in Polls
               /\ [p EXCEPT !.awaited = FALSE] \in Polls
               /\ p.applied \in ConfigVersions
               /\ [phase |-> "look", by |-> p.by, awaited |-> TRUE] \in Polls
    <2>1. p \in [phase : {"read", "update"}, by : Installs, secret : Nat,
                 applied : ConfigVersions, awaited : BOOLEAN]
      BY <1>c, PollShapes
    <2>2. p.by \in Installs
      BY <2>1
    <2> QED BY <2>1, <2>2 DEF Polls
  <1>d. ASSUME p.phase = "config_auth" PROVE [p EXCEPT !.phase = "config"] \in Polls
    <2>1. p \in [phase : {"config_auth", "config"}, by : Installs, secret : Nat, awaited : {TRUE}]
      BY <1>d, PollShapes
    <2> QED BY <2>1 DEF Polls
  <1>1. ASSUME NEW i \in Installs, PollSend(i, s) PROVE TypeOK'
    <2>1. agent[i].active.secret \in Nat /\ agent[i].applied \in ConfigVersions
      BY DEF TypeOK, Agents, Credentials
    <2>2. polls' \in [PollSlots -> Polls]
      BY <1>1, <2>1 DEF PollSend, TypeOK, Polls
    <2> QED BY <1>1, <2>2, SameRow DEF PollSend, TypeOK
  <1>2. CASE PollRead(s)
    BY <1>2, <1>b, <1>c, SameRow DEF PollRead, AuthenticateAs, TypeOK
  <1>3. CASE PollUpdate(s)
    <2>1. p.applied \in ConfigVersions
      BY <1>3, <1>c DEF PollUpdate
    <2>2. deployment' \in Deployments' /\ deployment'.configVersion = deployment.configVersion
      BY <1>3, <2>1 DEF PollUpdate, TypeOK, Deployments, ConfigVersions
    <2>3. polls' \in [PollSlots -> Polls]
      BY <1>3, <1>b, <1>c DEF PollUpdate, Onward, TypeOK
    <2>4. Polls' = Polls
      BY <2>2 DEF Polls, ConfigVersions
    <2> QED BY <1>3, <1>a, <2>2, <2>3, <2>4, VersionsStay DEF PollUpdate, TypeOK
  <1>4. CASE PollAnswer(s)
    <2>1. p.by \in Installs
      BY <1>4, PollFields DEF PollAnswer
    <2>2. agent[p.by].active.secret \in Nat
      BY <2>1 DEF TypeOK, Agents, Credentials
    <2>3. [phase |-> "config_auth", by |-> p.by, secret |-> agent[p.by].active.secret, awaited |-> TRUE] \in Polls
      BY <2>1, <2>2 DEF Polls
    <2> QED BY <1>4, <1>b, <2>3, SameRow DEF PollAnswer, TypeOK
  <1>5. CASE ConfigAuth(s)
    BY <1>5, <1>b, <1>d, SameRow DEF ConfigAuth, AuthenticateAs, TypeOK
  <1>6. CASE ConfigRead(s)
    <2>1. p.by \in Installs
      BY <1>6, PollFields DEF ConfigRead
    <2>2. [phase |-> "answer", by |-> p.by, awaited |-> TRUE, configVersion |-> deployment.configVersion,
           desired |-> deployment.desired, pending |-> deployment.pending] \in Polls
      <3>1. deployment.configVersion \in ConfigVersions
        BY <1>a DEF ConfigVersions
      <3>2. deployment.desired \in Nat /\ deployment.pending \in Credentials
        BY DEF TypeOK, Deployments
      <3> QED BY <2>1, <3>1, <3>2 DEF Polls
    <2> QED BY <1>6, <2>2, SameRow DEF ConfigRead, TypeOK
  <1>7. CASE ConfigAnswer(s)
    <2>1. /\ p.by \in Installs /\ p.configVersion \in ConfigVersions
          /\ p.desired \in Nat /\ p.pending \in Credentials
      BY <1>7, PollFields DEF ConfigAnswer
    <2>2. agent' \in [Installs -> Agents]
      BY <1>7, <2>1 DEF ConfigAnswer, TypeOK, Agents
    <2> QED BY <1>7, <1>b, <2>2, SameRow DEF ConfigAnswer, TypeOK
  <1>8. CASE GiveUpPoll(s)
    BY <1>8, <1>b, <1>c, SameRow DEF GiveUpPoll, GiveUp, TypeOK
  <1> QED BY <1>1, <1>2, <1>3, <1>4, <1>5, <1>6, <1>7, <1>8

(* The row stays well typed when its version does not fall. *)
LEMMA RowStays ==
    ASSUME TypeOK, deployment' \in Deployments, deployment'.configVersion >= deployment.configVersion
    PROVE  deployment' \in Deployments'
  <1>1. deployment.configVersion \in Nat /\ deployment'.configVersion \in Nat
    BY DEF TypeOK, Deployments
  <1>2. ConfigVersions \subseteq ConfigVersions'
    BY <1>1 DEF ConfigVersions
  <1>3. Deployments \subseteq Deployments'
    BY <1>2 DEF Deployments
  <1> QED BY <1>3

(* What an administrator, the clock or an event does to the row. *)
LEMMA RowTypes ==
    ASSUME TypeOK, TokenExpires \/ Report \/ Administer
    PROVE  TypeOK'
  <1> USE DEF serverVars
  <1>1. deployment.configVersion \in Nat
    BY DEF TypeOK, Deployments
  <1>2. CASE TokenExpires
    <2>1. deployment' \in Deployments /\ deployment'.configVersion >= deployment.configVersion
      <3>1. deployment \in Deployments
        BY DEF TypeOK
      <3>2. deployment' \in Deployments
        BY <1>1, <1>2, <3>1 DEF TokenExpires, TypeOK, Deployments
      <3> QED BY <1>1, <1>2, <3>1, <3>2 DEF TokenExpires, Deployments
    <2> QED BY <1>2, <2>1, RowStays, VersionsStay DEF TokenExpires, TypeOK
  <1>3. CASE IssueToken
    <2>1. deployment' \in Deployments /\ deployment'.configVersion >= deployment.configVersion
      <3>1. deployment \in Deployments
        BY DEF TypeOK
      <3>2. deployment' \in Deployments
        <4>1. deployment.token + 1 \in Nat \ {0}
          BY <3>1 DEF Deployments
        <4>2. deployment' = [deployment EXCEPT !.token = deployment.token + 1, !.expired = FALSE, !.used = FALSE]
          BY <1>3 DEF IssueToken
        <4> QED BY <3>1, <4>1, <4>2 DEF Deployments
      <3> QED BY <1>1, <1>3, <3>1, <3>2 DEF IssueToken, Deployments
    <2> QED BY <1>3, <2>1, RowStays, VersionsStay DEF IssueToken, TypeOK
  <1>4. CASE SetPrinters
    <2>1. deployment' \in Deployments /\ deployment'.configVersion >= deployment.configVersion
      <3>1. deployment \in Deployments
        BY DEF TypeOK
      <3>2. deployment' \in Deployments
        <4>1. edits + 1 \in Nat /\ deployment.configVersion + 1 \in Nat
          BY <1>1 DEF TypeOK
        <4>2. deployment' = [deployment EXCEPT !.desired = edits + 1,
                                               !.configVersion = deployment.configVersion + 1]
          BY <1>4 DEF SetPrinters, WithPrinters
        <4> QED BY <3>1, <4>1, <4>2 DEF Deployments
      <3> QED BY <1>1, <1>4, <3>1, <3>2 DEF SetPrinters, WithPrinters, Deployments
    <2> QED BY <1>4, <2>1, RowStays, VersionsStay DEF SetPrinters, TypeOK
  <1>5. CASE Revoke
    <2>1. deployment' \in Deployments /\ deployment'.configVersion >= deployment.configVersion
      <3>1. deployment \in Deployments
        BY DEF TypeOK
      <3>2. deployment' \in Deployments
        BY <1>1, <1>5, <3>1 DEF Revoke, TypeOK, Deployments
      <3> QED BY <1>1, <1>5, <3>1, <3>2 DEF Revoke, Deployments
    <2> QED BY <1>5, <2>1, RowStays, VersionsStay DEF Revoke, TypeOK
  <1>6. ASSUME NEW s \in StageSlots, StageRead(s) PROVE TypeOK'
    BY <1>6, SameRow DEF StageRead, TypeOK, Stagings, Deployments
  <1>7. ASSUME NEW s \in StageSlots, StageWrite(s) PROVE TypeOK'
    <2>1. stages[s].seen \in Credentials
      BY <1>7 DEF StageWrite, TypeOK, Stagings, Idle
    <2>2. CASE UNCHANGED <<deployment, drawn>> /\ stages' = [stages EXCEPT ![s] = Idle]
      BY <1>7, <2>2, SameRow DEF StageWrite, TypeOK, Stagings
    <2>3. CASE /\ drawn' = drawn + 1
               /\ deployment' = Staged(stages[s].seen, drawn + 1)
               /\ stages' = [stages EXCEPT ![s] = Idle]
      <3>1. [version |-> stages[s].seen.version + 1, secret |-> drawn + 1] \in Credentials
        BY <2>1 DEF TypeOK, Credentials
      <3>2. deployment' \in Deployments /\ deployment'.configVersion >= deployment.configVersion
        <4> DEFINE staged == [version |-> stages[s].seen.version + 1, secret |-> drawn + 1]
        <4>1. deployment \in Deployments /\ deployment.configVersion + 1 \in Nat
          BY <1>1 DEF TypeOK
        <4>2. deployment' = [deployment EXCEPT !.pending = staged,
                                               !.configVersion = deployment.configVersion + 1]
          BY <2>3 DEF Staged
        <4> HIDE DEF staged
        <4>3. deployment' \in Deployments
          BY <3>1, <4>1, <4>2 DEF Deployments, staged
        <4>4. deployment'.configVersion = deployment.configVersion + 1
          BY <4>1, <4>2 DEF Deployments
        <4> QED BY <1>1, <4>3, <4>4
      <3> QED BY <1>7, <2>3, <3>2, RowStays, VersionsStay DEF StageWrite, TypeOK, Stagings
    <2> QED BY <1>7, <2>2, <2>3 DEF StageWrite
  <1>8. ASSUME NEW i \in Installs, ConfigApplied(i) PROVE TypeOK'
    <2>1. PICK v \in 1 .. agent[i].applied : deployment' = [deployment EXCEPT !.applied = v]
      BY <1>8 DEF ConfigApplied
    <2>2. agent[i].applied \in ConfigVersions
      BY DEF TypeOK, Agents
    <2>3. v \in ConfigVersions
      BY <1>1, <2>2 DEF ConfigVersions
    <2>4. deployment \in Deployments
      BY DEF TypeOK
    <2>5. deployment' \in Deployments
      BY <2>1, <2>3, <2>4 DEF Deployments
    <2>6. deployment'.configVersion >= deployment.configVersion
      BY <1>1, <2>1, <2>4 DEF Deployments
    <2> QED BY <1>8, <2>5, <2>6, RowStays, VersionsStay DEF ConfigApplied, TypeOK
  <1> QED BY <1>2, <1>3, <1>4, <1>5, <1>6, <1>7, <1>8 DEF Administer, Report

LEMMA TypeStep == TypeOK /\ [Next]_vars => TypeOK'
  <1> SUFFICES ASSUME TypeOK, [Next]_vars PROVE TypeOK'
    OBVIOUS
  <1>1. CASE UNCHANGED vars
    BY <1>1, SameRow DEF vars, TypeOK
  <1> QED BY <1>1, EnrolTypes, ConfirmTypes, PollTypes, RowTypes DEF Next

(* The state of the node, its agents and every request in flight is well      *)
(* typed; no reported or fetched configuration is newer than the server's.    *)
THEOREM TypeCorrect == Spec => []TypeOK
  BY InitialTypes, TypeStep, PTL DEF Spec

(* A staged secret stays until it is promoted: only a promotion takes it, and *)
(* a rotation stages nothing over it.                                         *)
THEOREM StagedStands == Spec => StagedSecretStands
  <1> DEFINE Stands == \/ deployment'.pending = deployment.pending
                       \/ deployment'.pending = NoCredential /\ deployment'.active = deployment.pending
  <1>1. TypeOK /\ [Next]_vars => [deployment.pending # NoCredential => Stands]_vars
    <2> SUFFICES ASSUME TypeOK, Next, deployment.pending # NoCredential PROVE Stands
      BY DEF vars
    <2> USE DEF TypeOK, Deployments, serverVars
    <2>1. CASE Enrol
      BY <2>1 DEF Enrol, EnrolSend, EnrolRead, EnrolClaim, EnrolReread, EnrolAnswer, GiveUpEnrol
    <2>2. CASE TokenExpires
      BY <2>2 DEF TokenExpires
    <2>3. CASE Confirm
      BY <2>3 DEF Confirm, ConfirmSend, ConfirmRead, ConfirmPromote, PromotionLands, ConfirmCheck,
                  ConfirmAnswer, GiveUpConfirm
    <2>4. CASE Poll
      BY <2>4 DEF Poll, PollSend, PollRead, PollUpdate, PollAnswer, ConfigAuth, AuthenticateAs, ConfigRead,
                  ConfigAnswer, GiveUpPoll
    <2>5. CASE Administer
      BY <2>5 DEF Administer, IssueToken, SetPrinters, WithPrinters, Revoke, StageRead, StageWrite, StageLands
    <2>6. CASE Report
      BY <2>6 DEF Report, ConfigApplied
    <2> QED BY <2>1, <2>2, <2>3, <2>4, <2>5, <2>6 DEF Next
  <1> QED BY <1>1, TypeCorrect, PTL DEF Spec, StagedSecretStands

-----------------------------------------------------------------------------
(* The inductive invariant of rotation.                                       *)

(* A credential the node has had, has, or has staged. *)
Known(c) ==
    \/ c.version < deployment.active.version
    \/ c = deployment.active
    \/ c = deployment.pending /\ c # NoCredential

RowInv ==
    /\ deployment.active.version >= 1
    /\ deployment.pending # NoCredential => deployment.pending.version = deployment.active.version + 1

(* What an agent is about to confirm it knows; what it signs with was active. *)
AgentInv(i) ==
    /\ Known(agent[i].pending)
    /\ agent[i].pending # NoCredential => Enrolled(i)
    /\ agent[i].active.version < deployment.active.version \/ agent[i].active = deployment.active
    /\ Enrolled(i) => deployment.installId = i /\ Keeps(i) \cap Accepted # {}

Awaited(r) == r \notin {Unsent, Idle} /\ r.awaited

(* An agent waits for one reply of a kind at a time. *)
Lone(requests) ==
    \A s, t \in DOMAIN requests :
        Awaited(requests[s]) /\ Awaited(requests[t]) /\ requests[s].by = requests[t].by => s = t

(* A credential is given out to the installation of the row, while nobody can *)
(* rotate it yet.                                                             *)
EnrolInv(s) ==
    /\ Awaited(enrols[s]) => ~Enrolled(enrols[s].by)
    /\ enrols[s].phase \in {"reread", "answer"} => enrols[s].awaited
    /\ enrols[s].phase = "answer" =>
            deployment.installId = enrols[s].by /\ enrols[s].reply = deployment.active

(* A confirmation under way is of a secret its agent still keeps, unless the  *)
(* promotion can no longer happen.                                            *)
ConfirmInv(s) ==
    confirms[s] # Idle =>
        /\ Enrolled(confirms[s].by)
        /\ confirms[s].credential # NoCredential
        /\ Known(confirms[s].credential)
        /\ confirms[s].phase \in {"read", "promote"} /\ confirms[s].credential = deployment.pending =>
                confirms[s].credential \in Keeps(confirms[s].by)
        /\ confirms[s].phase = "answer" => confirms[s].credential.version <= deployment.active.version

(* A configuration never carries an older staged secret than its agent keeps. *)
PollInv(s) ==
    /\ polls[s] # Idle => Enrolled(polls[s].by)
    /\ polls[s].phase = "answer" =>
            /\ Known(polls[s].pending)
            /\ polls[s].pending = NoCredential \/ polls[s].pending.version >= agent[polls[s].by].pending.version

NodeInv ==
    /\ RowInv
    /\ \A i \in Installs : AgentInv(i)
    /\ Lone(enrols) /\ \A s \in EnrolSlots : EnrolInv(s)
    /\ \A s \in ConfirmSlots : ConfirmInv(s)
    /\ Lone(polls) /\ \A s \in PollSlots : PollInv(s)

LEMMA CredentialFields ==
    ASSUME TypeOK
    PROVE  /\ deployment.active \in Credentials /\ deployment.pending \in Credentials
           /\ deployment.active.version \in Nat /\ deployment.pending.version \in Nat
           /\ NoCredential \in Credentials /\ NoCredential.version = 0
           /\ \A i \in Installs : /\ agent[i].active \in Credentials /\ agent[i].pending \in Credentials
                                  /\ agent[i].active.version \in Nat /\ agent[i].pending.version \in Nat
  BY DEF TypeOK, Deployments, Agents, Credentials, NoCredential

(* A slot that goes on with the request it has, or ends it, stays alone. *)
LEMMA LoneStays ==
    ASSUME NEW S, NEW T, NEW requests \in [S -> T], NEW s \in S, NEW r,
           Lone(requests), Awaited(r) => Awaited(requests[s]) /\ r.by = requests[s].by
    PROVE  Lone([requests EXCEPT ![s] = r])
  BY DEF Lone

(* And so does a new request, when its agent awaits no other. *)
LEMMA LoneStarts ==
    ASSUME NEW S, NEW T, NEW requests \in [S -> T], NEW s \in S, NEW r,
           Lone(requests), Awaited(r) => ~Awaits(requests, r.by)
    PROVE  Lone([requests EXCEPT ![s] = r])
  BY DEF Lone, Awaits, Awaited

(* A step that leaves credentials, installation and agents as they are keeps  *)
(* everything said of them and of the requests it does not touch.             *)
LEMMA Quiet ==
    ASSUME TypeOK, NodeInv, agent' = agent, deployment'.active = deployment.active,
           deployment'.pending = deployment.pending, deployment'.installId = deployment.installId
    PROVE  /\ RowInv' /\ \A i \in Installs : AgentInv(i)' /\ (Enrolled(i)' <=> Enrolled(i)) /\ Keeps(i)' = Keeps(i)
           /\ \A c : Known(c)' <=> Known(c)
           /\ \A s \in EnrolSlots : enrols'[s] = enrols[s] => EnrolInv(s)'
           /\ \A s \in ConfirmSlots : confirms'[s] = confirms[s] => ConfirmInv(s)'
           /\ \A s \in PollSlots : polls'[s] = polls[s] => PollInv(s)'
  <1>1. \A i : (Enrolled(i)' <=> Enrolled(i)) /\ Keeps(i)' = Keeps(i)
    BY DEF Enrolled, Keeps
  <1>2. \A c : Known(c)' <=> Known(c)
    BY DEF Known
  <1>3. RowInv' /\ \A i \in Installs : AgentInv(i)'
    BY <1>1, <1>2 DEF NodeInv, RowInv, AgentInv, Accepted
  <1>4. ASSUME NEW s \in EnrolSlots, enrols'[s] = enrols[s] PROVE EnrolInv(s)'
    BY <1>1, <1>4 DEF NodeInv, EnrolInv, Awaited
  <1>5. ASSUME NEW s \in ConfirmSlots, confirms'[s] = confirms[s] PROVE ConfirmInv(s)'
    BY <1>1, <1>2, <1>5 DEF NodeInv, ConfirmInv
  <1>6. ASSUME NEW s \in PollSlots, polls'[s] = polls[s] PROVE PollInv(s)'
    BY <1>1, <1>2, <1>6 DEF NodeInv, PollInv
  <1> QED BY <1>1, <1>2, <1>3, <1>4, <1>5, <1>6

LEMMA NodeStarts == Init => NodeInv
  <1> SUFFICES ASSUME Init PROVE NodeInv
    OBVIOUS
  <1> USE DEF Init
  <1>1. RowInv
    BY DEF RowInv, NoCredential
  <1>2. ASSUME NEW i \in Installs PROVE AgentInv(i)
    <2>1. agent[i].active = NoCredential /\ agent[i].pending = NoCredential
      OBVIOUS
    <2>2. NoCredential.version < deployment.active.version
      BY DEF NoCredential
    <2> QED BY <2>1, <2>2 DEF AgentInv, Known, Enrolled
  <1>3. Lone(enrols) /\ \A s \in EnrolSlots : EnrolInv(s)
    BY DEF Lone, EnrolInv, Awaited, Unsent, Idle
  <1>4. \A s \in ConfirmSlots : ConfirmInv(s)
    BY DEF ConfirmInv
  <1>5. Lone(polls) /\ \A s \in PollSlots : PollInv(s)
    BY DEF Lone, PollInv, Awaited, Idle
  <1> QED BY <1>1, <1>2, <1>3, <1>4, <1>5 DEF NodeInv

(* Enrolment.  The claim and the answer are the steps that are not quiet.     *)
LEMMA EnrolQuietly ==
    ASSUME TypeOK, NodeInv, NEW s \in EnrolSlots, NEW r, enrols' = [enrols EXCEPT ![s] = r],
           agent' = agent, deployment' = deployment, confirms' = confirms, polls' = polls,
           EnrolInv(s)',
           \/ Awaited(r) => Awaited(enrols[s]) /\ r.by = enrols[s].by
           \/ Awaited(r) => ~Awaits(enrols, r.by)
    PROVE  NodeInv'
  <1>1. enrols \in [EnrolSlots -> Enrolments]
    BY DEF TypeOK
  <1>2. Lone(enrols)'
    BY <1>1, LoneStays, LoneStarts DEF NodeInv
  <1>3. \A t \in EnrolSlots \ {s} : enrols'[t] = enrols[t]
    BY <1>1
  <1> QED BY <1>2, <1>3, Quiet DEF NodeInv

LEMMA EnrolSteps == ASSUME TypeOK, NodeInv, Enrol PROVE NodeInv'
  <1> SUFFICES ASSUME NEW s \in EnrolSlots,
                      \/ \E i \in Installs : EnrolSend(i, s)
                      \/ EnrolRead(s) \/ EnrolClaim(s) \/ EnrolReread(s) \/ EnrolAnswer(s) \/ GiveUpEnrol(s)
               PROVE  NodeInv'
    BY DEF Enrol
  <1> DEFINE e == enrols[s]
             answered == [e EXCEPT !.phase = "answer", !.reply = deployment.active]
  <1> USE DEF serverVars
  <1>a. EnrolInv(s) /\ enrols \in [EnrolSlots -> Enrolments] /\ ~Awaited(Idle)
    BY DEF NodeInv, TypeOK, Awaited
  <1>b. ASSUME e.phase \in {"read", "claim", "reread", "answer"}
        PROVE  /\ e.by \in Installs /\ e.awaited \in BOOLEAN /\ Awaited(e) = e.awaited
               /\ answered.phase = "answer" /\ answered.reply = deployment.active
               /\ answered.by = e.by /\ answered.awaited = e.awaited
    BY <1>b, EnrolFields DEF Awaited
  <1>c. Idle.phase = "idle"
    BY DEF Idle
  <1>1. ASSUME NEW i \in Installs, EnrolSend(i, s) PROVE NodeInv'
    <2>1. PICK t \in 1 .. deployment.token :
            enrols' = [enrols EXCEPT ![s] = [phase |-> "read", by |-> i, token |-> t,
                                             awaited |-> TRUE, reply |-> NoCredential]]
      BY <1>1 DEF EnrolSend
    <2> DEFINE r == [phase |-> "read", by |-> i, token |-> t, awaited |-> TRUE, reply |-> NoCredential]
    <2>2. agent' = agent /\ deployment' = deployment /\ confirms' = confirms /\ polls' = polls
      BY <1>1 DEF EnrolSend
    <2>3. ~Enrolled(i)' /\ ~Awaits(enrols, r.by)
      BY <1>1, <2>2 DEF EnrolSend, Enrolled
    <2>4. enrols'[s] = r
      BY <1>a, <2>1
    <2>5. EnrolInv(s)'
      BY <2>3, <2>4 DEF EnrolInv
    <2> HIDE DEF r
    <2> QED BY <2>1, <2>2, <2>3, <2>5, EnrolQuietly DEF r
  <1>2. CASE EnrolRead(s)
    <2>1. agent' = agent /\ deployment' = deployment /\ confirms' = confirms /\ polls' = polls
      BY <1>2 DEF EnrolRead
    <2>2. CASE enrols' = [enrols EXCEPT ![s] = Idle]
      <3>1. EnrolInv(s)'
        BY <1>a, <1>c, <2>2 DEF EnrolInv, Awaited
      <3> QED BY <1>a, <2>1, <2>2, <3>1, EnrolQuietly
    <2>3. CASE /\ ~EnrolRefused(e.by, e.token) /\ deployment.used /\ e.awaited
               /\ enrols' = [enrols EXCEPT ![s] = answered]
      <3>1. e.phase = "read"
        BY <1>2 DEF EnrolRead
      <3>2. deployment'.installId = e.by
        BY <2>1, <2>3 DEF EnrolRefused
      <3>3. enrols'[s] = answered /\ (Enrolled(e.by)' <=> Enrolled(e.by))
        BY <1>a, <2>1, <2>3 DEF Enrolled
      <3>4. EnrolInv(s)'
        BY <1>a, <1>b, <2>1, <2>3, <3>1, <3>2, <3>3 DEF EnrolInv, Awaited
      <3> QED BY <1>b, <2>1, <2>3, <3>1, <3>4, EnrolQuietly DEF Awaited
    <2>4. CASE e.phase = "read" /\ enrols' = [enrols EXCEPT ![s].phase = "claim"]
      <3> DEFINE r == [e EXCEPT !.phase = "claim"]
      <3>1. enrols' = [enrols EXCEPT ![s] = r]
        BY <1>a, <2>4
      <3>2. r.by = e.by /\ r.awaited = e.awaited /\ r.phase = "claim"
        BY <2>4, EnrolFields
      <3>3. enrols'[s] = r /\ (Enrolled(e.by)' <=> Enrolled(e.by))
        BY <1>a, <2>1, <3>1 DEF Enrolled
      <3>4. Awaited(r) => Awaited(e)
        BY <1>b, <2>4, <3>2 DEF Awaited
      <3> HIDE DEF r
      <3>5. EnrolInv(s)'
        BY <1>a, <3>2, <3>3, <3>4 DEF EnrolInv
      <3> QED BY <2>1, <3>1, <3>2, <3>4, <3>5, EnrolQuietly
    <2> QED BY <1>2, <2>2, <2>3, <2>4 DEF EnrolRead, Onward
  <1>3. CASE EnrolClaim(s)
    <2>1. agent' = agent /\ confirms' = confirms /\ polls' = polls /\ e.phase = "claim"
      BY <1>3 DEF EnrolClaim
    <2>2. CASE /\ ClaimLands(e.by, e.token)
               /\ deployment' = [deployment EXCEPT !.status = "active", !.used = TRUE, !.installId = e.by]
      <3> DEFINE r == IF e.awaited THEN answered ELSE Idle
      <3>1. /\ deployment'.active = deployment.active /\ deployment'.pending = deployment.pending
            /\ deployment'.installId = e.by
        BY <2>2 DEF TypeOK, Deployments
      <3>2. \A i \in Installs : deployment.installId = i => i = e.by
        BY <2>2, EdgeNodeAssumption DEF ClaimLands
      <3>3. /\ \A i : (Enrolled(i)' <=> Enrolled(i)) /\ Keeps(i)' = Keeps(i)
            /\ \A c : Known(c)' <=> Known(c)
            /\ Accepted' = Accepted
        BY <2>1, <3>1 DEF Enrolled, Keeps, Known, Accepted
      <3>4. RowInv' /\ \A i \in Installs : AgentInv(i)'
        BY <2>1, <3>1, <3>2, <3>3 DEF NodeInv, RowInv, AgentInv
      <3>5. (\A t \in ConfirmSlots : ConfirmInv(t)') /\ Lone(polls)' /\ \A t \in PollSlots : PollInv(t)'
        BY <2>1, <3>1, <3>3 DEF NodeInv, ConfirmInv, PollInv
      <3>6. /\ enrols' = [enrols EXCEPT ![s] = r] /\ enrols'[s] = r
            /\ \A t \in EnrolSlots \ {s} : enrols'[t] = enrols[t]
        <4>1. enrols' = [enrols EXCEPT ![s] = r]
          BY <1>3, <2>2 DEF EnrolClaim, Onward
        <4> QED BY <1>a, <4>1
      <3>7. Awaited(r) => Awaited(e) /\ r.by = e.by
        BY <1>a, <1>b, <2>1 DEF Awaited
      <3>8. EnrolInv(s)'
        <4>1. CASE e.awaited
          BY <1>a, <1>b, <2>1, <3>1, <3>3, <3>6, <4>1 DEF EnrolInv
        <4>2. CASE ~e.awaited
          BY <1>a, <1>c, <3>6, <4>2 DEF EnrolInv
        <4> QED BY <4>1, <4>2
      <3>9. ASSUME NEW t \in EnrolSlots \ {s} PROVE EnrolInv(t)'
        <4>1. enrols[t].phase = "answer" => enrols[t].by \in Installs
          BY EnrolFields
        <4> QED BY <3>1, <3>2, <3>3, <3>6, <4>1 DEF NodeInv, EnrolInv
      <3>10. Lone(enrols)'
        <4> HIDE DEF r
        <4> QED BY <1>a, <3>6, <3>7, LoneStays DEF NodeInv
      <3> QED BY <3>4, <3>5, <3>8, <3>9, <3>10 DEF NodeInv
    <2>3. CASE deployment' = deployment /\ e.awaited /\ enrols' = [enrols EXCEPT ![s] = [e EXCEPT !.phase = "reread"]]
      <3> DEFINE r == [e EXCEPT !.phase = "reread"]
      <3>1. r.by = e.by /\ r.awaited = e.awaited /\ r.phase = "reread"
        BY <2>1, EnrolFields
      <3>2. enrols'[s] = r /\ (Enrolled(e.by)' <=> Enrolled(e.by))
        BY <1>a, <2>1, <2>3 DEF Enrolled
      <3>3. Awaited(r) => Awaited(e)
        BY <1>b, <2>1, <3>1 DEF Awaited
      <3> HIDE DEF r
      <3>4. EnrolInv(s)'
        BY <1>a, <2>3, <3>1, <3>2, <3>3 DEF EnrolInv
      <3> QED BY <2>1, <2>3, <3>1, <3>3, <3>4, EnrolQuietly DEF r
    <2>4. CASE deployment' = deployment /\ enrols' = [enrols EXCEPT ![s] = Idle]
      <3>1. EnrolInv(s)'
        BY <1>a, <1>c, <2>4 DEF EnrolInv
      <3> QED BY <1>a, <2>1, <2>4, <3>1, EnrolQuietly
    <2> QED BY <1>3, <2>2, <2>3, <2>4 DEF EnrolClaim, Onward
  <1>4. CASE EnrolReread(s)
    <2>1. /\ agent' = agent /\ deployment' = deployment /\ confirms' = confirms /\ polls' = polls
          /\ e.phase = "reread"
      BY <1>4 DEF EnrolReread
    <2>2. CASE enrols' = [enrols EXCEPT ![s] = Idle]
      <3>1. EnrolInv(s)'
        BY <1>a, <1>c, <2>2 DEF EnrolInv
      <3> QED BY <1>a, <2>1, <2>2, <3>1, EnrolQuietly
    <2>3. CASE deployment.installId = e.by /\ enrols' = [enrols EXCEPT ![s] = answered]
      <3>1. enrols'[s] = answered /\ (Enrolled(e.by)' <=> Enrolled(e.by)) /\ e.awaited
        BY <1>a, <2>1, <2>3 DEF Enrolled, EnrolInv
      <3>2. EnrolInv(s)'
        BY <1>a, <1>b, <2>1, <2>3, <3>1 DEF EnrolInv
      <3> QED BY <1>b, <2>1, <2>3, <3>1, <3>2, EnrolQuietly DEF Awaited
    <2> QED BY <1>4, <2>2, <2>3 DEF EnrolReread
  <1>5. CASE EnrolAnswer(s)
    <2>1. /\ deployment' = deployment /\ confirms' = confirms /\ polls' = polls /\ e.phase = "answer"
          /\ agent' = [agent EXCEPT ![e.by].active = e.reply] /\ enrols' = [enrols EXCEPT ![s] = Idle]
      BY <1>5 DEF EnrolAnswer
    <2>2. /\ e.by \in Installs /\ Awaited(e) /\ ~Enrolled(e.by)
          /\ deployment.installId = e.by /\ e.reply = deployment.active
      BY <1>a, <1>b, <2>1 DEF EnrolInv
    <2>3. /\ agent'[e.by].active = deployment.active /\ agent'[e.by].pending = agent[e.by].pending
          /\ \A i \in Installs \ {e.by} : agent'[i] = agent[i]
      BY <2>1, <2>2 DEF TypeOK, Agents
    <2>4. deployment.active # NoCredential
      BY CredentialFields DEF NodeInv, RowInv
    <2>5. \A c : Known(c)' <=> Known(c)
      BY <2>1 DEF Known
    <2>6. ASSUME NEW i \in Installs PROVE AgentInv(i)'
      <3>1. CASE i = e.by
        BY <2>1, <2>2, <2>3, <2>4, <2>5, <3>1 DEF NodeInv, AgentInv, Enrolled, Keeps, Accepted
      <3>2. CASE i # e.by
        <4>1. agent'[i] = agent[i]
          BY <2>3, <3>2
        <4> QED BY ZenonT(40), <2>1, <2>5, <4>1 DEF NodeInv, AgentInv, Enrolled, Keeps, Accepted
      <3> QED BY <3>1, <3>2
    <2>7. ASSUME NEW t \in EnrolSlots PROVE EnrolInv(t)'
      <3>1. CASE t = s
        BY <1>a, <1>c, <2>1, <3>1 DEF EnrolInv
      <3>2. CASE t # s
        <4>1. enrols'[t] = enrols[t]
          BY <1>a, <2>1, <3>2
        <4>2. Awaited(enrols[t]) => enrols[t].by # e.by
          BY <1>a, <2>2, <3>2 DEF NodeInv, Lone
        <4>3. Awaited(enrols[t]) => enrols[t].by \in Installs
          BY DEF Awaited, TypeOK, Enrolments
        <4>4. Awaited(enrols[t]) => ~Enrolled(enrols[t].by)'
          BY <2>3, <4>1, <4>2, <4>3 DEF NodeInv, EnrolInv, Enrolled
        <4> QED BY <2>1, <4>1, <4>4 DEF NodeInv, EnrolInv
      <3> QED BY <3>1, <3>2
    <2>8. Lone(enrols)'
      BY <1>a, <2>1, LoneStays DEF NodeInv
    <2>9. ASSUME NEW t \in ConfirmSlots PROVE ConfirmInv(t)'
      <3>1. CASE confirms[t] = Idle
        BY <2>1, <3>1 DEF ConfirmInv
      <3>2. CASE confirms[t] # Idle
        <4>1. confirms[t].by \in Installs
          BY <3>2 DEF TypeOK, Confirmations
        <4>2. agent'[confirms[t].by] = agent[confirms[t].by]
          BY <2>2, <2>3, <3>2, <4>1 DEF NodeInv, ConfirmInv
        <4> QED BY <2>1, <2>5, <3>2, <4>2 DEF NodeInv, ConfirmInv, Enrolled, Keeps
      <3> QED BY <3>1, <3>2
    <2>10. ASSUME NEW t \in PollSlots PROVE PollInv(t)'
      <3>1. CASE polls[t] = Idle
        BY <2>1, <3>1 DEF PollInv, Idle
      <3>2. CASE polls[t] # Idle
        <4>1. polls[t].by \in Installs
          BY <3>2, PollShapes, PollFields
        <4>2. agent'[polls[t].by] = agent[polls[t].by]
          BY <2>2, <2>3, <3>2, <4>1 DEF NodeInv, PollInv
        <4> QED BY <2>1, <2>5, <3>2, <4>2 DEF NodeInv, PollInv, Enrolled
      <3> QED BY <3>1, <3>2
    <2> QED BY <2>1, <2>6, <2>7, <2>8, <2>9, <2>10 DEF NodeInv, RowInv
  <1>6. CASE GiveUpEnrol(s)
    <2>1. /\ agent' = agent /\ deployment' = deployment /\ confirms' = confirms /\ polls' = polls
          /\ Awaited(e)
      BY <1>6 DEF GiveUpEnrol, Awaited
    <2>2. CASE enrols' = [enrols EXCEPT ![s] = Idle]
      <3>1. EnrolInv(s)'
        BY <1>a, <1>c, <2>2 DEF EnrolInv
      <3> QED BY <1>a, <2>1, <2>2, <3>1, EnrolQuietly
    <2>3. CASE e.phase \in {"read", "claim"} /\ enrols' = [enrols EXCEPT ![s] = [e EXCEPT !.awaited = FALSE]]
      <3>1. ~Awaited([e EXCEPT !.awaited = FALSE]) /\ [e EXCEPT !.awaited = FALSE].phase = e.phase
        BY <2>3, EnrolFields DEF Awaited
      <3>2. EnrolInv(s)'
        BY <1>a, <2>3, <3>1 DEF EnrolInv
      <3> QED BY <2>1, <2>3, <3>1, <3>2, EnrolQuietly
    <2> QED BY <1>6, <2>2, <2>3 DEF GiveUpEnrol, GiveUp
  <1> QED BY <1>1, <1>2, <1>3, <1>4, <1>5, <1>6

(* Confirmation.  The promotion and the answer are the steps that are not     *)
(* quiet.                                                                     *)
LEMMA ConfirmQuietly ==
    ASSUME TypeOK, NodeInv, NEW s \in ConfirmSlots, NEW r, confirms' = [confirms EXCEPT ![s] = r],
           agent' = agent, deployment' = deployment, enrols' = enrols, polls' = polls, ConfirmInv(s)'
    PROVE  NodeInv'
  <1>1. confirms \in [ConfirmSlots -> Confirmations]
    BY DEF TypeOK
  <1>2. \A t \in ConfirmSlots \ {s} : confirms'[t] = confirms[t]
    BY <1>1
  <1> QED BY <1>2, Quiet DEF NodeInv

(* Going on to a phase that claims no more than the one before it. *)
LEMMA ConfirmGoesOn ==
    ASSUME TypeOK, NodeInv, NEW s \in ConfirmSlots, NEW r,
           agent' = agent, deployment' = deployment, confirms'[s] = r,
           \/ r = Idle
           \/ /\ confirms[s] # Idle /\ r.by = confirms[s].by /\ r.credential = confirms[s].credential
              /\ r.phase \in {"read", "promote"} => r.phase = confirms[s].phase \/ r.credential \in Keeps(r.by)
              /\ r.phase = "answer" => r.credential.version <= deployment.active.version
    PROVE  ConfirmInv(s)'
  <1>1. \A i : (Enrolled(i)' <=> Enrolled(i)) /\ Keeps(i)' = Keeps(i)
    BY DEF Enrolled, Keeps
  <1>2. \A c : Known(c)' <=> Known(c)
    BY DEF Known
  <1> QED BY <1>1, <1>2 DEF NodeInv, ConfirmInv

LEMMA ConfirmSteps == ASSUME TypeOK, NodeInv, Confirm PROVE NodeInv'
  <1> SUFFICES ASSUME NEW s \in ConfirmSlots,
                      \/ \E i \in Installs : ConfirmSend(i, s)
                      \/ ConfirmRead(s) \/ ConfirmPromote(s) \/ ConfirmCheck(s)
                      \/ ConfirmAnswer(s) \/ GiveUpConfirm(s)
               PROVE  NodeInv'
    BY DEF Confirm
  <1> DEFINE c == confirms[s]
  <1> USE DEF serverVars
  <1>a. ConfirmInv(s) /\ confirms \in [ConfirmSlots -> Confirmations]
    BY DEF NodeInv, TypeOK
  <1>b. ASSUME c.phase \in {"read", "promote", "check", "answer"}
        PROVE  /\ c # Idle /\ c.by \in Installs /\ c.credential \in Credentials /\ c.credential.version \in Nat
               /\ \A ph, n : /\ [c EXCEPT !.phase = ph].by = c.by
                             /\ [c EXCEPT !.phase = ph].credential = c.credential
                             /\ [c EXCEPT !.phase = ph].phase = ph
                             /\ [c EXCEPT !.phase = ph, !.seen = n].by = c.by
                             /\ [c EXCEPT !.phase = ph, !.seen = n].credential = c.credential
                             /\ [c EXCEPT !.phase = ph, !.seen = n].phase = ph
    BY <1>b, ConfirmFields DEF Credentials
  <1>1. ASSUME NEW i \in Installs, ConfirmSend(i, s) PROVE NodeInv'
    <2> DEFINE r == [phase |-> "read", by |-> i, credential |-> agent[i].pending, awaited |-> TRUE, seen |-> 0]
    <2>1. /\ agent' = agent /\ deployment' = deployment /\ enrols' = enrols /\ polls' = polls
          /\ agent[i].pending # NoCredential /\ confirms' = [confirms EXCEPT ![s] = r] /\ confirms'[s] = r
      BY <1>1, <1>a DEF ConfirmSend
    <2>2. Enrolled(i) /\ Known(agent[i].pending) /\ agent[i].pending \in Keeps(i)
      BY <2>1 DEF NodeInv, AgentInv, Keeps
    <2>3. ConfirmInv(s)'
      BY <2>1, <2>2 DEF ConfirmInv, Enrolled, Known, Keeps
    <2> QED BY <2>1, <2>3, ConfirmQuietly
  <1>2. CASE ConfirmRead(s)
    <2>1. /\ agent' = agent /\ deployment' = deployment /\ enrols' = enrols /\ polls' = polls
          /\ c.phase = "read"
      BY <1>2 DEF ConfirmRead
    <2>2. CASE confirms' = [confirms EXCEPT ![s] = Idle]
      BY <1>a, <2>1, <2>2, ConfirmGoesOn, ConfirmQuietly
    <2>3. CASE AlreadyConfirmed(c.credential) /\ confirms' = [confirms EXCEPT ![s] = [c EXCEPT !.phase = "answer"]]
      <3> DEFINE r == [c EXCEPT !.phase = "answer"]
      <3>1. r.by = c.by /\ r.credential = c.credential /\ r.phase = "answer" /\ c # Idle /\ confirms'[s] = r
        BY <1>a, <1>b, <2>1, <2>3
      <3>2. c.credential.version <= deployment.active.version
        BY <1>b, <2>1, <2>3 DEF AlreadyConfirmed
      <3> HIDE DEF r
      <3>3. ConfirmInv(s)'
        BY <2>1, <3>1, <3>2, ConfirmGoesOn
      <3> QED BY <2>1, <2>3, <3>3, ConfirmQuietly DEF r
    <2>4. CASE /\ Confirmable(c.credential)
               /\ confirms' = [confirms EXCEPT ![s].phase = "promote", ![s].seen = deployment.active.version]
      <3> DEFINE r == [c EXCEPT !.phase = "promote", !.seen = deployment.active.version]
      <3>1. confirms' = [confirms EXCEPT ![s] = r]
        BY <1>a, <2>4
      <3>2. r.by = c.by /\ r.credential = c.credential /\ r.phase = "promote" /\ c # Idle /\ confirms'[s] = r
        BY <1>a, <1>b, <2>1, <3>1
      <3>3. c.credential \in Keeps(c.by)
        BY <1>a, <2>1, <2>4, <3>2 DEF ConfirmInv, Confirmable
      <3> HIDE DEF r
      <3>4. ConfirmInv(s)'
        BY <2>1, <3>2, <3>3, ConfirmGoesOn
      <3> QED BY <2>1, <3>1, <3>4, ConfirmQuietly
    <2> QED BY <1>2, <2>2, <2>3, <2>4 DEF ConfirmRead, Onward
  <1>3. CASE ConfirmPromote(s)
    <2>1. agent' = agent /\ enrols' = enrols /\ polls' = polls /\ c.phase = "promote"
      BY <1>3 DEF ConfirmPromote
    <2>2. CASE PromotionLands(s) /\ deployment' = [deployment EXCEPT !.active = c.credential, !.pending = NoCredential]
      <3>1. /\ deployment'.active = c.credential /\ deployment'.pending = NoCredential
            /\ deployment'.installId = deployment.installId
        BY <2>2 DEF TypeOK, Deployments
      <3>2. /\ deployment.pending = c.credential /\ Enrolled(c.by) /\ c.credential # NoCredential
            /\ c.credential \in Keeps(c.by) /\ c.by \in Installs
        BY <1>a, <1>b, <2>1, <2>2 DEF ConfirmInv, PromotionLands
      <3>3. deployment'.active.version = deployment.active.version + 1
        BY <3>1, <3>2 DEF NodeInv, RowInv
      <3>4. ASSUME NEW d \in Credentials, Known(d) PROVE Known(d)'
        BY <3>1, <3>2, <3>3, <3>4, CredentialFields DEF Known, Credentials
      <3>5. RowInv'
        BY <3>1, <3>3, CredentialFields DEF NodeInv, RowInv
      <3>6. \A i : (Enrolled(i)' <=> Enrolled(i)) /\ Keeps(i)' = Keeps(i)
        BY <2>1 DEF Enrolled, Keeps
      <3>7. ASSUME NEW i \in Installs PROVE AgentInv(i)'
        <4>1. Known(agent[i].pending)'
          BY <2>1, <3>4, CredentialFields DEF NodeInv, AgentInv
        <4>2. agent[i].active.version < deployment'.active.version
          BY <3>3, CredentialFields DEF NodeInv, AgentInv
        <4>3. Enrolled(i) => deployment.installId = i /\ i = c.by
          BY <3>2 DEF NodeInv, AgentInv
        <4>4. Enrolled(i) => c.credential \in Keeps(i) \cap Accepted'
          BY <3>1, <3>2, <4>3 DEF Accepted
        <4> QED BY <2>1, <3>1, <3>6, <4>1, <4>2, <4>3, <4>4 DEF NodeInv, AgentInv
      <3>8. ASSUME NEW t \in EnrolSlots PROVE EnrolInv(t)'
        <4>1. enrols[t].phase \notin {"answer"}
          <5> SUFFICES ASSUME enrols[t].phase = "answer" PROVE FALSE
            OBVIOUS
          <5>1. Awaited(enrols[t]) /\ enrols[t].by \in Installs
            BY EnrolFields DEF NodeInv, EnrolInv, Awaited
          <5>2. deployment.installId = enrols[t].by /\ ~Enrolled(enrols[t].by)
            BY <5>1 DEF NodeInv, EnrolInv
          <5>3. deployment.installId = c.by
            BY <3>2 DEF NodeInv, AgentInv
          <5> QED BY <3>2, <5>2, <5>3
        <4> QED BY <2>1, <3>6, <4>1 DEF NodeInv, EnrolInv
      <3>9. ASSUME NEW t \in ConfirmSlots \ {s} PROVE ConfirmInv(t)'
        <4>1. confirms'[t] = confirms[t]
          BY <1>3, <1>a DEF ConfirmPromote
        <4>2. confirms[t] # Idle => confirms[t].credential \in Credentials
          BY DEF TypeOK, Confirmations
        <4>3. confirms[t] # Idle => Known(confirms[t].credential)'
          BY <3>4, <4>1, <4>2 DEF NodeInv, ConfirmInv
        <4>4. confirms[t] # Idle /\ confirms[t].phase = "answer" =>
                    confirms[t].credential.version <= deployment'.active.version
          BY <3>3, <4>2, CredentialFields DEF NodeInv, ConfirmInv, Credentials
        <4> QED BY <3>1, <3>6, <4>1, <4>3, <4>4 DEF NodeInv, ConfirmInv
      <3>10. ConfirmInv(s)'
        <4>1. CASE confirms'[s] = Idle
          BY <4>1 DEF ConfirmInv
        <4>2. CASE confirms'[s] = [c EXCEPT !.phase = "answer", !.seen = 0]
          <5>1. /\ confirms'[s].by = c.by /\ confirms'[s].credential = c.credential
                /\ confirms'[s].phase = "answer"
            BY <1>b, <2>1, <4>2
          <5>2. \A d : d = deployment'.active => Known(d)'
            BY DEF Known
          <5>3. confirms'[s].credential.version <= deployment'.active.version
            BY <1>b, <2>1, <3>1, <5>1
          <5> QED BY <2>1, <3>1, <3>2, <3>6, <5>1, <5>2, <5>3 DEF ConfirmInv
        <4>3. confirms'[s] \in {Idle, [c EXCEPT !.phase = "answer", !.seen = 0]}
          BY <1>3, <1>a, <2>2 DEF ConfirmPromote, Onward
        <4> QED BY <4>1, <4>2, <4>3
      <3>11. ASSUME NEW t \in PollSlots PROVE PollInv(t)'
        <4>1. polls[t].phase = "answer" => polls[t].pending \in Credentials
          BY PollFields
        <4>2. polls[t].phase = "answer" => Known(polls[t].pending)'
          BY <2>1, <3>4, <4>1 DEF NodeInv, PollInv
        <4> QED BY <2>1, <3>6, <4>2 DEF NodeInv, PollInv
      <3> QED BY <2>1, <3>5, <3>7, <3>8, <3>9, <3>10, <3>11 DEF NodeInv
    <2>3. CASE deployment' = deployment /\ confirms' = [confirms EXCEPT ![s] = Idle]
      BY <1>a, <2>1, <2>3, ConfirmGoesOn, ConfirmQuietly
    <2>4. CASE deployment' = deployment /\ confirms' = [confirms EXCEPT ![s] = [c EXCEPT !.phase = "check", !.seen = 0]]
      <3> DEFINE r == [c EXCEPT !.phase = "check", !.seen = 0]
      <3>1. r.by = c.by /\ r.credential = c.credential /\ r.phase = "check" /\ c # Idle /\ confirms'[s] = r
        BY <1>a, <1>b, <2>1, <2>4
      <3> HIDE DEF r
      <3>2. ConfirmInv(s)'
        BY <2>1, <2>4, <3>1, ConfirmGoesOn
      <3> QED BY <2>1, <2>4, <3>2, ConfirmQuietly DEF r
    <2> QED BY <1>3, <2>2, <2>3, <2>4 DEF ConfirmPromote, Onward
  <1>4. CASE ConfirmCheck(s)
    <2>1. /\ agent' = agent /\ deployment' = deployment /\ enrols' = enrols /\ polls' = polls
          /\ c.phase = "check"
      BY <1>4 DEF ConfirmCheck
    <2>2. CASE confirms' = [confirms EXCEPT ![s] = Idle]
      BY <1>a, <2>1, <2>2, ConfirmGoesOn, ConfirmQuietly
    <2>3. CASE /\ deployment.active = c.credential
               /\ confirms' = [confirms EXCEPT ![s] = [c EXCEPT !.phase = "answer"]]
      <3> DEFINE r == [c EXCEPT !.phase = "answer"]
      <3>1. r.by = c.by /\ r.credential = c.credential /\ r.phase = "answer" /\ c # Idle /\ confirms'[s] = r
        BY <1>a, <1>b, <2>1, <2>3
      <3>2. c.credential.version <= deployment.active.version
        BY <1>b, <2>1, <2>3
      <3> HIDE DEF r
      <3>3. ConfirmInv(s)'
        BY <2>1, <3>1, <3>2, ConfirmGoesOn
      <3> QED BY <2>1, <2>3, <3>3, ConfirmQuietly DEF r
    <2> QED BY <1>4, <2>2, <2>3 DEF ConfirmCheck
  <1>5. CASE ConfirmAnswer(s)
    <2> DEFINE i == c.by
               a == agent[i]
               d == c.credential
               b == [a EXCEPT !.active = IF d.version > @.version THEN d ELSE @,
                              !.pending = IF @ = d THEN NoCredential ELSE @]
    <2>1. /\ deployment' = deployment /\ enrols' = enrols /\ polls' = polls /\ c.phase = "answer"
          /\ agent' = [agent EXCEPT ![i] = b] /\ confirms' = [confirms EXCEPT ![s] = Idle]
      BY <1>5 DEF ConfirmAnswer
    <2>2. /\ i \in Installs /\ d # NoCredential /\ d \in Credentials /\ Enrolled(i)
          /\ d.version <= deployment.active.version /\ Known(d)
      BY <1>a, <1>b, <2>1 DEF ConfirmInv
    <2>3. a \in Agents /\ agent \in [Installs -> Agents]
      BY <2>2 DEF TypeOK
    <2>4. /\ agent'[i] = b /\ \A j \in Installs \ {i} : agent'[j] = agent[j]
          /\ b.active = (IF d.version > a.active.version THEN d ELSE a.active)
          /\ b.pending = (IF a.pending = d THEN NoCredential ELSE a.pending)
      BY <2>1, <2>2, <2>3 DEF Agents
    <2> HIDE DEF b
    <2>5. d # deployment.pending /\ (d = deployment.active \/ d.version < deployment.active.version)
      BY <2>2, CredentialFields DEF NodeInv, RowInv, Known
    <2>6. Known(b.pending) /\ Known(NoCredential)
      <3>1. Known(NoCredential)
        BY CredentialFields DEF NodeInv, RowInv, Known
      <3> QED BY <2>2, <2>4, <3>1 DEF NodeInv, AgentInv
    <2>7. b.active # NoCredential
      BY <2>2, <2>4 DEF Enrolled
    <2>8. b.active.version < deployment.active.version \/ b.active = deployment.active
      BY <2>2, <2>4, <2>5 DEF NodeInv, AgentInv
    <2>9. {b.active, b.pending} \cap Accepted # {}
      <3>1. PICK k \in Keeps(i) : k \in Accepted
        BY <2>2 DEF NodeInv, AgentInv
      <3>2. CASE k = deployment.pending
        <4>1. k = a.pending /\ k # d
          BY <2>2, <2>5, <3>1, <3>2, CredentialFields DEF Keeps, NodeInv, RowInv, AgentInv, Accepted
        <4> QED BY <2>4, <3>1, <4>1
      <3>3. CASE k = deployment.active /\ k = a.active
        <4>1. ~(d.version > a.active.version)
          BY <2>2, <3>3, CredentialFields DEF Credentials
        <4> QED BY <2>4, <3>1, <3>3, <4>1
      <3>4. CASE k = deployment.active /\ k = a.pending /\ k # d
        BY <2>4, <3>1, <3>4
      <3>5. CASE k = deployment.active /\ k = d /\ k # a.active
        <4>1. a.active.version < deployment.active.version
          BY <2>2, <3>5 DEF NodeInv, AgentInv
        <4> QED BY <2>2, <2>4, <3>1, <3>5, <4>1, CredentialFields
      <3>6. k \in {a.active, a.pending} /\ k \in {deployment.active, deployment.pending}
        BY <3>1 DEF Keeps, Accepted
      <3> QED BY <3>2, <3>3, <3>4, <3>5, <3>6
    <2>10. \A e : Known(e)' <=> Known(e)
      BY <2>1 DEF Known
    <2>11. \A j \in Installs : agent'[j].active # NoCredential <=> Enrolled(j)
      BY <2>2, <2>4, <2>7 DEF Enrolled
    <2>12. ASSUME NEW j \in Installs PROVE AgentInv(j)'
      <3>1. CASE j = i
        <4>1. ({b.active, b.pending} \ {NoCredential}) \cap Accepted # {}
          BY <2>9 DEF Accepted
        <4>2. agent'[j] = b
          BY <2>4, <3>1
        <4>3. deployment.installId = j
          BY <2>2, <3>1 DEF NodeInv, AgentInv
        <4>4. Known(agent[j].pending)'
          BY <2>1, <2>6, <4>2 DEF Known
        <4>5. Keeps(j)' = {b.active, b.pending} \ {NoCredential} /\ Accepted' = Accepted
          BY <2>1, <4>2 DEF Keeps, Accepted
        <4> QED BY <2>1, <2>7, <2>8, <4>1, <4>2, <4>3, <4>4, <4>5 DEF AgentInv, Enrolled
      <3>2. CASE j # i
        <4>1. agent'[j] = agent[j]
          BY <2>4, <3>2
        <4> QED BY ZenonT(40), <2>1, <2>10, <4>1 DEF NodeInv, AgentInv, Enrolled, Keeps, Accepted
      <3> QED BY <3>1, <3>2
    <2>13. ASSUME NEW t \in EnrolSlots PROVE EnrolInv(t)'
      <3>1. Awaited(enrols[t]) => enrols[t].by \in Installs
        BY DEF Awaited, TypeOK, Enrolments
      <3>2. Awaited(enrols[t]) => ~Enrolled(enrols[t].by)'
        BY <2>1, <2>11, <3>1 DEF NodeInv, EnrolInv, Enrolled
      <3> QED BY <2>1, <3>2 DEF NodeInv, EnrolInv
    <2>14. ASSUME NEW t \in ConfirmSlots PROVE ConfirmInv(t)'
      <3>1. CASE t = s
        BY <1>a, <2>1, <3>1 DEF ConfirmInv
      <3>2. CASE t # s /\ confirms[t] # Idle
        <4> DEFINE f == confirms[t].credential
                   j == confirms[t].by
        <4>1. confirms'[t] = confirms[t] /\ j \in Installs
          BY <1>a, <2>1, <3>2 DEF TypeOK, Confirmations
        <4>2. Enrolled(j) /\ f # NoCredential /\ Known(f)
          BY <3>2 DEF NodeInv, ConfirmInv
        <4>3. confirms[t].phase \in {"read", "promote"} /\ f = deployment.pending =>
                    f \in {agent'[j].active, agent'[j].pending}
          <5> SUFFICES ASSUME confirms[t].phase \in {"read", "promote"}, f = deployment.pending
                       PROVE  f \in {agent'[j].active, agent'[j].pending}
            OBVIOUS
          <5>1. f \in Keeps(j)
            BY <3>2 DEF NodeInv, ConfirmInv
          <5>2. f = agent[j].pending
            BY <4>1, <4>2, <5>1, CredentialFields DEF Keeps, NodeInv, RowInv, AgentInv
          <5> QED BY <2>4, <2>5, <4>1, <5>2
        <4>4. confirms[t].phase = "answer" => f.version <= deployment.active.version
          BY <3>2 DEF NodeInv, ConfirmInv
        <4>5. Enrolled(j)'
          BY <2>11, <4>1, <4>2 DEF Enrolled
        <4> QED BY <2>1, <2>10, <4>1, <4>2, <4>3, <4>4, <4>5 DEF ConfirmInv, Keeps
      <3>3. CASE t # s /\ confirms[t] = Idle
        BY <1>a, <2>1, <3>3 DEF ConfirmInv
      <3> QED BY <3>1, <3>2, <3>3
    <2>15. ASSUME NEW t \in PollSlots PROVE PollInv(t)'
      <3>1. CASE polls[t] = Idle
        BY <2>1, <3>1 DEF PollInv, Idle
      <3>2. CASE polls[t] # Idle
        <4> DEFINE j == polls[t].by
        <4>1. j \in Installs
          BY <3>2, PollShapes, PollFields
        <4>2. agent'[j].pending \in {agent[j].pending, NoCredential}
          BY <2>4, <4>1
        <4>3. polls[t].phase = "answer" =>
                    polls[t].pending = NoCredential \/ polls[t].pending.version >= agent'[j].pending.version
          <5> SUFFICES ASSUME polls[t].phase = "answer", polls[t].pending # NoCredential
                       PROVE  polls[t].pending.version >= agent'[j].pending.version
            OBVIOUS
          <5>1. polls[t].pending.version >= agent[j].pending.version
            BY DEF NodeInv, PollInv
          <5>2. polls[t].pending.version \in Nat
            BY PollFields DEF Credentials
          <5>3. agent'[j].pending.version \in {agent[j].pending.version, 0}
            BY <4>2, CredentialFields
          <5> QED BY <5>1, <5>2, <5>3
        <4>4. Enrolled(polls[t].by)'
          BY <2>1, <2>11, <3>2, <4>1 DEF NodeInv, PollInv, Enrolled
        <4> QED BY <2>1, <2>10, <4>3, <4>4 DEF NodeInv, PollInv
      <3> QED BY <3>1, <3>2
    <2> QED BY <2>1, <2>12, <2>13, <2>14, <2>15 DEF NodeInv, RowInv
  <1>6. CASE GiveUpConfirm(s)
    <2>1. /\ agent' = agent /\ deployment' = deployment /\ enrols' = enrols /\ polls' = polls
          /\ c # Idle
      BY <1>6 DEF GiveUpConfirm
    <2>2. CASE confirms' = [confirms EXCEPT ![s] = Idle]
      BY <1>a, <2>1, <2>2, ConfirmGoesOn, ConfirmQuietly
    <2>3. CASE /\ c.phase \in {"read", "promote"}
               /\ confirms' = [confirms EXCEPT ![s] = [c EXCEPT !.awaited = FALSE]]
      <3> DEFINE r == [c EXCEPT !.awaited = FALSE]
      <3>1. r.by = c.by /\ r.credential = c.credential /\ r.phase = c.phase /\ confirms'[s] = r
        BY <1>a, <2>3, ConfirmFields
      <3> HIDE DEF r
      <3>2. ConfirmInv(s)'
        BY <2>1, <2>3, <3>1, ConfirmGoesOn
      <3> QED BY <2>1, <2>3, <3>2, ConfirmQuietly DEF r
    <2> QED BY <1>6, <2>2, <2>3 DEF GiveUpConfirm, GiveUp
  <1> QED BY <1>1, <1>2, <1>3, <1>4, <1>5, <1>6

(* Polls.  Only the answer to a fetch is not quiet. *)
LEMMA PollQuietly ==
    ASSUME TypeOK, NodeInv, NEW s \in PollSlots, NEW r, polls' = [polls EXCEPT ![s] = r],
           agent' = agent, enrols' = enrols, confirms' = confirms,
           deployment'.active = deployment.active, deployment'.pending = deployment.pending,
           deployment'.installId = deployment.installId,
           PollInv(s)',
           \/ Awaited(r) => Awaited(polls[s]) /\ r.by = polls[s].by
           \/ Awaited(r) => ~Awaits(polls, r.by)
    PROVE  NodeInv'
  <1>1. polls \in [PollSlots -> Polls]
    BY DEF TypeOK
  <1>2. Lone(polls)'
    BY <1>1, LoneStays, LoneStarts DEF NodeInv
  <1>3. \A t \in PollSlots \ {s} : polls'[t] = polls[t]
    BY <1>1
  <1> QED BY <1>2, <1>3, Quiet DEF NodeInv

(* Most of a poll's steps carry nothing that the invariant speaks of. *)
LEMMA PollGoesOn ==
    ASSUME TypeOK, NodeInv, NEW s \in PollSlots, NEW r, polls' = [polls EXCEPT ![s] = r],
           agent' = agent, enrols' = enrols, confirms' = confirms,
           deployment'.active = deployment.active, deployment'.pending = deployment.pending,
           deployment'.installId = deployment.installId,
           \/ r = Idle
           \/ /\ polls[s] # Idle /\ r.by = polls[s].by /\ r.phase # "answer"
              /\ Awaited(r) => Awaited(polls[s])
    PROVE  NodeInv'
  <1>1. polls'[s] = r
    BY DEF TypeOK
  <1>2. PollInv(s)'
    BY <1>1 DEF NodeInv, PollInv, Enrolled, Idle
  <1> QED BY <1>2, PollQuietly DEF Awaited

LEMMA PollSteps == ASSUME TypeOK, NodeInv, Poll PROVE NodeInv'
  <1> SUFFICES ASSUME NEW s \in PollSlots,
                      \/ \E i \in Installs : PollSend(i, s)
                      \/ PollRead(s) \/ PollUpdate(s) \/ PollAnswer(s)
                      \/ ConfigAuth(s) \/ ConfigRead(s) \/ ConfigAnswer(s) \/ GiveUpPoll(s)
               PROVE  NodeInv'
    BY DEF Poll
  <1> DEFINE p == polls[s]
  <1> USE DEF serverVars
  <1>a. PollInv(s) /\ polls \in [PollSlots -> Polls]
    BY DEF NodeInv, TypeOK
  <1>b. Idle.phase = "idle" /\ Unsent.phase = "unsent"
    BY DEF Idle, Unsent
  <1>1. ASSUME NEW i \in Installs, PollSend(i, s) PROVE NodeInv'
    <2> DEFINE r == [phase |-> "read", by |-> i, secret |-> agent[i].active.secret,
                     applied |-> agent[i].applied, awaited |-> TRUE]
    <2>1. /\ agent' = agent /\ deployment' = deployment /\ enrols' = enrols /\ confirms' = confirms
          /\ polls' = [polls EXCEPT ![s] = r] /\ ~Awaits(polls, i) /\ Enrolled(i)
      BY <1>1 DEF PollSend, Enrolled
    <2>2. polls'[s] = r /\ r.by = i /\ r.phase = "read"
      BY <1>a, <2>1
    <2> HIDE DEF r
    <2>3. PollInv(s)'
      BY <2>1, <2>2 DEF PollInv, Enrolled
    <2> QED BY <2>1, <2>2, <2>3, PollQuietly
  <1>2. ASSUME NEW from, NEW to, from \in {"read", "config_auth"}, to # "answer", AuthenticateAs(s, from, to)
        PROVE  NodeInv'
    <2>1. /\ agent' = agent /\ deployment' = deployment /\ enrols' = enrols /\ confirms' = confirms
          /\ p.phase \in {"read", "config_auth"}
      BY <1>2 DEF AuthenticateAs
    <2>2. CASE polls' = [polls EXCEPT ![s] = Idle]
      BY <2>1, <2>2, PollGoesOn
    <2>3. CASE polls' = [polls EXCEPT ![s] = [p EXCEPT !.phase = to]]
      <3> DEFINE r == [p EXCEPT !.phase = to]
      <3>1. r.by = p.by /\ r.phase = to /\ r.awaited = p.awaited
        BY <2>1, PollShapes
      <3>2. p # Idle /\ (Awaited(r) => Awaited(p))
        BY <1>b, <2>1, <3>1 DEF Awaited
      <3> HIDE DEF r
      <3> QED BY <1>2, <2>1, <2>3, <3>1, <3>2, PollGoesOn DEF r
    <2> QED BY <1>2, <2>2, <2>3 DEF AuthenticateAs
  <1>3. CASE PollUpdate(s)
    <2>1. /\ agent' = agent /\ enrols' = enrols /\ confirms' = confirms
          /\ deployment'.active = deployment.active /\ deployment'.pending = deployment.pending
          /\ deployment'.installId = deployment.installId /\ p.phase = "update"
      BY <1>3 DEF PollUpdate, TypeOK, Deployments
    <2>2. CASE polls' = [polls EXCEPT ![s] = Idle]
      BY <2>1, <2>2, PollGoesOn
    <2>3. CASE p.awaited /\ polls' = [polls EXCEPT ![s] = [phase |-> "look", by |-> p.by, awaited |-> TRUE]]
      <3>1. p # Idle /\ Awaited(p)
        BY <1>b, <2>1, <2>3 DEF Awaited
      <3> QED BY <2>1, <2>3, <3>1, PollGoesOn
    <2> QED BY <1>3, <2>2, <2>3 DEF PollUpdate, Onward
  <1>4. CASE PollAnswer(s)
    <2> DEFINE r == [phase |-> "config_auth", by |-> p.by, secret |-> agent[p.by].active.secret, awaited |-> TRUE]
    <2>1. /\ agent' = agent /\ deployment' = deployment /\ enrols' = enrols /\ confirms' = confirms
          /\ p.phase = "look" /\ polls' = [polls EXCEPT ![s] = IF Announced(p.by) THEN r ELSE Idle]
      BY <1>4 DEF PollAnswer
    <2>2. r.by = p.by /\ r.phase = "config_auth"
      OBVIOUS
    <2>3. p # Idle /\ Awaited(p)
      BY <1>b, <2>1, PollFields DEF Awaited
    <2> HIDE DEF r
    <2> QED BY <2>1, <2>2, <2>3, PollGoesOn
  <1>5. CASE ConfigRead(s)
    <2> DEFINE r == [phase |-> "answer", by |-> p.by, awaited |-> TRUE,
                     configVersion |-> deployment.configVersion,
                     desired |-> deployment.desired, pending |-> deployment.pending]
    <2>1. /\ agent' = agent /\ deployment' = deployment /\ enrols' = enrols /\ confirms' = confirms
          /\ p.phase = "config" /\ polls' = [polls EXCEPT ![s] = r]
      BY <1>5 DEF ConfigRead
    <2>2. polls'[s] = r /\ r.by = p.by /\ r.pending = deployment.pending
      BY <1>a, <2>1
    <2>3. p # Idle /\ Awaited(p) /\ p.by \in Installs
      BY <1>b, <2>1, PollFields DEF Awaited
    <2> HIDE DEF r
    <2>4. Known(deployment.pending)
      BY CredentialFields DEF Known, NodeInv, RowInv
    <2>5. deployment.pending # NoCredential => deployment.pending.version >= agent[p.by].pending.version
      BY <2>3, CredentialFields DEF NodeInv, RowInv, AgentInv, Known
    <2>6. PollInv(s)'
      BY <1>a, <2>1, <2>2, <2>3, <2>4, <2>5 DEF PollInv, Enrolled, Known
    <2> QED BY <2>1, <2>2, <2>3, <2>6, PollQuietly
  <1>6. CASE ConfigAnswer(s)
    <2> DEFINE i == p.by
               a == agent[i]
               b == [a EXCEPT !.applied = p.configVersion, !.desired = p.desired,
                              !.pending = IF p.pending.version > a.active.version THEN p.pending ELSE @]
    <2>1. /\ deployment' = deployment /\ enrols' = enrols /\ confirms' = confirms /\ p.phase = "answer"
          /\ agent' = [agent EXCEPT ![i] = b] /\ polls' = [polls EXCEPT ![s] = Idle]
      BY <1>6 DEF ConfigAnswer
    <2>2. /\ i \in Installs /\ p.pending \in Credentials /\ p.pending.version \in Nat /\ Awaited(p) /\ p # Idle
          /\ Enrolled(i) /\ Known(p.pending)
          /\ p.pending = NoCredential \/ p.pending.version >= a.pending.version
      BY <1>a, <1>b, <2>1, PollFields DEF PollInv, Credentials, Awaited
    <2>3. a \in Agents /\ agent \in [Installs -> Agents]
      BY <2>2 DEF TypeOK
    <2>4. /\ agent'[i] = b /\ \A j \in Installs \ {i} : agent'[j] = agent[j]
          /\ b.active = a.active
          /\ b.pending = (IF p.pending.version > a.active.version THEN p.pending ELSE a.pending)
      BY <2>1, <2>2, <2>3 DEF Agents
    <2> HIDE DEF b
    <2>5. \A e : Known(e)' <=> Known(e)
      BY <2>1 DEF Known
    <2>6. \A j \in Installs : agent'[j].active = agent[j].active
      BY <2>4
    (* A secret kept and accepted is replaced by an accepted one only. *)
    <2>7. a.pending \in Accepted => b.pending \in Accepted
      <3> SUFFICES ASSUME a.pending \in Accepted, p.pending.version > a.active.version
                   PROVE  p.pending \in Accepted
        BY <2>4
      <3>1. p.pending # NoCredential /\ p.pending.version >= a.pending.version
        BY <2>2, CredentialFields
      <3>2. a.pending.version >= deployment.active.version
        BY CredentialFields DEF Accepted, NodeInv, RowInv
      <3> QED BY <2>2, <3>1, <3>2, CredentialFields DEF Known, Accepted
    <2>8. ASSUME NEW j \in Installs PROVE AgentInv(j)'
      <3>1. CASE j = i
        <4>1. agent'[j] = b /\ deployment.installId = j
          BY <2>2, <2>4, <3>1 DEF NodeInv, AgentInv
        <4>2. Known(b.pending)
          BY <2>2, <2>4 DEF NodeInv, AgentInv
        <4>3. Known(agent[j].pending)'
          BY <2>1, <4>1, <4>2 DEF Known
        <4>4. Keeps(j)' = {a.active, b.pending} \ {NoCredential} /\ Accepted' = Accepted
          BY <2>1, <2>4, <4>1 DEF Keeps, Accepted
        <4>5. Keeps(j)' \cap Accepted' # {}
          <5>1. PICK k \in Keeps(i) : k \in Accepted
            BY <2>2 DEF NodeInv, AgentInv
          <5> QED BY <2>7, <4>4, <5>1 DEF Keeps, Accepted
        <4>6. a.active.version < deployment.active.version \/ a.active = deployment.active
          BY <2>2 DEF NodeInv, AgentInv
        <4> QED BY <2>1, <2>2, <2>4, <3>1, <4>1, <4>3, <4>5, <4>6 DEF AgentInv, Enrolled
      <3>2. CASE j # i
        <4>1. agent'[j] = agent[j]
          BY <2>4, <3>2
        <4> QED BY ZenonT(40), <2>1, <2>5, <4>1 DEF NodeInv, AgentInv, Enrolled, Keeps, Accepted
      <3> QED BY <3>1, <3>2
    <2>9. ASSUME NEW t \in EnrolSlots PROVE EnrolInv(t)'
      <3>1. Awaited(enrols[t]) => enrols[t].by \in Installs
        BY DEF Awaited, TypeOK, Enrolments
      <3>2. Awaited(enrols[t]) => ~Enrolled(enrols[t].by)'
        BY <2>1, <2>6, <3>1 DEF NodeInv, EnrolInv, Enrolled
      <3> QED BY <2>1, <3>2 DEF NodeInv, EnrolInv
    <2>10. ASSUME NEW t \in ConfirmSlots PROVE ConfirmInv(t)'
      <3>1. CASE confirms[t] = Idle
        BY <2>1, <3>1 DEF ConfirmInv
      <3>2. CASE confirms[t] # Idle
        <4> DEFINE f == confirms[t].credential
                   j == confirms[t].by
        <4>1. j \in Installs /\ Enrolled(j) /\ f # NoCredential /\ Known(f)
          BY <3>2 DEF TypeOK, Confirmations, NodeInv, ConfirmInv
        <4>2. confirms[t].phase \in {"read", "promote"} /\ f = deployment.pending =>
                    f \in {agent'[j].active, agent'[j].pending}
          <5> SUFFICES ASSUME confirms[t].phase \in {"read", "promote"}, f = deployment.pending
                       PROVE  f \in {agent'[j].active, agent'[j].pending}
            OBVIOUS
          <5>1. f = agent[j].active \/ f = agent[j].pending
            BY <3>2 DEF NodeInv, ConfirmInv, Keeps
          <5>2. CASE j = i /\ p.pending.version > a.active.version
            <6>1. f = a.pending
              BY <4>1, <5>1, <5>2, CredentialFields DEF NodeInv, RowInv, AgentInv
            <6>2. p.pending # NoCredential /\ p.pending.version >= f.version
              BY <2>2, <5>2, <6>1, CredentialFields
            <6>3. p.pending = f
              BY <2>2, <4>1, <6>2, CredentialFields DEF NodeInv, RowInv, Known
            <6> QED BY <2>4, <5>2, <6>3
          <5>3. CASE ~(j = i /\ p.pending.version > a.active.version)
            BY <2>4, <2>6, <4>1, <5>1, <5>3
          <5> QED BY <5>2, <5>3
        <4>3. Enrolled(confirms[t].by)'
          BY <2>1, <2>6, <4>1 DEF Enrolled
        <4>4. confirms[t].phase = "answer" => f.version <= deployment.active.version
          BY <3>2 DEF NodeInv, ConfirmInv
        <4> QED BY <2>1, <2>5, <4>1, <4>2, <4>3, <4>4 DEF ConfirmInv, Keeps
      <3> QED BY <3>1, <3>2
    <2>11. ASSUME NEW t \in PollSlots PROVE PollInv(t)'
      <3>1. CASE t = s
        BY <1>a, <1>b, <2>1, <3>1 DEF PollInv
      <3>2. CASE t # s /\ polls[t] # Idle
        <4> DEFINE j == polls[t].by
        <4>1. polls'[t] = polls[t] /\ j \in Installs
          BY <1>a, <2>1, <3>2, PollShapes, PollFields
        <4>2. Enrolled(polls[t].by)'
          BY <2>6, <3>2, <4>1 DEF NodeInv, PollInv, Enrolled
        <4>3. polls[t].phase = "answer" => j # i
          <5>1. polls[t].phase = "answer" => Awaited(polls[t])
            BY <1>b, PollFields DEF Awaited
          <5> QED BY <1>a, <2>2, <3>2, <5>1 DEF NodeInv, Lone
        <4>4. polls[t].phase = "answer" => agent'[j] = agent[j]
          BY <2>4, <4>1, <4>3
        <4> QED BY <2>5, <4>1, <4>2, <4>4 DEF NodeInv, PollInv
      <3>3. CASE t # s /\ polls[t] = Idle
        BY <1>a, <1>b, <2>1, <3>3 DEF PollInv
      <3> QED BY <3>1, <3>2, <3>3
    <2>12. Lone(polls)'
      BY <1>a, <2>1, LoneStays DEF NodeInv, Awaited
    <2> QED BY <2>1, <2>8, <2>9, <2>10, <2>11, <2>12 DEF NodeInv, RowInv
  <1>7. CASE GiveUpPoll(s)
    <2>1. /\ agent' = agent /\ deployment' = deployment /\ enrols' = enrols /\ confirms' = confirms
          /\ p # Idle
      BY <1>7 DEF GiveUpPoll
    <2>2. CASE polls' = [polls EXCEPT ![s] = Idle]
      BY <2>1, <2>2, PollGoesOn
    <2>3. CASE p.phase \in {"read", "update"} /\ polls' = [polls EXCEPT ![s] = [p EXCEPT !.awaited = FALSE]]
      <3> DEFINE r == [p EXCEPT !.awaited = FALSE]
      <3>1. r.by = p.by /\ r.phase = p.phase /\ ~Awaited(r)
        BY <2>3, PollShapes DEF Awaited
      <3> HIDE DEF r
      <3> QED BY <2>1, <2>3, <3>1, PollGoesOn DEF r
    <2> QED BY <1>7, <2>2, <2>3 DEF GiveUpPoll, GiveUp
  <1>8. CASE PollRead(s)
    BY <1>2, <1>8 DEF PollRead
  <1>9. CASE ConfigAuth(s)
    BY <1>2, <1>9 DEF ConfigAuth
  <1> QED BY <1>1, <1>3, <1>4, <1>5, <1>6, <1>7, <1>8, <1>9

(* Of what the administrator, the clock and events do, only staging touches a *)
(* credential.                                                                *)
LEMMA RowSteps == ASSUME TypeOK, NodeInv, TokenExpires \/ Report \/ Administer PROVE NodeInv'
  <1> USE DEF serverVars
  <1>1. ASSUME agent' = agent, enrols' = enrols, confirms' = confirms, polls' = polls,
               deployment'.active = deployment.active, deployment'.pending = deployment.pending,
               deployment'.installId = deployment.installId
        PROVE  NodeInv'
    BY <1>1, Quiet DEF NodeInv
  <1>2. CASE TokenExpires
    BY <1>1, <1>2 DEF TokenExpires, TypeOK, Deployments
  <1>3. CASE IssueToken \/ SetPrinters \/ Revoke
    BY <1>1, <1>3 DEF IssueToken, SetPrinters, WithPrinters, Revoke, TypeOK, Deployments
  <1>4. ASSUME NEW s \in StageSlots, StageRead(s) PROVE NodeInv'
    BY <1>1, <1>4 DEF StageRead
  <1>5. ASSUME NEW s \in StageSlots, StageWrite(s) PROVE NodeInv'
    <2>1. agent' = agent /\ enrols' = enrols /\ confirms' = confirms /\ polls' = polls
      BY <1>5 DEF StageWrite
    <2>2. CASE deployment' = deployment
      BY <1>1, <2>1, <2>2
    <2>3. CASE StageLands(s) /\ deployment' = Staged(stages[s].seen, drawn + 1)
      <3> DEFINE n == [version |-> deployment.active.version + 1, secret |-> drawn + 1]
      <3>1. /\ deployment'.active = deployment.active /\ deployment'.pending = n
            /\ deployment'.installId = deployment.installId /\ deployment.pending = NoCredential
        BY <2>3 DEF StageLands, Staged, TypeOK, Deployments
      <3>2. n.version = deployment.active.version + 1
        OBVIOUS
      <3> HIDE DEF n
      <3>3. RowInv'
        BY <3>1, <3>2 DEF NodeInv, RowInv
      <3>4. \A c : Known(c) => Known(c)' /\ c # n
        BY <3>1, <3>2, CredentialFields DEF Known
      <3>5. ASSUME NEW i \in Installs PROVE AgentInv(i)'
        <4>1. Known(agent[i].pending)'
          BY <2>1, <3>4 DEF NodeInv, AgentInv, Known
        <4>2. Accepted \subseteq Accepted'
          BY <3>1 DEF Accepted
        <4>3. Keeps(i)' = Keeps(i) /\ (Enrolled(i)' <=> Enrolled(i))
          BY <2>1 DEF Keeps, Enrolled
        <4> QED BY <2>1, <3>1, <4>1, <4>2, <4>3 DEF NodeInv, AgentInv
      <3>6. ASSUME NEW t \in EnrolSlots PROVE EnrolInv(t)'
        BY <2>1, <3>1 DEF NodeInv, EnrolInv, Enrolled
      <3>7. ASSUME NEW t \in ConfirmSlots PROVE ConfirmInv(t)'
        <4>1. confirms[t] # Idle => Known(confirms[t].credential) /\ confirms[t].credential # n
          BY <3>4 DEF NodeInv, ConfirmInv
        <4>2. confirms[t] # Idle => Known(confirms[t].credential)'
          BY <2>1, <3>1, <4>1 DEF Known
        <4> QED BY <2>1, <3>1, <4>1, <4>2 DEF NodeInv, ConfirmInv, Enrolled
      <3>8. ASSUME NEW t \in PollSlots PROVE PollInv(t)'
        <4>1. polls[t].phase = "answer" => Known(polls[t].pending)'
          BY <2>1, <3>1 DEF NodeInv, PollInv, Known
        <4> QED BY <2>1, <4>1 DEF NodeInv, PollInv, Enrolled
      <3> QED BY <2>1, <3>3, <3>5, <3>6, <3>7, <3>8 DEF NodeInv
    <2> QED BY <1>5, <2>2, <2>3 DEF StageWrite
  <1>6. ASSUME NEW i \in Installs, ConfigApplied(i) PROVE NodeInv'
    BY <1>1, <1>6 DEF ConfigApplied, TypeOK, Deployments
  <1> QED BY <1>2, <1>3, <1>4, <1>5, <1>6 DEF Administer, Report

LEMMA NodeStep == TypeOK /\ NodeInv /\ [Next]_vars => NodeInv'
  <1> SUFFICES ASSUME TypeOK, NodeInv, [Next]_vars PROVE NodeInv'
    OBVIOUS
  <1>1. CASE UNCHANGED vars
    BY <1>1, Quiet DEF vars, NodeInv
  <1> QED BY <1>1, EnrolSteps, ConfirmSteps, PollSteps, RowSteps DEF Next

LEMMA NodeInvariant == Spec => []NodeInv
  BY TypeCorrect, NodeStarts, NodeStep, PTL DEF Spec

(* Whatever requests are lost, repeated or overtaken, and however often the   *)
(* secret is rotated, an enrolled agent can still sign.                       *)
THEOREM NobodyStranded == Spec => []NeverStranded
  <1>1. NodeInv => NeverStranded
    BY DEF NodeInv, AgentInv, NeverStranded
  <1> QED BY <1>1, NodeInvariant, PTL

(* A node's credential is only ever with the one installation that claimed it. *)
THEOREM OnlyOneInstallation == Spec => []OneInstallation
  <1>1. NodeInv => OneInstallation
    BY DEF NodeInv, AgentInv, OneInstallation
  <1> QED BY <1>1, NodeInvariant, PTL
=============================================================================
