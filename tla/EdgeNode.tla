------------------------------ MODULE EdgeNode ------------------------------
(***************************************************************************)
(* The life of one Edge V1 node on the server: enrolment under a one-time   *)
(* token, staged rotation of its secret, its desired configuration and the  *)
(* polls that fetch it, revocation.                                         *)
(*                                                                          *)
(* A slot carries one request at a time.  Its reads and writes are steps of      *)
(* their own, because the server awaits the database between them.  The     *)
(* agent may give up on a request at any time; the server finishes it all   *)
(* the same.  The agent (not in this repository) is modelled from what the  *)
(* server's replies and the request schemas expect of it.                   *)
(***************************************************************************)
EXTENDS Naturals

CONSTANTS
    Installs,       \* installations that were given an enrolment token
    NoInstall,      \* install_id IS NULL
    EnrolSlots,     \* bound: requests to enrol, each sent once
    ConfirmSlots, PollSlots, StageSlots,    \* requests in flight
    MaxTokens,      \* bound: enrolment tokens ever issued
    MaxSecrets,     \* bound: secrets ever drawn
    MaxEdits        \* bound: changes of the desired printers

ASSUME EdgeNodeAssumption ==
    /\ NoInstall \notin Installs
    /\ MaxTokens \in Nat \ {0} /\ MaxSecrets \in Nat \ {0} /\ MaxEdits \in Nat

VARIABLES
    deployment,     \* the node's row of spool_deployment
    drawn,          \* secrets drawn so far; a secret is the number of its draw
    edits,          \* printer lists written so far; a list is the number of its writing
    agent,          \* what each installation keeps in its store
    enrols, confirms, polls, stages     \* requests in flight, per slot

serverVars == <<deployment, drawn, edits>>
vars == <<deployment, drawn, edits, agent, enrols, confirms, polls, stages>>

(* A credential is a version with its secret (hash and wrapped form). *)
NoCredential == [version |-> 0, secret |-> 0]
Credentials == [version : Nat, secret : Nat]

(* The versions the configuration has had, and 0 for none. *)
ConfigVersions == 0 .. deployment.configVersion

Deployments ==
    [status : {"pending", "active", "revoked"},
     token : Nat \ {0}, expired : BOOLEAN, used : BOOLEAN, installId : Installs \cup {NoInstall},
     active : Credentials, pending : Credentials,
     configVersion : Nat, applied : ConfigVersions, desired : Nat]

Agents == [active : Credentials, pending : Credentials, applied : ConfigVersions, desired : Nat]

Idle == [phase |-> "idle"]
Unsent == [phase |-> "unsent"]

Enrolments ==
    {Unsent, Idle} \cup [phase : {"read", "claim", "reread", "answer"}, by : Installs, token : Nat,
                 awaited : BOOLEAN, reply : Credentials]
Confirmations ==
    {Idle} \cup [phase : {"read", "promote", "check", "answer"}, by : Installs, credential : Credentials,
                 awaited : BOOLEAN, seen : Nat]
Polls ==
    {Idle} \cup [phase : {"read", "update"}, by : Installs, secret : Nat, applied : ConfigVersions, awaited : BOOLEAN]
           \cup [phase : {"look"}, by : Installs, awaited : {TRUE}]
           \cup [phase : {"config_auth", "config"}, by : Installs, secret : Nat, awaited : {TRUE}]
           \cup [phase : {"answer"}, by : Installs, awaited : {TRUE}, configVersion : ConfigVersions,
                 desired : Nat, pending : Credentials]
Stagings == {Idle} \cup [phase : {"write"}, seen : Credentials]

TypeOK ==
    /\ deployment \in Deployments
    /\ drawn \in Nat /\ edits \in Nat
    /\ agent \in [Installs -> Agents]
    /\ enrols \in [EnrolSlots -> Enrolments]
    /\ confirms \in [ConfirmSlots -> Confirmations]
    /\ polls \in [PollSlots -> Polls]
    /\ stages \in [StageSlots -> Stagings]

Init ==
    /\ deployment = [status |-> "pending", token |-> 1, expired |-> FALSE, used |-> FALSE,
                     installId |-> NoInstall, active |-> [version |-> 1, secret |-> 1],
                     pending |-> NoCredential, configVersion |-> 1, applied |-> 0, desired |-> 0]
    /\ drawn = 1
    /\ edits = 0
    /\ agent = [i \in Installs |-> [active |-> NoCredential, pending |-> NoCredential,
                                    applied |-> 0, desired |-> 0]]
    /\ enrols = [s \in EnrolSlots |-> Unsent]
    /\ confirms = [s \in ConfirmSlots |-> Idle]
    /\ polls = [s \in PollSlots |-> Idle]
    /\ stages = [s \in StageSlots |-> Idle]

-----------------------------------------------------------------------------
(* Enrolment.  The agent repeats it, under any token it was given, until it   *)
(* has a credential.                                                          *)

(* What the server goes on to do for a request the agent gave up on matters   *)
(* only until its last write.                                                 *)
Onward(r, next) == IF r.awaited THEN next ELSE Idle

Awaits(requests, i) ==
    \E s \in DOMAIN requests : requests[s] \notin {Unsent, Idle} /\ requests[s].by = i /\ requests[s].awaited

EnrolSend(i, s) ==
    /\ agent[i].active = NoCredential
    /\ enrols[s] = Unsent
    /\ ~Awaits(enrols, i)
    /\ \E t \in 1 .. deployment.token :
            enrols' = [enrols EXCEPT ![s] = [phase |-> "read", by |-> i, token |-> t,
                                             awaited |-> TRUE, reply |-> NoCredential]]
    /\ UNCHANGED <<serverVars, agent, confirms, polls, stages>>

(* The row is looked up by the hash of the token.  An expired token still     *)
(* answers the installation that used it in time.                             *)
EnrolRefused(i, t) ==
    \/ deployment.token # t
    \/ deployment.status = "revoked"
    \/ ~deployment.used /\ deployment.expired
    \/ /\ deployment.installId # NoInstall \/ deployment.used
       /\ deployment.installId # i

EnrolRead(s) ==
    LET e == enrols[s]
    IN  /\ e.phase = "read"
        /\ \/ /\ EnrolRefused(e.by, e.token)
              /\ enrols' = [enrols EXCEPT ![s] = Idle]
           \/ /\ ~EnrolRefused(e.by, e.token)
              /\ deployment.used
              /\ enrols' = [enrols EXCEPT ![s] = Onward(e, [e EXCEPT !.phase = "answer", !.reply = deployment.active])]
           \/ /\ ~EnrolRefused(e.by, e.token)
              /\ ~deployment.used
              /\ enrols' = [enrols EXCEPT ![s].phase = "claim"]
        /\ UNCHANGED <<serverVars, agent, confirms, polls, stages>>

(* Mutant of ClaimLands: the claim trusts the read for the installation. *)
ClaimForAnyone(i, t) ==
    /\ deployment.token = t
    /\ deployment.status # "revoked"

(* The WHERE of the claim.  Its clock is the one the request read at its      *)
(* start, so the token does not expire between the read and the claim.        *)
ClaimLands(i, t) ==
    /\ deployment.token = t
    /\ deployment.status # "revoked"
    /\ ~deployment.used
    /\ deployment.installId \in {NoInstall, i}

EnrolClaim(s) ==
    LET e == enrols[s]
    IN  /\ e.phase = "claim"
        /\ \/ /\ ClaimLands(e.by, e.token)
              /\ deployment' = [deployment EXCEPT !.status = "active", !.used = TRUE, !.installId = e.by]
              /\ enrols' = [enrols EXCEPT ![s] = Onward(e, [e EXCEPT !.phase = "answer", !.reply = deployment.active])]
           \/ /\ ~ClaimLands(e.by, e.token)
              /\ enrols' = [enrols EXCEPT ![s] = Onward(e, [e EXCEPT !.phase = "reread"])]
              /\ UNCHANGED deployment
        /\ UNCHANGED <<drawn, edits, agent, confirms, polls, stages>>

(* Somebody else changed the row: perhaps this installation, by a repetition  *)
(* of the same request.                                                       *)
EnrolReread(s) ==
    LET e == enrols[s]
        claimed == deployment.token = e.token /\ deployment.installId = e.by /\ deployment.used
    IN  /\ e.phase = "reread"
        /\ enrols' = [enrols EXCEPT ![s] = IF claimed THEN [e EXCEPT !.phase = "answer", !.reply = deployment.active]
                                                      ELSE Idle]
        /\ UNCHANGED <<serverVars, agent, confirms, polls, stages>>

EnrolAnswer(s) ==
    LET e == enrols[s]
    IN  /\ e.phase = "answer"
        /\ agent' = [agent EXCEPT ![e.by].active = e.reply]
        /\ enrols' = [enrols EXCEPT ![s] = Idle]
        /\ UNCHANGED <<serverVars, confirms, polls, stages>>

(* Fifteen minutes have passed since the token was issued; nothing looks at   *)
(* the expiry of a used one.                                                  *)
TokenExpires ==
    /\ ~deployment.expired /\ ~deployment.used
    /\ deployment' = [deployment EXCEPT !.expired = TRUE]
    /\ UNCHANGED <<drawn, edits, agent, enrols, confirms, polls, stages>>

-----------------------------------------------------------------------------
(* Requests of an administrator.  Each reads the row, refuses a revoked node, *)
(* and writes by id.  No node starts out revoked, so the read of a slow       *)
(* request has always been in time: the write may come at any moment.         *)

IssueToken ==
    /\ deployment.token < MaxTokens
    /\ \A i \in Installs : agent[i].active = NoCredential     \* bound: not once a node is set up
    /\ deployment' = [deployment EXCEPT !.token = @ + 1, !.expired = FALSE, !.used = FALSE]
    /\ UNCHANGED <<drawn, edits, agent, enrols, confirms, polls, stages>>

(* Mutant of WithPrinters: the list is written without a new version. *)
WithPrintersOnly(row, list) == [row EXCEPT !.desired = list]

(* Mutant of WithPrinters: the version counts the changes of the list alone. *)
WithPrintersCounted(row, list) == [row EXCEPT !.desired = list, !.configVersion = list]

WithPrinters(row, list) == [row EXCEPT !.desired = list, !.configVersion = @ + 1]

SetPrinters ==
    /\ edits < MaxEdits
    /\ edits' = edits + 1
    /\ deployment' = WithPrinters(deployment, edits + 1)
    /\ UNCHANGED <<drawn, agent, enrols, confirms, polls, stages>>

Revoke ==
    /\ deployment.status # "revoked"
    /\ deployment' = [deployment EXCEPT !.status = "revoked"]
    /\ UNCHANGED <<drawn, edits, agent, enrols, confirms, polls, stages>>

(* A rotation returns the secret already staged, or stages one by comparing   *)
(* and setting, in a loop.                                                    *)
StageRead(s) ==
    /\ stages[s] = Idle
    /\ deployment.status # "revoked"
    /\ deployment.pending = NoCredential
    /\ drawn < MaxSecrets        \* bound: no rotation begins after the last secret
    /\ stages' = [stages EXCEPT ![s] = [phase |-> "write", seen |-> deployment.active]]
    /\ UNCHANGED <<serverVars, agent, enrols, confirms, polls>>

(* Mutant of StageLands: the UPDATE does not ask whether a secret is staged. *)
StageOver(s) == deployment.active = stages[s].seen

(* Compare and set: the credential is the one read and nothing is staged. *)
StageLands(s) ==
    /\ deployment.active = stages[s].seen
    /\ deployment.pending = NoCredential

(* Mutant of Staged: the secret replaces the active one at once, as it does   *)
(* for a node of the kind before V1.                                          *)
StagedAtOnce(seen, secret) ==
    [deployment EXCEPT !.active = [version |-> seen.version + 1, secret |-> secret],
                       !.configVersion = @ + 1]

Staged(seen, secret) ==
    [deployment EXCEPT !.pending = [version |-> seen.version + 1, secret |-> secret],
                       !.configVersion = @ + 1]

StageWrite(s) ==
    /\ stages[s].phase = "write"
    /\ \/ /\ StageLands(s)
          /\ drawn' = drawn + 1
          /\ deployment' = Staged(stages[s].seen, drawn + 1)
          /\ stages' = [stages EXCEPT ![s] = Idle]
       \/ /\ ~StageLands(s)
          /\ stages' = [stages EXCEPT ![s] = Idle]     \* and around the loop: StageRead
          /\ UNCHANGED <<deployment, drawn>>
    /\ UNCHANGED <<edits, agent, enrols, confirms, polls>>

-----------------------------------------------------------------------------
(* Confirmation of a staged secret, signed with that secret. *)

Authentic(secret) ==
    /\ deployment.status # "revoked"
    /\ \/ secret = deployment.active.secret
       \/ deployment.pending # NoCredential /\ secret = deployment.pending.secret

ConfirmSend(i, s) ==
    /\ agent[i].pending # NoCredential
    /\ confirms[s] = Idle
    /\ ~Awaits(confirms, i)
    /\ confirms' = [confirms EXCEPT ![s] = [phase |-> "read", by |-> i, credential |-> agent[i].pending,
                                            awaited |-> TRUE, seen |-> 0]]
    /\ UNCHANGED <<serverVars, agent, enrols, polls, stages>>

AlreadyConfirmed(c) == deployment.active.version = c.version /\ c.secret = deployment.active.secret

Confirmable(c) ==
    /\ deployment.pending = c           \* the version asked for, signed with the staged secret
    /\ c.secret # deployment.active.secret

ConfirmRead(s) ==
    LET c == confirms[s].credential
    IN  /\ confirms[s].phase = "read"
        /\ \/ /\ Authentic(c.secret) /\ AlreadyConfirmed(c)
              /\ confirms' = [confirms EXCEPT ![s] = Onward(@, [@ EXCEPT !.phase = "answer"])]
           \/ /\ Authentic(c.secret) /\ ~AlreadyConfirmed(c) /\ Confirmable(c)
              /\ confirms' = [confirms EXCEPT ![s].phase = "promote", ![s].seen = deployment.active.version]
           \/ /\ ~Authentic(c.secret) \/ (~AlreadyConfirmed(c) /\ ~Confirmable(c))
              /\ confirms' = [confirms EXCEPT ![s] = Idle]
        /\ UNCHANGED <<serverVars, agent, enrols, polls, stages>>

PromotionLands(s) ==
    /\ deployment.active.version = confirms[s].seen
    /\ deployment.pending = confirms[s].credential

ConfirmPromote(s) ==
    /\ confirms[s].phase = "promote"
    /\ \/ /\ PromotionLands(s)
          /\ deployment' = [deployment EXCEPT !.active = confirms[s].credential, !.pending = NoCredential]
          /\ confirms' = [confirms EXCEPT ![s] = Onward(@, [@ EXCEPT !.phase = "answer", !.seen = 0])]
       \/ /\ ~PromotionLands(s)
          /\ confirms' = [confirms EXCEPT ![s] = Onward(@, [@ EXCEPT !.phase = "check", !.seen = 0])]
          /\ UNCHANGED deployment
    /\ UNCHANGED <<drawn, edits, agent, enrols, polls, stages>>

(* Another confirmation of the same credential may have promoted it. *)
ConfirmCheck(s) ==
    /\ confirms[s].phase = "check"
    /\ confirms' = [confirms EXCEPT ![s] =
            IF deployment.active = confirms[s].credential THEN [confirms[s] EXCEPT !.phase = "answer"] ELSE Idle]
    /\ UNCHANGED <<serverVars, agent, enrols, polls, stages>>

ConfirmAnswer(s) ==
    LET r == confirms[s]
        activated == [agent[r.by] EXCEPT
                        !.active = IF r.credential.version > @.version THEN r.credential ELSE @,
                        !.pending = IF @ = r.credential THEN NoCredential ELSE @]
    IN  /\ r.phase = "answer"
        /\ agent' = [agent EXCEPT ![r.by] = activated]
        /\ confirms' = [confirms EXCEPT ![s] = Idle]
        /\ UNCHANGED <<serverVars, enrols, polls, stages>>

-----------------------------------------------------------------------------
(* Polls, and the configuration the agent fetches when a poll announces       *)
(* something new.                                                             *)

PollSend(i, s) ==
    /\ agent[i].active # NoCredential
    /\ polls[s] = Idle
    /\ ~Awaits(polls, i)
    /\ polls' = [polls EXCEPT ![s] = [phase |-> "read", by |-> i, secret |-> agent[i].active.secret,
                                      applied |-> agent[i].applied, awaited |-> TRUE]]
    /\ UNCHANGED <<serverVars, agent, enrols, confirms, stages>>

AuthenticateAs(s, from, to) ==
    /\ polls[s].phase = from
    /\ polls' = [polls EXCEPT ![s] = IF Authentic(polls[s].secret) THEN [polls[s] EXCEPT !.phase = to] ELSE Idle]
    /\ UNCHANGED <<serverVars, agent, enrols, confirms, stages>>

PollRead(s) == AuthenticateAs(s, "read", "update")

PollUpdate(s) ==
    LET p == polls[s]
    IN  /\ p.phase = "update"
        /\ deployment' = [deployment EXCEPT !.status = "active",
                                            !.applied = IF p.applied > 0 THEN p.applied ELSE @]
        /\ polls' = [polls EXCEPT ![s] = Onward(p, [phase |-> "look", by |-> p.by, awaited |-> TRUE])]
        /\ UNCHANGED <<drawn, edits, agent, enrols, confirms, stages>>

(* What a poll's reply makes the agent fetch. *)
Announced(i) ==
    \/ deployment.configVersion # agent[i].applied
    \/ deployment.pending.version \notin {0, agent[i].pending.version}

(* The row is read again for the reply.  A reply that is old when it arrives  *)
(* costs the agent a fetch too many or puts one off to the next poll.         *)
PollAnswer(s) ==
    LET p == polls[s]
        fetch == [phase |-> "config_auth", by |-> p.by, secret |-> agent[p.by].active.secret, awaited |-> TRUE]
    IN  /\ p.phase = "look"
        /\ polls' = [polls EXCEPT ![s] = IF Announced(p.by) THEN fetch ELSE Idle]
        /\ UNCHANGED <<serverVars, agent, enrols, confirms, stages>>

ConfigAuth(s) == AuthenticateAs(s, "config_auth", "config")

(* Version, printers and staged secret come from one read of the row. *)
ConfigRead(s) ==
    LET p == polls[s]
    IN  /\ p.phase = "config"
        /\ polls' = [polls EXCEPT ![s] = [phase |-> "answer", by |-> p.by, awaited |-> TRUE,
                                          configVersion |-> deployment.configVersion,
                                          desired |-> deployment.desired, pending |-> deployment.pending]]
        /\ UNCHANGED <<serverVars, agent, enrols, confirms, stages>>

(* The staged secret is stored before the configuration counts as applied. *)
ConfigAnswer(s) ==
    LET p == polls[s]
        applied == [agent[p.by] EXCEPT !.applied = p.configVersion, !.desired = p.desired,
                        !.pending = IF p.pending.version > agent[p.by].active.version THEN p.pending ELSE @]
    IN  /\ p.phase = "answer"
        /\ agent' = [agent EXCEPT ![p.by] = applied]
        /\ polls' = [polls EXCEPT ![s] = Idle]
        /\ UNCHANGED <<serverVars, enrols, confirms, stages>>

(* A config_applied event of the agent's outbox arrives, late or not: it names *)
(* a version the agent has had.                                               *)
ConfigApplied(i) ==
    /\ \E v \in 1 .. agent[i].applied : deployment' = [deployment EXCEPT !.applied = v]
    /\ UNCHANGED <<drawn, edits, agent, enrols, confirms, polls, stages>>

(* The agent times out or restarts; what it keeps in its store stays.  The    *)
(* server goes on with what it may still write.                               *)
GiveUp(requests, s, writing) ==
    [requests EXCEPT ![s] = IF @.phase \in writing THEN [@ EXCEPT !.awaited = FALSE] ELSE Idle]

GiveUpEnrol(s) ==
    /\ enrols[s] \notin {Unsent, Idle} /\ enrols[s].awaited
    /\ enrols' = GiveUp(enrols, s, {"read", "claim"})
    /\ UNCHANGED <<serverVars, agent, confirms, polls, stages>>

GiveUpConfirm(s) ==
    /\ confirms[s] # Idle /\ confirms[s].awaited
    /\ confirms' = GiveUp(confirms, s, {"read", "promote"})
    /\ UNCHANGED <<serverVars, agent, enrols, polls, stages>>

GiveUpPoll(s) ==
    /\ polls[s] # Idle /\ polls[s].awaited
    /\ polls' = GiveUp(polls, s, {"read", "update"})
    /\ UNCHANGED <<serverVars, agent, enrols, confirms, stages>>

-----------------------------------------------------------------------------
Enrol == \E s \in EnrolSlots :
    \/ \E i \in Installs : EnrolSend(i, s)
    \/ EnrolRead(s) \/ EnrolClaim(s) \/ EnrolReread(s) \/ EnrolAnswer(s) \/ GiveUpEnrol(s)

Confirm == \E s \in ConfirmSlots :
    \/ \E i \in Installs : ConfirmSend(i, s)
    \/ ConfirmRead(s) \/ ConfirmPromote(s) \/ ConfirmCheck(s) \/ ConfirmAnswer(s) \/ GiveUpConfirm(s)

Poll == \E s \in PollSlots :
    \/ \E i \in Installs : PollSend(i, s)
    \/ PollRead(s) \/ PollUpdate(s) \/ PollAnswer(s)
    \/ ConfigAuth(s) \/ ConfigRead(s) \/ ConfigAnswer(s) \/ GiveUpPoll(s)

Administer ==
    \/ IssueToken \/ SetPrinters \/ Revoke
    \/ \E s \in StageSlots : StageRead(s) \/ StageWrite(s)

Report == \E i \in Installs : ConfigApplied(i)

Next == Enrol \/ TokenExpires \/ Confirm \/ Poll \/ Report \/ Administer

Spec == Init /\ [][Next]_vars

-----------------------------------------------------------------------------
Enrolled(i) == agent[i].active # NoCredential
Keeps(i) == {agent[i].active, agent[i].pending} \ {NoCredential}
Accepted == {deployment.active, deployment.pending} \ {NoCredential}

(* A rotation strands nobody: whatever is in flight, given up or repeated,    *)
(* an enrolled agent keeps a credential the server accepts.                   *)
NeverStranded == \A i \in Installs : Enrolled(i) => Keeps(i) \cap Accepted # {}

(* Whoever holds a credential of the node is the installation the row names,  *)
(* so two installations never hold one, and a node keeps its installation.    *)
OneInstallation == \A i \in Installs : Enrolled(i) => deployment.installId = i

(* A staged secret is neither replaced nor dropped: it stays until it becomes *)
(* the active one, so every administrator and every agent that was given it   *)
(* holds a secret that will be, or is, valid.                                 *)
StagedSecretStands ==
    [][deployment.pending # NoCredential =>
          \/ deployment'.pending = deployment.pending
          \/ deployment'.pending = NoCredential /\ deployment'.active = deployment.pending]_vars

(* When the version the node reported as applied is the current one, the      *)
(* agent runs the desired printers and keeps the staged secret, though polls  *)
(* and events arrive late and in any order.                                   *)
AppliedMeansApplied ==
    \A i \in Installs :
        Enrolled(i) /\ deployment.applied = deployment.configVersion =>
            /\ agent[i].desired = deployment.desired
            /\ deployment.pending # NoCredential => deployment.pending = agent[i].pending
=============================================================================
