----------------------------- MODULE PartsProofs -----------------------------
(***************************************************************************)
(* The properties of the parts over the specification that sets them side  *)
(* by side: each part has an invariant of its own, which the other parts'  *)
(* steps leave alone.                                                      *)
(***************************************************************************)
EXTENDS MCParts, FiniteSetTheorems, WellFoundedInduction, TLAPS

(* A step of the parts is one of a part, or leaves it alone. *)
LEMMA EachPartSteps == ASSUME [PartsNext]_vars
  PROVE  /\ Providers!Next \/ UNCHANGED cacheVars
         /\ Export!Next \/ UNCHANGED exportVars
         /\ Leases!Next \/ UNCHANGED leaseVars
         /\ Sync!Next \/ UNCHANGED syncVars
         /\ Seed!Next \/ UNCHANGED seedVars
         /\ Tx!TxNext \/ UNCHANGED txVars
         /\ Jobs!Next \/ UNCHANGED jobVars
         /\ Accounts!Next \/ UNCHANGED accountVars
         /\ Editor!Next \/ UNCHANGED tabVars
         /\ Studio!Next \/ UNCHANGED studioVars
         /\ Panel!Next \/ UNCHANGED panelVars
<1> USE DEF servedVars, dataVars, pageVars
<1>1. CASE UNCHANGED vars
  BY <1>1 DEF vars
<1>2. CASE ServedMove
  BY <1>2 DEF ServedMove, TokensMove, WindowsMove, ProvidersMove, ExportMoves, LeasesMove, SyncMoves
<1>3. CASE DataMove
  BY <1>3 DEF DataMove, SeedMoves, TransactionsMove, JobsMove, ProvisioningMoves
<1>4. CASE TabsMove \/ StudioMoves \/ PanelMoves
  BY <1>4 DEF TabsMove, StudioMoves, PanelMoves
<1>5. QED
  BY <1>1, <1>2, <1>3, <1>4 DEF PartsNext

LEMMA EachPartBegins == ASSUME PartsInit
  PROVE  /\ Providers!Init /\ Export!Init /\ Leases!Init /\ Sync!Init /\ Seed!Init /\ Tx!TxInit
         /\ Jobs!Init /\ Accounts!Init /\ Editor!Init /\ Studio!Init /\ Panel!Init
BY DEF PartsInit

LEMMA AtMostOne == ASSUME NEW S, \A x, y \in S : x = y PROVE Cardinality(S) <= 1
<1>1. CASE S = {}
  BY <1>1, FS_EmptySet
<1>2. CASE S # {}
  <2>1. PICK x : S = {x}
    BY <1>2
  <2>2. Cardinality(S) = 1
    BY <2>1, FS_Singleton
  <2>3. QED
    BY <2>2
<1>3. QED
  BY <1>1, <1>2

-----------------------------------------------------------------------------
(* DatasourceJobs: a request that has read both statuses found no job open, and none opens while *)
(* no other request is under way.                                                                 *)

OpenJob(r) == job[r] \in {"queued", "running"}
Clear(r, q) ==
  /\ ~(ask[r] = "reading" /\ ask[q] = "reading") /\ ~(OpenJob(r) /\ OpenJob(q))
  /\ ask[r] = "reading" /\ reads[r] >= 1 => job[q] # "queued"
  /\ ask[r] = "reading" /\ reads[r] = 2 => job[q] # "running"
JobsInv ==
  /\ Jobs!JobsTypeOK
  /\ \A r \in Requests : (ask[r] # "enqueued" => job[r] = "none") /\ (ask[r] = "idle" => reads[r] = 0)
  /\ ~met => \A r, q \in Requests : r # q => Clear(r, q)

LEMMA JobsStep == ASSUME JobsInv, Jobs!Next PROVE JobsInv'
<1> USE DEF JobsInv, Jobs!JobsTypeOK
<1>1. PICK r \in Requests : Jobs!Ask(r) \/ Jobs!Read(r) \/ Jobs!Enqueue(r) \/ Jobs!Claimed(r) \/ Jobs!Ended(r)
  BY DEF Jobs!Next
<1>2. CASE Jobs!Ask(r)
  <2>1. Jobs!JobsTypeOK'
    BY <1>2 DEF Jobs!Ask
  <2>2. ~met' => ~met /\ \A q \in Requests : ask[q] # "reading"
    BY <1>2 DEF Jobs!Ask
  <2>3. /\ ask' = [ask EXCEPT ![r] = "reading"] /\ reads' = reads /\ job' = job /\ reads[r] = 0 /\ job[r] = "none"
    BY <1>2 DEF Jobs!Ask
  <2>4. QED
    BY <2>1, <2>2, <2>3 DEF Clear, OpenJob
<1>3. CASE Jobs!Read(r)
  <2>1. CASE \E q \in Requests : job[q] = Jobs!Reads[reads[r] + 1]
    BY <1>3, <2>1 DEF Jobs!Read, Clear, OpenJob
  <2>2. CASE ~\E q \in Requests : job[q] = Jobs!Reads[reads[r] + 1]
    <3>1. Jobs!Reads[1] = "queued" /\ Jobs!Reads[2] = "running"
      BY DEF Jobs!Reads, Jobs!SeedReads
    <3>2. /\ reads' = [reads EXCEPT ![r] = @ + 1] /\ UNCHANGED <<ask, job, met>> /\ ask[r] = "reading"
          /\ \/ reads[r] = 0 /\ \A q \in Requests : job[q] # "queued"
             \/ reads[r] = 1 /\ \A q \in Requests : job[q] # "running"
      BY <1>3, <2>2, <3>1 DEF Jobs!Read
    <3>3. QED
      BY <3>2 DEF Clear, OpenJob
  <2>3. QED
    BY <2>1, <2>2
<1>4. CASE Jobs!Enqueue(r)
  BY <1>4 DEF Jobs!Enqueue, Clear, OpenJob
<1>5. CASE Jobs!Claimed(r)
  BY <1>5 DEF Jobs!Claimed, Jobs!Becomes, Clear, OpenJob
<1>6. CASE Jobs!Ended(r)
  BY <1>6 DEF Jobs!Ended, Jobs!Becomes, Clear, OpenJob
<1>7. QED
  BY <1>1, <1>2, <1>3, <1>4, <1>5, <1>6

LEMMA SameCount == \A S : Jobs!Cardinality(S) = Cardinality(S)
BY DEF Jobs!Cardinality, Cardinality

(* A datasource has one seed open at a time, where no request asked while another was under way *)
(* (seed-data/job.ts: queued and then running are read, the way a job goes, and then it is enqueued). *)
THEOREM OneOpenHolds == PartsSpec => []OneOpen
<1>1. PartsInit => JobsInv
  <2>1. PartsInit => Jobs!Init
    BY DEF PartsInit
  <2>2. Jobs!Init => JobsInv
    <3> SUFFICES ASSUME Jobs!Init PROVE JobsInv
      OBVIOUS
    <3>a. met \in BOOLEAN
      BY DEF Jobs!Init
    <3>1. Jobs!JobsTypeOK
      BY <3>a DEF Jobs!Init, Jobs!JobsTypeOK
    <3>2. \A r \in Requests : ask[r] = "idle" /\ job[r] = "none" /\ reads[r] = 0
      BY DEF Jobs!Init
    <3>3. QED
      BY <3>1, <3>2 DEF JobsInv, Clear, OpenJob
  <2>3. QED
    BY <2>1, <2>2
<1>2. JobsInv /\ [PartsNext]_vars => JobsInv'
  <2>1. ASSUME JobsInv, UNCHANGED jobVars PROVE JobsInv'
    BY <2>1 DEF JobsInv, Jobs!JobsTypeOK, jobVars, Clear, OpenJob
  <2>2. QED
    BY <2>1, EachPartSteps, JobsStep
<1>3. JobsInv => OneOpen
  <2> SUFFICES ASSUME JobsInv, ~met PROVE Cardinality({r \in Requests : job[r] \in {"queued", "running"}}) <= 1
    BY SameCount DEF OneOpen, Jobs!OneOpen
  <2>1. \A r, q \in {r \in Requests : job[r] \in {"queued", "running"}} : r = q
    BY DEF JobsInv, Clear, OpenJob
  <2>2. QED
    BY <2>1, AtMostOne
<1>4. QED
  BY <1>1, <1>2, <1>3, PTL DEF PartsSpec

-----------------------------------------------------------------------------
(* VaultLeases: an answer is read within Lag of the instant its request took, and a lease counts *)
(* from an instant no later than its grant.                                                      *)

Request == [phase: {"idle", "reading", "waiting", "holding"}, now: 0..MaxTime, lease: Leases!Lease \cup {None}]
Owed(l) == l = None \/ (l \in Leases!Lease /\ l.from <= l.granted)
LeasesInv ==
  /\ Leases!LeasesTypeOK
  /\ Owed(lease)
  /\ issue.phase # "none" => issue.from <= issue.at /\ issue.at <= time /\ time <= issue.at + Lag
  /\ issue.phase = "granted" => issue.granted = issue.at
  /\ \A c \in Calls : request[c].phase = "reading" => request[c].now <= time /\ time <= request[c].now + Lag
  /\ \A c \in Calls : request[c].phase = "reading" => request[c].lease = None

LEMMA LeasesStep == ASSUME LeaseTimes, LeasesInv, Leases!Next PROVE LeasesInv'
<1> USE DEF LeaseTimes, LeasesInv, Leases!LeasesTypeOK, Leases!Lease, Leases!Instants, Owed, Request
<1>1. ASSUME NEW c \in Calls, Leases!Resolve(c) PROVE LeasesInv'
  <2>1. PICK w \in Request : w.phase = "reading" /\ w.now = time /\ w.lease = None /\ request' = [request EXCEPT ![c] = w]
    <3>1. [phase |-> "reading", now |-> time, lease |-> None] \in Request
      OBVIOUS
    <3>2. QED
      BY <1>1, <3>1 DEF Leases!Resolve
  <2>2. UNCHANGED <<time, lease, issue>>
    BY <1>1 DEF Leases!Resolve
  <2>3. request' \in [Calls -> Request]
    BY <2>1
  <2>4. \A d \in Calls : request'[d].phase = "reading" =>
          request'[d].now <= time /\ time <= request'[d].now + Lag /\ request'[d].lease = None
    BY <2>1
  <2>5. QED
    BY <2>2, <2>3, <2>4
<1>2. ASSUME NEW c \in Calls, Leases!KvFails(c) PROVE LeasesInv'
  BY <1>2 DEF Leases!KvFails, Leases!IdleRequest
<1>3. ASSUME NEW c \in Calls, Leases!LeaseFor(c) PROVE LeasesInv'
  <2>1. request[c] \in Request /\ request[c].phase = "reading" /\ request[c].now <= time /\ time <= request[c].now + Lag
    BY <1>3 DEF Leases!LeaseFor
  <2>2. PICK w \in Request : w.phase \in {"holding", "waiting"} /\ request' = [request EXCEPT ![c] = w]
    <3>1. lease \in Leases!Lease \cup {None}
      OBVIOUS
    <3>2. CASE request' = [request EXCEPT ![c].phase = "holding", ![c].lease = lease]
      <4> DEFINE v == [request[c] EXCEPT !.phase = "holding", !.lease = lease]
      <4>1. v \in Request /\ v.phase = "holding"
        BY <2>1, <3>1
      <4>2. request' = [request EXCEPT ![c] = v]
        BY <3>2
      <4>3. QED
        BY <4>1, <4>2
    <3>3. CASE request' = [request EXCEPT ![c].phase = "waiting"]
      <4> DEFINE v == [request[c] EXCEPT !.phase = "waiting"]
      <4>1. v \in Request /\ v.phase = "waiting"
        BY <2>1
      <4>2. request' = [request EXCEPT ![c] = v]
        BY <3>3
      <4>3. QED
        BY <4>1, <4>2
    <3>4. QED
      BY <1>3, <3>2, <3>3 DEF Leases!LeaseFor
  <2>3. /\ request' \in [Calls -> Request]
        /\ \A d \in Calls : request'[d].phase = "reading" => d # c /\ request'[d] = request[d]
    BY <2>2
  <2>4. UNCHANGED <<time, lease>>
    BY <1>3 DEF Leases!LeaseFor
  <2>5. CASE issue' = issue
    BY <2>3, <2>4, <2>5
  <2>6. CASE issue' = [phase |-> "asked", from |-> request[c].now, granted |-> 0, at |-> time]
    <3>1. /\ issue' \in [phase: {"none", "asked", "granted"}, from: 0..MaxTime, granted: 0..MaxTime, at: 0..MaxTime]
          /\ issue'.phase = "asked" /\ issue'.from = request[c].now /\ issue'.at = time
      BY <2>1, <2>6
    <3>2. QED
      BY <2>1, <2>3, <2>4, <3>1
  <2>7. QED
    BY <1>3, <2>5, <2>6 DEF Leases!LeaseFor
<1>4. ASSUME NEW c \in Calls, Leases!Done(c) PROVE LeasesInv'
  BY <1>4 DEF Leases!Done, Leases!IdleRequest
<1>5. CASE Leases!Grant
  <2>1. /\ lease' = lease /\ time' = time /\ request' = request
        /\ issue' = [phase |-> "granted", from |-> issue.from, granted |-> time, at |-> time]
        /\ issue.phase = "asked"
    BY <1>5 DEF Leases!Grant
  <2>2. QED
    BY <2>1
<1>6. CASE Leases!Issued
  <2> DEFINE new == [from |-> issue.from, granted |-> issue.granted]
  <2>1. new \in Leases!Lease /\ new.from <= new.granted /\ lease' = new /\ time' = time /\ issue' = Leases!NoIssue
    BY <1>6 DEF Leases!Issued
  <2>2. ASSUME NEW c \in Calls
        PROVE  request'[c] \in Request /\ (request'[c].phase = "reading" => request'[c] = request[c])
    <3>1. request'[c] = IF request[c].phase = "waiting" THEN [request[c] EXCEPT !.phase = "holding", !.lease = new] ELSE request[c]
      BY <1>6 DEF Leases!Issued, Leases!Waiting
    <3>2. QED
      BY <2>1, <3>1
  <2>3. request' \in [Calls -> Request]
    BY <1>6, <2>2 DEF Leases!Issued
  <2>4. QED
    BY <2>1, <2>2, <2>3 DEF Leases!NoIssue
<1>7. CASE Leases!IssueFails
  <2>1. Leases!IdleRequest \in Request /\ Leases!IdleRequest.phase = "idle"
    BY DEF Leases!IdleRequest
  <2>2. ASSUME NEW c \in Calls PROVE request'[c] \in {request[c], Leases!IdleRequest}
    BY <1>7 DEF Leases!IssueFails
  <2>3. request' \in [Calls -> Request]
    BY <1>7, <2>1 DEF Leases!IssueFails
  <2>4. lease' = lease /\ time' = time /\ issue' = Leases!NoIssue
    BY <1>7 DEF Leases!IssueFails
  <2>5. QED
    BY <2>1, <2>2, <2>3, <2>4 DEF Leases!NoIssue
<1>8. CASE Leases!Pass
  BY <1>8 DEF Leases!Pass
<1>9. QED
  BY <1>1, <1>2, <1>3, <1>4, <1>5, <1>6, <1>7, <1>8 DEF Leases!Next

(* What LeaseLive says of a step. *)
AliveWhenGot == \A c \in Calls : request[c].phase # "holding" /\ request'[c].phase = "holding" =>
                  time < request'[c].lease.granted + Term

LEMMA GotAlive == ASSUME LeaseTimes, LeasesInv, Leases!Next PROVE AliveWhenGot
<1> USE DEF LeaseTimes, LeasesInv, Leases!LeasesTypeOK, Leases!Lease, Leases!Instants, Owed, AliveWhenGot
<1>1. ASSUME NEW c \in Calls, Leases!LeaseFor(c) PROVE AliveWhenGot
  BY <1>1 DEF Leases!LeaseFor, Leases!Hit, Leases!RenewAt
<1>2. CASE Leases!Issued
  <2>1. issue.granted = issue.at /\ time <= issue.at + Lag /\ issue.at \in Nat /\ time \in Nat
    <3>1. issue.phase = "granted"
      BY <1>2 DEF Leases!Issued
    <3>2. QED
      BY <3>1
  <2>2. Lag < Term
    OBVIOUS
  <2>3. time < issue.granted + Term
    BY <2>1, <2>2
  <2>4. ASSUME NEW c \in Calls, request'[c].phase = "holding", request[c].phase # "holding"
        PROVE  time < request'[c].lease.granted + Term
    <3>1. request'[c].lease.granted = issue.granted
      BY <1>2, <2>4 DEF Leases!Issued, Leases!Waiting
    <3>2. QED
      BY <2>3, <3>1
  <2>5. QED
    BY <2>4
<1>3. ASSUME NEW c \in Calls, Leases!Resolve(c) \/ Leases!KvFails(c) \/ Leases!Done(c) PROVE AliveWhenGot
  BY <1>3 DEF Leases!Resolve, Leases!KvFails, Leases!Done, Leases!IdleRequest
<1>4. CASE Leases!Grant \/ Leases!Pass
  BY <1>4 DEF Leases!Grant, Leases!Pass
<1>5. CASE Leases!IssueFails
  <2>1. \A c \in Calls : request'[c] = request[c] \/ request'[c].phase = "idle"
    BY <1>5 DEF Leases!IssueFails, Leases!IdleRequest
  <2>2. QED
    BY <2>1
<1>6. QED
  BY <1>1, <1>2, <1>3, <1>4, <1>5 DEF Leases!Next

(* Where a lease is renewed early enough for the slowest answer, a request gets a credential Vault *)
(* still honours.                                                                                  *)
THEOREM LeaseLiveHolds == ASSUME LeaseTimes PROVE PartsSpec => LeaseLive
<1>1. PartsInit => LeasesInv
  BY EachPartBegins DEF LeaseTimes, LeasesInv, Leases!Init, Leases!NoIssue, Leases!IdleRequest, Leases!LeasesTypeOK,
     Leases!Instants, Leases!Lease, Owed
<1>2. LeasesInv /\ [PartsNext]_vars => LeasesInv'
  <2>1. ASSUME LeasesInv, UNCHANGED leaseVars PROVE LeasesInv'
    BY <2>1 DEF leaseVars, LeasesInv, Leases!LeasesTypeOK
  <2>2. QED
    BY <2>1, EachPartSteps, LeasesStep
<1>3. LeasesInv /\ [PartsNext]_vars => [AliveWhenGot]_(Leases!leaseVars)
  BY EachPartSteps, GotAlive DEF leaseVars, Leases!leaseVars
<1>4. QED
  BY <1>1, <1>2, <1>3, PTL DEF PartsSpec, LeaseLive, Leases!LeaseLive, AliveWhenGot

-----------------------------------------------------------------------------
(* AgentFollower: only the last start is under way, only its run is asked to stop, and a run an    *)
(* earlier start opened was told to stop, or has ended, unless an answer that told of it was lost. *)

AskOf == [stage: {"idle", "asking", "accepted", "aborted", "over"}, of: 0..MaxRuns, replaces: BOOLEAN]
UnderWay(s) == start[s] \in {"posting", "opened", "following"}
Standing(a) == stopAsk[a].stage \in {"asking", "accepted"}

(* How far the starts are: those before the last are aborted or over. *)
Started ==
  /\ \A s \in Panel!Starts : s > latest => start[s] = "idle" /\ agentRun[s] = "none"
  /\ \A s \in Panel!Starts : s < latest => start[s] \in {"aborted", "over"}
  /\ latest # 0 => start[latest] \in {"posting", "opened", "following", "over"}
  /\ \A s \in Panel!Starts : start[s] = "posting" => agentRun[s] = "none"
  /\ busy <=> latest # 0 /\ UnderWay(latest)

(* What is known of the last run, and what was asked of it. *)
Followed ==
  /\ runId \in {0, latest} /\ (runId # 0 => start[runId] \in {"following", "over"})
  /\ status = "ended" => latest # 0 /\ agentRun[latest] = "ended"
  /\ \A a \in Panel!Asks : Standing(a) => runId # 0 /\ stopAsk[a].of = runId
  /\ \A a \in Panel!Asks : stopAsk[a].stage = "accepted" => agentRun[runId] \in {"stopping", "ended"}
  /\ \A a \in Panel!Asks : stopAsk[a].stage = "aborted" => stopMet
  /\ ~stopMet => error \in {0, latest}

(* Of the runs, the last alone goes on unasked. *)
LastAlone ==
  ~severed => /\ \A s \in Panel!Starts : s < latest => agentRun[s] # "live"
              /\ latest # 0 /\ start[latest] = "over" => agentRun[latest] # "live"

PanelInv == Panel!FollowerTypeOK /\ Started /\ Followed /\ LastAlone

LEMMA FollowersCount == \A S : Panel!Cardinality(S) = Cardinality(S)
BY DEF Panel!Cardinality, Cardinality

LEMMA PanelTyped == ASSUME PanelBounds, Panel!FollowerTypeOK
  PROVE  /\ agentRun \in [Panel!Starts -> {"none", "live", "stopping", "ended"}]
         /\ start \in [Panel!Starts -> {"idle", "posting", "opened", "following", "aborted", "over"}]
         /\ latest \in Nat /\ latest <= MaxRuns /\ runId \in 0..MaxRuns /\ error \in 0..MaxRuns
         /\ latest # 0 => latest \in Panel!Starts
         /\ Panel!Starts \subseteq Nat /\ \A s \in Panel!Starts : s # 0 /\ s <= MaxRuns
         /\ busy \in BOOLEAN /\ stopping \in BOOLEAN /\ severed \in BOOLEAN /\ stopMet \in BOOLEAN
BY DEF PanelBounds, Panel!FollowerTypeOK, Panel!Starts

(* A start, though it abort what is under way, leaves none before it going on unasked. *)
LEMMA StartingKeeps ==
  ASSUME PanelBounds, PanelInv, NEW asks, Panel!Starting(asks),
         \A a \in Panel!Asks : asks[a] = stopAsk[a] \/ asks[a] = [stopAsk[a] EXCEPT !.stage = "over"],
         ~severed /\ latest # 0 => agentRun[latest] # "live"
  PROVE  PanelInv'
<1> USE PanelTyped DEF PanelInv
<1>1. /\ latest' = latest + 1 /\ latest' \in Panel!Starts /\ busy' /\ busy' \in BOOLEAN /\ stopping' = FALSE
      /\ error' = 0 /\ runId' = 0 /\ status' = "none" /\ agentRun' = agentRun /\ severed' = severed
  BY DEF Panel!Starting, PanelBounds, Panel!Starts
<1>2. start' = [s \in Panel!Starts |-> IF s = latest' THEN "posting" ELSE IF UnderWay(s) THEN "aborted" ELSE start[s]]
  BY DEF Panel!Starting, UnderWay
<1>3. ASSUME NEW a \in Panel!Asks
      PROVE  \/ stopAsk'[a] = [asks[a] EXCEPT !.stage = "aborted"] /\ asks[a].stage \in {"asking", "accepted"}
             \/ stopAsk'[a] = asks[a] /\ asks[a].stage \notin {"asking", "accepted"}
  BY DEF Panel!Starting
<1>4. ASSUME NEW a \in Panel!Asks PROVE stopAsk[a] \in AskOf /\ asks[a] \in AskOf
  BY DEF Panel!FollowerTypeOK, AskOf
<1>5. ASSUME NEW a \in Panel!Asks
      PROVE  stopAsk'[a] \in AskOf /\ ~Standing(a)' /\ stopAsk'[a].stage # "accepted"
  <2>1. ASSUME NEW r \in AskOf PROVE [r EXCEPT !.stage = "aborted"] \in AskOf /\ [r EXCEPT !.stage = "aborted"].stage = "aborted"
    BY DEF AskOf
  <2>2. stopAsk'[a] \in AskOf /\ stopAsk'[a].stage \notin {"asking", "accepted"}
    <3>1. CASE stopAsk'[a] = [asks[a] EXCEPT !.stage = "aborted"]
      BY <1>4, <2>1, <3>1
    <3>2. CASE stopAsk'[a] = asks[a] /\ asks[a].stage \notin {"asking", "accepted"}
      BY <1>4, <3>2
    <3>3. QED
      BY <1>3, <3>1, <3>2
  <2>3. QED
    BY <2>2 DEF Standing
<1>6. \A a \in Panel!Asks : stopAsk'[a].stage = "aborted" => stopMet'
  <2>1. stopMet' <=> (stopMet \/ \E a \in Panel!Asks : asks[a].stage \in {"asking", "accepted"})
    BY DEF Panel!Starting
  <2>2. \A a \in Panel!Asks : stopAsk[a].stage = "aborted" => stopMet
    BY DEF Followed
  <2>3. ASSUME NEW a \in Panel!Asks, stopAsk'[a].stage = "aborted"
        PROVE  asks[a].stage \in {"asking", "accepted"} \/ stopAsk[a].stage = "aborted"
    BY <1>3, <1>4, <2>3 DEF AskOf
  <2>4. QED
    BY <2>1, <2>2, <2>3
<1>7. stopMet' \in BOOLEAN
  BY DEF Panel!Starting
<1>8. Panel!FollowerTypeOK'
  <2>1. stopAsk' \in [Panel!Asks -> AskOf]
    BY <1>5 DEF Panel!Starting
  <2>2. start' \in [Panel!Starts -> {"idle", "posting", "opened", "following", "aborted", "over"}]
    BY <1>2
  <2>3. {busy', stopping', severed', stopMet'} \subseteq BOOLEAN
    BY <1>1, <1>7
  <2>4. QED
    BY <1>1, <2>1, <2>2, <2>3 DEF Panel!FollowerTypeOK, AskOf, PanelBounds, Panel!Starts
<1>9. Started'
  BY <1>1, <1>2 DEF Started, UnderWay
<1>10. Followed'
  BY <1>1, <1>5, <1>6 DEF Followed, Standing
<1>11. LastAlone'
  BY <1>1, <1>2 DEF LastAlone, Started
<1>12. QED
  BY <1>8, <1>9, <1>10, <1>11

LEMMA PanelStep == ASSUME PanelBounds, PanelInv, Panel!Next PROVE PanelInv'
<1> USE PanelTyped DEF PanelInv
<1>1. CASE Panel!Begin
  <2>1. ~severed /\ latest # 0 => agentRun[latest] # "live"
    BY <1>1 DEF Panel!Begin, Started, UnderWay, LastAlone
  <2>2. QED
    BY <1>1, <2>1, StartingKeeps DEF Panel!Begin
<1>2. ASSUME NEW s \in Panel!Starts, Panel!ServerOpens(s) PROVE PanelInv'
  <2>1. s = latest
    BY <1>2 DEF Panel!ServerOpens, Started
  <2>2. QED
    BY <1>2, <2>1 DEF Panel!ServerOpens, Panel!FollowerTypeOK, Started, Followed, LastAlone, UnderWay, Standing
<1>3. ASSUME NEW s \in Panel!Starts, Panel!StartAnswered(s) PROVE PanelInv'
  <2>1. s = latest
    BY <1>3 DEF Panel!StartAnswered, Started
  <2>2. QED
    BY <1>3, <2>1 DEF Panel!StartAnswered, Panel!FollowerTypeOK, Started, Followed, LastAlone, UnderWay, Standing
<1>4. ASSUME NEW s \in Panel!Starts, Panel!StartFails(s) PROVE PanelInv'
  <2>1. s = latest
    BY <1>4 DEF Panel!StartFails, Started
  <2>2. QED
    BY <1>4, <2>1 DEF Panel!StartFails, Panel!FollowerTypeOK, Started, Followed, LastAlone, UnderWay, Standing
<1>5. ASSUME NEW s \in Panel!Starts, Panel!LedgerTells(s) PROVE PanelInv'
  <2>1. s = latest
    BY <1>5 DEF Panel!LedgerTells, Started
  <2>2. QED
    BY <1>5, <2>1 DEF Panel!LedgerTells, Panel!FollowerTypeOK, Started, Followed, LastAlone, UnderWay, Standing
<1>6. ASSUME NEW s \in Panel!Starts, Panel!LedgerEnds(s) PROVE PanelInv'
  <2>1. s = latest
    BY <1>6 DEF Panel!LedgerEnds, Started
  <2>2. QED
    BY <1>6, <2>1 DEF Panel!LedgerEnds, Panel!FollowerTypeOK, Started, Followed, LastAlone, UnderWay, Standing
<1>7. ASSUME NEW s \in Panel!Starts, Panel!StartAborted(s) PROVE PanelInv'
  <2>1. s # latest
    BY <1>7 DEF Panel!StartAborted, Started
  <2>2. QED
    BY <1>7, <2>1 DEF Panel!StartAborted, Panel!AbortPassedOver, Panel!FollowerTypeOK, Started, Followed, LastAlone, UnderWay, Standing
<1>8. ASSUME NEW s \in Panel!Starts, Panel!ServerEnds(s) PROVE PanelInv'
  BY <1>8 DEF Panel!ServerEnds, Panel!FollowerTypeOK, Started, Followed, LastAlone, UnderWay, Standing
<1>9. ASSUME NEW a \in Panel!Asks, NEW replaces \in BOOLEAN, Panel!Ask(a, replaces) PROVE PanelInv'
  <2> DEFINE new == [stage |-> "asking", of |-> runId, replaces |-> replaces]
  <2>1. /\ runId # 0 /\ stopping' = TRUE /\ error' = 0 /\ stopAsk' = [stopAsk EXCEPT ![a] = new]
        /\ UNCHANGED <<agentRun, start, latest, runId, busy, status, severed, stopMet>>
    BY <1>9 DEF Panel!Ask
  <2>2. new \in AskOf
    BY DEF AskOf
  <2>3. stopAsk' \in [Panel!Asks -> AskOf]
    BY <2>1, <2>2 DEF Panel!FollowerTypeOK, AskOf
  <2>4. Panel!FollowerTypeOK'
    BY <2>1, <2>3 DEF Panel!FollowerTypeOK, AskOf, PanelBounds
  <2>5. \A b \in Panel!Asks : stopAsk'[b] = stopAsk[b] \/ (stopAsk'[b] = new /\ b = a)
    BY <2>1 DEF Panel!FollowerTypeOK
  <2>6. Followed'
    BY <2>1, <2>5 DEF Followed, Standing
  <2>7. QED
    BY <2>1, <2>4, <2>6 DEF Started, LastAlone, UnderWay
<1>10. ASSUME NEW a \in Panel!Asks, Panel!StopRecorded(a) PROVE PanelInv'
  BY <1>10 DEF Panel!StopRecorded, Panel!FollowerTypeOK, Started, Followed, LastAlone, UnderWay, Standing
<1>11. ASSUME NEW a \in Panel!Asks, Panel!Accepted(a) PROVE PanelInv'
  <2>1. CASE stopAsk[a].replaces
    <3>1. ~severed /\ latest # 0 => agentRun[latest] # "live"
      BY <1>11 DEF Panel!Accepted, Followed, Standing
    <3>2. \A b \in Panel!Asks : Panel!Over(a)[b] = stopAsk[b] \/ Panel!Over(a)[b] = [stopAsk[b] EXCEPT !.stage = "over"]
      BY DEF Panel!Over, Panel!FollowerTypeOK
    <3>3. QED
      BY <1>11, <2>1, <3>1, <3>2, StartingKeeps DEF Panel!Accepted
  <2>2. CASE ~stopAsk[a].replaces
    BY <1>11, <2>2 DEF Panel!Accepted, Panel!Over, Panel!FollowerTypeOK, Started, Followed, LastAlone, UnderWay, Standing
  <2>3. QED
    BY <2>1, <2>2
<1>12. ASSUME NEW a \in Panel!Asks, Panel!Refused(a) PROVE PanelInv'
  <2>1. stopAsk[a] \in AskOf /\ \A b \in Panel!Asks : stopAsk[b] \in AskOf
    BY DEF Panel!FollowerTypeOK, AskOf
  <2>2. /\ stopAsk[a].stage \in {"asking", "accepted", "aborted"} /\ error' = stopAsk[a].of /\ stopping' = FALSE
        /\ stopAsk' = [stopAsk EXCEPT ![a].stage = "over"]
        /\ UNCHANGED <<agentRun, start, latest, runId, busy, status, severed, stopMet>>
    BY <1>12 DEF Panel!Refused, Panel!OpensNothing, Panel!Over
  <2>3. \A b \in Panel!Asks : stopAsk'[b] \in AskOf /\ (stopAsk'[b] = stopAsk[b] \/ stopAsk'[b].stage = "over")
    BY <2>1, <2>2 DEF AskOf, Panel!FollowerTypeOK
  <2>4. Panel!FollowerTypeOK'
    <3>1. stopAsk' \in [Panel!Asks -> AskOf]
      BY <2>2, <2>3 DEF Panel!FollowerTypeOK
    <3>2. error' \in 0..MaxRuns
      BY <2>1, <2>2 DEF AskOf
    <3>3. QED
      BY <2>2, <3>1, <3>2 DEF Panel!FollowerTypeOK, AskOf
  <2>5. ~stopMet => stopAsk[a].of = latest
    BY <2>2 DEF Followed, Standing
  <2>6. Followed'
    BY <2>2, <2>3, <2>5 DEF Followed, Standing
  <2>7. QED
    BY <2>2, <2>4, <2>6 DEF Started, LastAlone, UnderWay
<1>13. QED
  BY <1>1, <1>2, <1>3, <1>4, <1>5, <1>6, <1>7, <1>8, <1>9, <1>10, <1>11, <1>12 DEF Panel!Next

(* The panel opens one run at a time, is busy for its last start and shows the failure of no other. *)
THEOREM PanelTrueHolds == ASSUME PanelBounds PROVE PartsSpec => []PanelTrue
<1>1. PartsInit => PanelInv
  <2>1. ASSUME Panel!Init PROVE PanelInv
    <3>1. {busy, stopping, severed, stopMet} \subseteq BOOLEAN
      BY <2>1 DEF Panel!Init
    <3>a. Panel!NoAsk \in AskOf
      BY DEF PanelBounds, Panel!NoAsk, AskOf
    <3>b. stopAsk \in [Panel!Asks -> AskOf]
      BY <2>1, <3>a DEF Panel!Init
    <3>2. Panel!FollowerTypeOK
      BY <2>1, <3>1, <3>b DEF AskOf, PanelBounds, Panel!Init, Panel!FollowerTypeOK, Panel!NoAsk
    <3>3. latest = 0 /\ ~busy /\ busy \in BOOLEAN /\ runId = 0 /\ status = "none" /\ error = 0
      BY <2>1 DEF Panel!Init
    <3>4. \A s \in Panel!Starts : s > 0 /\ start[s] = "idle" /\ agentRun[s] = "none"
      BY <2>1 DEF Panel!Init, Panel!Starts
    <3>5. \A a \in Panel!Asks : stopAsk[a].stage = "idle"
      BY <2>1 DEF Panel!Init, Panel!NoAsk
    <3>6. Started
      BY <3>3, <3>4 DEF Started, Panel!Starts
    <3>7. Followed /\ LastAlone
      BY <3>3, <3>4, <3>5 DEF Followed, LastAlone, Standing, Panel!Starts
    <3>8. QED
      BY <3>2, <3>6, <3>7 DEF PanelInv
  <2>2. QED
    BY <2>1, EachPartBegins
<1>2. PanelInv /\ [PartsNext]_vars => PanelInv'
  <2>1. ASSUME PanelInv, UNCHANGED panelVars PROVE PanelInv'
    BY <2>1 DEF panelVars, PanelInv, Panel!FollowerTypeOK, Started, Followed, LastAlone, UnderWay, Standing
  <2>2. QED
    BY <2>1, EachPartSteps, PanelStep
<1>3. PanelInv => PanelTrue
  <2> SUFFICES ASSUME PanelInv PROVE PanelTrue
    OBVIOUS
  <2>1. Panel!OneUnstopped
    <3>1. ASSUME ~severed PROVE \A s, q \in {s \in Panel!Starts : agentRun[s] = "live"} : s = q
      BY <3>1, PanelTyped DEF PanelInv, LastAlone, Started
    <3>2. QED
      BY <3>1, AtMostOne, FollowersCount DEF Panel!OneUnstopped
  <2>2. Panel!BusyWithLast
    BY DEF PanelInv, Started, UnderWay, Panel!BusyWithLast
  <2>3. Panel!ErrorOfLast
    BY DEF PanelInv, Followed, Panel!ErrorOfLast
  <2>4. QED
    BY <2>1, <2>2, <2>3 DEF PanelTrue
<1>4. QED
  BY <1>1, <1>2, <1>3, PTL DEF PartsSpec

-----------------------------------------------------------------------------
(* StudioReads: the read under way that counts is of the connection on screen, as a declaration is *)
(* by its key, and no two reads have one number.                                                   *)

OfScreen(c) == \A r \in reading : r.at = generation => r.of = c
ObjectsRead ==
  /\ generation \in Nat /\ listLoading \in BOOLEAN
  /\ \A r \in reading : r.at \in Nat /\ r.at <= generation
  /\ \A r, q \in reading : r.at = q.at => r = q
  /\ Studio!SpinsForCurrent

StudioInv ==
  /\ ObjectsRead /\ Studio!OwnDeclaration /\ strayed \in BOOLEAN
  /\ ~strayed => OfScreen(onScreen) /\ Studio!OwnObjects

(* A fetch of a connection is of it, shows nothing of another, and spins while it is under way. *)
LEMMA FetchOwn ==
  ASSUME ObjectsRead, NEW c, NEW wanted, NEW times \in Nat \ {0}, Studio!Fetch(c, wanted, times)
  PROVE  /\ ObjectsRead'
         /\ \A r \in reading' : r.at = generation' => r.of = c
         /\ ~listLoading' => list' = NULL
<1> DEFINE new == {[at |-> g, of |-> c] : g \in (generation + 1)..generation'}
<1> USE DEF ObjectsRead, Studio!SpinsForCurrent
<1>1. generation' = generation + times /\ generation' \in Nat /\ generation' > generation
  BY DEF Studio!Fetch, Studio!Supersedes
<1>2. CASE c \in Deferred /\ wanted # c
  <2>1. list' = NULL /\ listLoading' = FALSE /\ reading' = reading
    BY <1>2 DEF Studio!Fetch
  <2>2. \A r \in reading' : r.at \in Nat /\ r.at <= generation' /\ r.at # generation'
    BY <1>1, <2>1
  <2>3. ~listLoading' /\ listLoading' \in BOOLEAN
    BY <2>1
  <2>4. \A r, q \in reading' : r.at = q.at => r = q
    BY <2>1
  <2>5. QED
    BY <1>1, <2>1, <2>2, <2>3, <2>4
<1>3. CASE ~(c \in Deferred /\ wanted # c)
  <2>1. reading' = reading \cup new /\ listLoading' = TRUE
    BY <1>3 DEF Studio!Fetch, Studio!Begin
  <2>2. \A r \in new : r.at \in Nat /\ generation < r.at /\ r.at <= generation' /\ r.of = c
    <3>1. ASSUME NEW r \in new PROVE r.at \in (generation + 1)..generation' /\ r.of = c
      OBVIOUS
    <3> HIDE DEF new
    <3>2. QED
      BY <1>1, <3>1
  <2>3. \A r, q \in new : r.at = q.at => r = q
    OBVIOUS
  <2>4. [at |-> generation', of |-> c] \in new
    BY <1>1
  <2> HIDE DEF new
  <2>5. \A r, q \in reading' : r.at = q.at => r = q
    BY <2>1, <2>2, <2>3
  <2>6. \E r \in reading' : r.at = generation'
    BY <2>1, <2>4
  <2>7. \A r \in reading' : r.at \in Nat /\ r.at <= generation' /\ (r.at = generation' => r.of = c)
    BY <1>1, <2>1, <2>2
  <2>8. QED
    BY <1>1, <2>1, <2>5, <2>6, <2>7
<1>4. QED
  BY <1>2, <1>3

LEMMA StudioStep == ASSUME StudioInv, Studio!Next PROVE StudioInv'
<1> USE DEF StudioInv
<1>1. ASSUME NEW c \in Connections, Studio!Pick(c) PROVE StudioInv'
  <2>1. /\ onScreen' = c /\ declared' = NULL /\ strayed' = strayed
    BY <1>1 DEF Studio!Pick, Studio!Declare
  <2>2. /\ ObjectsRead' /\ \A r \in reading' : r.at = generation' => r.of = c
        /\ ~listLoading' => list' = NULL
    BY <1>1, FetchOwn DEF Studio!Pick
  <2>3. Studio!OwnDeclaration'
    BY <2>1 DEF Studio!OwnDeclaration
  <2>4. QED
    BY <2>1, <2>2, <2>3 DEF OfScreen, Studio!OwnObjects
<1>2. ASSUME NEW r \in reading, Studio!Answered(r) PROVE StudioInv'
  <2>1. /\ reading' = reading \ {r} /\ UNCHANGED <<onScreen, generation, declared, strayed>>
    BY <1>2 DEF Studio!Answered
  <2>2. CASE r.at = generation
    <3>1. list' \in {r.of, NULL} /\ listLoading' = FALSE
      BY <1>2, <2>2 DEF Studio!Answered, Studio!Current
    <3>2. \A q \in reading' : q.at # generation
      BY <2>1, <2>2 DEF ObjectsRead
    <3>3. QED
      BY <2>1, <2>2, <3>1, <3>2 DEF ObjectsRead, OfScreen, Studio!SpinsForCurrent, Studio!OwnObjects, Studio!OwnDeclaration
  <2>3. CASE r.at # generation
    <3>1. list' = list /\ listLoading' = listLoading
      BY <1>2, <2>3 DEF Studio!Answered, Studio!Current
    <3>2. QED
      BY <2>1, <2>3, <3>1 DEF ObjectsRead, OfScreen, Studio!SpinsForCurrent, Studio!OwnObjects, Studio!OwnDeclaration
  <2>4. QED
    BY <2>2, <2>3
<1>3. ASSUME NEW t \in trying, Studio!Declared(t) PROVE StudioInv'
  <2>1. UNCHANGED <<onScreen, strayed>>
    BY <1>3 DEF Studio!Declared
  <2>2. CASE declared' \in {onScreen, NULL} /\ Studio!Fetch(onScreen, asked, 1)
    <3>1. /\ ObjectsRead' /\ \A r \in reading' : r.at = generation' => r.of = onScreen
          /\ ~listLoading' => list' = NULL
      BY <2>2, FetchOwn
    <3>2. Studio!OwnDeclaration'
      BY <2>1, <2>2 DEF Studio!OwnDeclaration
    <3>3. QED
      BY <2>1, <3>1, <3>2 DEF OfScreen, Studio!OwnObjects
  <2>3. CASE UNCHANGED <<declared, generation, reading, list, listLoading>>
    BY <2>1, <2>3 DEF ObjectsRead, OfScreen, Studio!SpinsForCurrent, Studio!OwnObjects, Studio!OwnDeclaration
  <2>4. QED
    BY <1>3, <2>2, <2>3 DEF Studio!Declared, Studio!LastAttempt
<1>4. CASE Studio!Retry
  <2>1. /\ declared' = NULL /\ UNCHANGED <<onScreen, generation, reading, list, listLoading, strayed>>
    BY <1>4 DEF Studio!Retry, Studio!Declare
  <2>2. QED
    BY <2>1 DEF ObjectsRead, OfScreen, Studio!SpinsForCurrent, Studio!OwnObjects, Studio!OwnDeclaration
<1>5. CASE Studio!LoadObjects
  <2>1. Studio!Fetch(onScreen, onScreen, 1) /\ UNCHANGED <<onScreen, declared, strayed>>
    BY <1>5 DEF Studio!LoadObjects, Studio!Fetch
  <2>2. /\ ObjectsRead' /\ \A r \in reading' : r.at = generation' => r.of = onScreen
        /\ ~listLoading' => list' = NULL
    BY <2>1, FetchOwn
  <2>3. QED
    BY <2>1, <2>2 DEF OfScreen, Studio!OwnObjects, Studio!OwnDeclaration
<1>6. CASE Studio!Run
  BY <1>6 DEF Studio!Run, ObjectsRead, OfScreen, Studio!SpinsForCurrent, Studio!OwnObjects, Studio!OwnDeclaration
<1>7. CASE Studio!RunAnswered
  <2>1. /\ Studio!Fetch(statement.of, statement.asked, 1) /\ UNCHANGED <<onScreen, declared>>
        /\ strayed' <=> (strayed \/ statement.of # onScreen)
    BY <1>7 DEF Studio!RunAnswered
  <2>2. /\ ObjectsRead' /\ \A r \in reading' : r.at = generation' => r.of = statement.of
        /\ ~listLoading' => list' = NULL
    BY <2>1, FetchOwn
  <2>3. strayed' \in BOOLEAN
    BY <1>7 DEF Studio!RunAnswered
  <2>4. QED
    BY <2>1, <2>2, <2>3 DEF OfScreen, Studio!OwnObjects, Studio!OwnDeclaration
<1>8. QED
  BY <1>1, <1>2, <1>3, <1>4, <1>5, <1>6, <1>7 DEF Studio!Next

(* What the studio shows is of the connection on screen, whatever order the answers come in. *)
THEOREM ShownIsOwnHolds == PartsSpec => []ShownIsOwn
<1>1. PartsInit => StudioInv
  <2>1. ASSUME Studio!Init PROVE StudioInv
    <3>1. listLoading \in BOOLEAN /\ strayed \in BOOLEAN /\ ~listLoading
      BY <2>1 DEF Studio!Init
    <3>2. /\ onScreen = NULL /\ declared = NULL /\ generation = 0 /\ reading = {} /\ list = NULL
      BY <2>1 DEF Studio!Init
    <3>3. QED
      BY <3>1, <3>2 DEF StudioInv, ObjectsRead, OfScreen, Studio!SpinsForCurrent, Studio!OwnObjects, Studio!OwnDeclaration
  <2>2. QED
    BY <2>1, EachPartBegins
<1>2. StudioInv /\ [PartsNext]_vars => StudioInv'
  <2>1. ASSUME StudioInv, UNCHANGED studioVars PROVE StudioInv'
    BY <2>1 DEF studioVars, StudioInv, ObjectsRead, OfScreen, Studio!SpinsForCurrent, Studio!OwnObjects, Studio!OwnDeclaration
  <2>2. QED
    BY <2>1, EachPartSteps, StudioStep
<1>3. StudioInv => ShownIsOwn
  BY DEF StudioInv, ObjectsRead, ShownIsOwn, Studio!OwnObjectsButStrayed
<1>4. QED
  BY <1>1, <1>2, <1>3, PTL DEF PartsSpec

-----------------------------------------------------------------------------
(* TabRuns: the last run of a tab, of those that supersede one another, is the greatest of them; a *)
(* run in flight on the tab's entry is that one, and a spinner stands for it or for a handover.    *)

TabRun == [tab: Tabs \cup {NULL}, kind: Editor!Kinds, stage: {"unstarted", "flying", "aborted", "ended"}, asks: BOOLEAN]
RunsShaped(rs) ==
  /\ rs \in [Editor!Runs -> TabRun]
  /\ \A r \in Editor!Runs : rs[r].stage = "unstarted" <=> rs[r].tab = NULL
  /\ \A r \in Editor!Runs : rs[r].kind = "handed" => rs[r].stage # "aborted"
  /\ \A r, s \in Editor!Runs : s < r /\ rs[r].stage # "unstarted" => rs[s].stage # "unstarted"
TabsTyped ==
  /\ tabInFlight \in [Tabs -> Editor!Runs \cup {NULL}] /\ last \in [Tabs -> Editor!Runs \cup {NULL}]
  /\ executing \in [Tabs -> BOOLEAN] /\ loading \in [Tabs -> BOOLEAN] /\ disturbed \in [Tabs -> BOOLEAN]
  /\ plan \in [Tabs -> Editor!Runs \cup {NULL}]

FliesIn(rs, r) == rs[r].stage \in {"flying", "aborted"}
LastFlies(rs, t) == last[t] # NULL /\ FliesIn(rs, last[t])
OfTab(rs, r, t) == rs[r].tab = t /\ rs[r].kind # "handed"

(* rs: the runs; the rest of what a tab holds is its own. *)
GreatestIn(rs, t) ==
  /\ last[t] = NULL => \A s \in Editor!Runs : ~OfTab(rs, s, t)
  /\ last[t] # NULL => OfTab(rs, last[t], t) /\ \A s \in Editor!Runs : OfTab(rs, s, t) => s <= last[t]
HeldIn(rs, t) ==
  /\ tabInFlight[t] = IF LastFlies(rs, t) THEN last[t] ELSE NULL
  /\ LastFlies(rs, t) => disturbed[t] \/ (IF rs[last[t]].kind = "more" THEN loading[t] ELSE executing[t])
SpinsIn(rs, t) ==
  /\ loading[t] => LastFlies(rs, t)
  /\ executing[t] => LastFlies(rs, t) \/ \E s \in Editor!Runs : rs[s].tab = t /\ rs[s].kind = "handed" /\ FliesIn(rs, s)

TabHolds(rs, t) == GreatestIn(rs, t) /\ HeldIn(rs, t) /\ SpinsIn(rs, t)
TabsInv == RunsShaped(tabRun) /\ TabsTyped /\ \A t \in Tabs : TabHolds(tabRun, t)

(* Runs that differ in whether they are aborted and ask for a plan are the same to a tab. *)
AlikeRuns(rs, qs) ==
  \A s \in Editor!Runs : /\ rs[s].tab = qs[s].tab /\ rs[s].kind = qs[s].kind
                         /\ FliesIn(rs, s) <=> FliesIn(qs, s)
                         /\ rs[s].stage = "unstarted" <=> qs[s].stage = "unstarted"

SameBut(rs, qs, r) ==
  \A s \in Editor!Runs \ {r} :
    /\ qs[s].tab = rs[s].tab /\ qs[s].kind = rs[s].kind
    /\ FliesIn(qs, s) <=> FliesIn(rs, s)
SameOf(rs, qs, u) ==
  \A s \in Editor!Runs : rs[s].tab = u \/ qs[s].tab = u =>
    /\ qs[s].tab = rs[s].tab /\ qs[s].kind = rs[s].kind
    /\ FliesIn(qs, s) <=> FliesIn(rs, s)

LEMMA AlikeHolds ==
  ASSUME NEW rs, NEW qs, AlikeRuns(rs, qs), NEW t \in Tabs, TabHolds(rs, t), last[t] \in Editor!Runs \cup {NULL}
  PROVE  TabHolds(qs, t)
<1>1. LastFlies(rs, t) <=> LastFlies(qs, t)
  BY DEF AlikeRuns, LastFlies
<1>2. GreatestIn(qs, t)
  BY DEF TabHolds, AlikeRuns, GreatestIn, OfTab
<1>3. HeldIn(qs, t)
  BY <1>1 DEF TabHolds, AlikeRuns, HeldIn, LastFlies
<1>4. SpinsIn(qs, t)
  BY <1>1 DEF TabHolds, AlikeRuns, SpinsIn
<1>5. QED
  BY <1>2, <1>3, <1>4 DEF TabHolds

(* Aborting what is on the tab's entry changes nothing else. *)
LEMMA AbortedAlike ==
  ASSUME TabsApart, TabsInv, NEW t \in Tabs
  PROVE  RunsShaped(Editor!AbortedOn(t)) /\ AlikeRuns(tabRun, Editor!AbortedOn(t))
<1>1. CASE tabInFlight[t] = NULL
  BY <1>1 DEF TabsInv, Editor!AbortedOn, AlikeRuns
<1>2. CASE tabInFlight[t] # NULL
  <2> DEFINE m == tabInFlight[t]
  <2>1. m \in Editor!Runs /\ FliesIn(tabRun, m)
    BY <1>2 DEF TabsInv, TabsTyped, TabHolds, HeldIn, LastFlies
  <2>2. Editor!AbortedOn(t) = [tabRun EXCEPT ![m].stage = "aborted", ![m].asks = FALSE]
    BY <1>2 DEF Editor!AbortedOn, Editor!Aborted
  <2> HIDE DEF m
  <2>3. tabRun \in [Editor!Runs -> TabRun] /\ tabRun[m].stage # "unstarted"
    BY <2>1 DEF TabsInv, RunsShaped, FliesIn
  <2>4. \A s \in Editor!Runs : s # m => Editor!AbortedOn(t)[s] = tabRun[s]
    BY <2>2, <2>3 DEF TabRun
  <2>5. LET q == Editor!AbortedOn(t)[m]
        IN  q \in TabRun /\ q.tab = tabRun[m].tab /\ q.kind = tabRun[m].kind /\ q.stage = "aborted"
    <3>1. Editor!AbortedOn(t)[m] = [tabRun[m] EXCEPT !.stage = "aborted", !.asks = FALSE] /\ tabRun[m] \in TabRun
      BY <2>1, <2>2, <2>3
    <3>2. QED
      BY <3>1 DEF TabRun
  <2>6. Editor!AbortedOn(t) \in [Editor!Runs -> TabRun]
    BY <2>1, <2>2, <2>3 DEF TabRun
  <2>7. AlikeRuns(tabRun, Editor!AbortedOn(t))
    BY <2>1, <2>4, <2>5 DEF AlikeRuns, FliesIn
  <2>8. tabRun[m].kind # "handed"
    BY <1>2 DEF TabsInv, TabsTyped, TabHolds, HeldIn, LastFlies, GreatestIn, OfTab, m
  <2>9. \A s \in Editor!Runs : Editor!AbortedOn(t)[s].kind = "handed" => Editor!AbortedOn(t)[s].stage # "aborted"
    BY <2>3, <2>4, <2>5, <2>8 DEF TabsInv, RunsShaped
  <2>10. QED
    BY <2>6, <2>7, <2>9 DEF TabsInv, RunsShaped, AlikeRuns
<1>3. QED
  BY <1>1, <1>2

(* A tab whose entries stay, and whose runs do, holds what it held. *)
LEMMA OtherTabHolds ==
  ASSUME TabsInv, NEW u \in Tabs,
         last'[u] = last[u], tabInFlight'[u] = tabInFlight[u],
         executing'[u] = executing[u], loading'[u] = loading[u], disturbed[u] => disturbed'[u],
         SameOf(tabRun, tabRun', u)
  PROVE  TabHolds(tabRun, u)'
<1> USE DEF SameOf
<1>0. TabHolds(tabRun, u) /\ last[u] \in Editor!Runs \cup {NULL}
  BY DEF TabsInv, TabsTyped
<1>1. last[u] # NULL => tabRun[last[u]].tab = u
  BY <1>0 DEF TabHolds, GreatestIn, OfTab
<1>2. LastFlies(tabRun, u)' <=> LastFlies(tabRun, u)
  BY <1>0, <1>1 DEF LastFlies, FliesIn
<1>3. GreatestIn(tabRun, u)'
  BY <1>0, <1>1 DEF TabHolds, GreatestIn, OfTab
<1>4. HeldIn(tabRun, u)'
  BY <1>0, <1>1, <1>2 DEF TabHolds, HeldIn, LastFlies
<1>5. SpinsIn(tabRun, u)'
  BY <1>0, <1>2 DEF TabHolds, SpinsIn, FliesIn
<1>6. QED
  BY <1>3, <1>4, <1>5 DEF TabHolds

(* A run is put in the place of the first that was not started. *)
LEMMA NextRunFree ==
  ASSUME TabsApart, TabsInv, NEW r \in Editor!Runs, Editor!NextRun(r)
  PROVE  /\ \A s \in Editor!Runs : tabRun[s].stage # "unstarted" <=> s < r
         /\ tabRun[r].tab = NULL /\ \A s \in Editor!Runs : tabRun[s].tab # NULL => s < r
<1>1. tabRun[r].stage = "unstarted" /\ \A s \in 1..(r - 1) : tabRun[s].stage # "unstarted"
  BY DEF Editor!NextRun, Editor!Started
<1>2. Editor!Runs \subseteq Nat /\ \A s \in Editor!Runs : s < r => s \in 1..(r - 1)
  BY DEF Editor!Runs, TabsApart
<1>3. \A s \in Editor!Runs : s > r => tabRun[s].stage = "unstarted"
  BY <1>1 DEF TabsInv, RunsShaped
<1>4. QED
  BY <1>1, <1>2, <1>3 DEF TabsInv, RunsShaped

LEMMA NewRunShaped ==
  ASSUME TabsApart, TabsInv, NEW rs, RunsShaped(rs), AlikeRuns(tabRun, rs), NEW r \in Editor!Runs, Editor!NextRun(r),
         NEW new \in TabRun, new.stage = "flying", new.tab \in Tabs,
         NEW qs \in [Editor!Runs -> TabRun], qs[r] = new, \A s \in Editor!Runs : s # r => qs[s] = rs[s]
  PROVE  RunsShaped(qs) /\ SameBut(tabRun, qs, r)
<1>1. Editor!Runs \subseteq Nat /\ \A s \in Editor!Runs : rs[s].stage # "unstarted" <=> s < r
  BY NextRunFree DEF AlikeRuns, Editor!Runs, TabsApart
<1>2. \A s \in Editor!Runs : qs[s].stage = "unstarted" <=> qs[s].tab = NULL
  BY DEF RunsShaped, TabsApart
<1>3. \A s \in Editor!Runs : qs[s].stage # "unstarted" <=> s <= r
  BY <1>1
<1>4. \A s, q \in Editor!Runs : q < s /\ qs[s].stage # "unstarted" => qs[q].stage # "unstarted"
  BY <1>1, <1>3
<1>5. SameBut(tabRun, qs, r)
  BY DEF AlikeRuns, FliesIn, SameBut
<1>6. QED
  BY <1>2, <1>4, <1>5 DEF RunsShaped

(* A run that ends leaves the others what they were. *)
LEMMA EndedShaped ==
  ASSUME TabsInv, NEW r \in Editor!Runs, FliesIn(tabRun, r), NEW qs \in [Editor!Runs -> TabRun],
         qs[r].tab = tabRun[r].tab, qs[r].kind = tabRun[r].kind, qs[r].stage = "ended",
         \A s \in Editor!Runs : s # r => qs[s] = tabRun[s]
  PROVE  RunsShaped(qs) /\ SameBut(tabRun, qs, r) /\ tabRun[r].tab \in Tabs
<1>1. SameBut(tabRun, qs, r)
  BY DEF SameBut, FliesIn
<1>2. tabRun[r].tab \in Tabs
  BY DEF TabsInv, RunsShaped, FliesIn, TabRun
<1>3. RunsShaped(qs)
  BY DEF TabsInv, RunsShaped, FliesIn
<1>4. QED
  BY <1>1, <1>2, <1>3

(* The end of a run seen on its tab: of one superseded, of the last, and of a handover. *)
Ending(r, t) ==
  /\ r \in Editor!Runs /\ FliesIn(tabRun, r) /\ tabRun[r].tab = t /\ t \in Tabs
  /\ SameBut(tabRun, tabRun', r) /\ tabRun'[r].tab = t /\ tabRun'[r].kind = tabRun[r].kind /\ tabRun'[r].stage = "ended"
  /\ last' = last

LEMMA SupersededEnds ==
  ASSUME TabsApart, TabsInv, NEW r, NEW t, Ending(r, t), tabRun[r].kind # "handed", last[t] # r,
         tabInFlight'[t] = tabInFlight[t], executing'[t] = executing[t], loading'[t] = loading[t], disturbed'[t] = disturbed[t]
  PROVE  TabHolds(tabRun, t)'
<1> USE DEF Ending
<1>1. TabHolds(tabRun, t) /\ last[t] \in Editor!Runs \cup {NULL}
  BY DEF TabsInv, TabsTyped
<1>2. LastFlies(tabRun, t)' <=> LastFlies(tabRun, t)
  BY <1>1 DEF LastFlies, SameBut
<1>3. GreatestIn(tabRun, t)'
  BY <1>1 DEF TabHolds, GreatestIn, OfTab, SameBut
<1>4. HeldIn(tabRun, t)'
  BY <1>1, <1>2 DEF TabHolds, HeldIn, LastFlies, SameBut
<1>5. SpinsIn(tabRun, t)'
  BY <1>1, <1>2 DEF TabHolds, SpinsIn, SameBut
<1>6. QED
  BY <1>3, <1>4, <1>5 DEF TabHolds

LEMMA LastEnds ==
  ASSUME TabsApart, TabsInv, NEW r, NEW t, Ending(r, t), last[t] = r,
         tabInFlight'[t] = NULL, ~executing'[t], ~loading'[t]
  PROVE  TabHolds(tabRun, t)'
<1> USE DEF Ending
<1>1. TabHolds(tabRun, t) /\ r # NULL
  BY DEF TabsInv, TabsTyped, TabsApart
<1>2. ~LastFlies(tabRun, t)'
  BY DEF LastFlies, FliesIn
<1>3. GreatestIn(tabRun, t)'
  BY <1>1 DEF TabHolds, GreatestIn, OfTab, SameBut
<1>4. QED
  BY <1>2, <1>3 DEF TabHolds, HeldIn, SpinsIn

LEMMA HandedEnds ==
  ASSUME TabsApart, TabsInv, NEW r, NEW t, Ending(r, t), tabRun[r].kind = "handed",
         tabInFlight'[t] = tabInFlight[t], ~executing'[t], loading'[t] = loading[t], disturbed[t] => disturbed'[t],
         \A s \in Editor!Runs : s # r /\ tabRun[s].tab = t /\ FliesIn(tabRun, s) => disturbed'[t]
  PROVE  TabHolds(tabRun, t)'
<1> USE DEF Ending
<1>1. TabHolds(tabRun, t) /\ last[t] \in Editor!Runs \cup {NULL}
  BY DEF TabsInv, TabsTyped
<1>2. last[t] # r /\ (last[t] # NULL => tabRun[last[t]].tab = t)
  BY <1>1 DEF TabHolds, GreatestIn, OfTab, TabsApart
<1>3. LastFlies(tabRun, t)' <=> LastFlies(tabRun, t)
  BY <1>1, <1>2 DEF LastFlies, SameBut
<1>4. GreatestIn(tabRun, t)'
  BY <1>1, <1>2 DEF TabHolds, GreatestIn, OfTab, SameBut
<1>5. LastFlies(tabRun, t) => disturbed'[t]
  BY <1>1, <1>2 DEF LastFlies
<1>6. HeldIn(tabRun, t)'
  BY <1>1, <1>3, <1>5 DEF TabHolds, HeldIn, LastFlies
<1>7. SpinsIn(tabRun, t)'
  BY <1>1, <1>3 DEF TabHolds, SpinsIn
<1>8. QED
  BY <1>4, <1>6, <1>7 DEF TabHolds

LEMMA EndingOthers ==
  ASSUME TabsInv, NEW r, NEW t, Ending(r, t), NEW u \in Tabs, u # t,
         tabInFlight'[u] = tabInFlight[u], executing'[u] = executing[u], loading'[u] = loading[u], disturbed'[u] = disturbed[u]
  PROVE  TabHolds(tabRun, u)'
<1>1. SameOf(tabRun, tabRun', u) /\ last'[u] = last[u]
  BY DEF SameOf, SameBut, Ending
<1>2. QED
  BY <1>1, OtherTabHolds

LEMMA StartKeeps ==
  ASSUME TabsApart, TabsInv, NEW r \in Editor!Runs, NEW t \in Tabs, NEW kind \in Editor!Kinds \ {"handed"}, Editor!Start(r, t, kind)
  PROVE  TabsInv'
<1>1. PICK new \in TabRun : /\ new.stage = "flying" /\ new.tab = t /\ new.kind = kind
                            /\ tabRun' = [Editor!AbortedOn(t) EXCEPT ![r] = new]
  <2>1. PICK asks \in BOOLEAN : tabRun' = [Editor!AbortedOn(t) EXCEPT ![r] = [tab |-> t, kind |-> kind, stage |-> "flying", asks |-> asks]]
    BY DEF Editor!Start
  <2>2. [tab |-> t, kind |-> kind, stage |-> "flying", asks |-> asks] \in TabRun
    BY DEF TabRun
  <2>3. QED
    BY <2>1, <2>2
<1>3. Editor!NextRun(r) /\ UNCHANGED <<plan, disturbed>>
      /\ tabInFlight' = [tabInFlight EXCEPT ![t] = r] /\ last' = [last EXCEPT ![t] = r]
  BY DEF Editor!Start, Editor!Taken
<1>4. executing' = [executing EXCEPT ![t] = kind # "more"] /\ loading' = [loading EXCEPT ![t] = kind = "more"]
  BY DEF Editor!Start
<1>5. /\ RunsShaped(tabRun') /\ tabRun'[r] = new /\ tabRun[r].tab = NULL
      /\ \A s \in Editor!Runs : tabRun[s].tab # NULL => s < r
      /\ SameBut(tabRun, tabRun', r)
  <2>1. RunsShaped(Editor!AbortedOn(t)) /\ AlikeRuns(tabRun, Editor!AbortedOn(t)) /\ new.tab \in Tabs
    BY <1>1, AbortedAlike
  <2>2. tabRun' \in [Editor!Runs -> TabRun] /\ tabRun'[r] = new /\ \A s \in Editor!Runs : s # r => tabRun'[s] = Editor!AbortedOn(t)[s]
    BY <1>1, <2>1 DEF RunsShaped
  <2>3. RunsShaped(tabRun')
    BY <1>1, <1>3, <2>1, <2>2, NewRunShaped
  <2>4. SameBut(tabRun, tabRun', r)
    BY <1>1, <1>3, <2>1, <2>2, NewRunShaped
  <2>5. tabRun[r].tab = NULL /\ \A s \in Editor!Runs : tabRun[s].tab # NULL => s < r
    BY <1>3, NextRunFree
  <2>6. QED
    BY <2>2, <2>3, <2>4, <2>5
<1>6. TabsTyped'
  BY <1>3, <1>4 DEF TabsInv, TabsTyped
<1>7. ASSUME NEW u \in Tabs, u # t PROVE TabHolds(tabRun, u)'
  <2>1. last'[u] = last[u] /\ tabInFlight'[u] = tabInFlight[u] /\ disturbed'[u] = disturbed[u]
    BY <1>3, <1>7 DEF TabsInv, TabsTyped
  <2>2. executing'[u] = executing[u] /\ loading'[u] = loading[u]
    BY <1>4, <1>7 DEF TabsInv, TabsTyped
  <2>3. SameOf(tabRun, tabRun', u)
    BY <1>1, <1>5, <1>7 DEF TabsApart, SameOf, SameBut
  <2>4. QED
    BY <1>5, <2>1, <2>2, <2>3, OtherTabHolds
<1>8. TabHolds(tabRun, t)'
  <2>0. t # NULL
    BY DEF TabsApart
  <2>1. last'[t] = r /\ tabInFlight'[t] = r /\ r # NULL
    BY <1>3 DEF TabsInv, TabsTyped, TabsApart
  <2>2. executing'[t] <=> kind # "more"
    BY <1>4 DEF TabsInv, TabsTyped
  <2>3. loading'[t] <=> kind = "more"
    BY <1>4 DEF TabsInv, TabsTyped
  <2>4. FliesIn(tabRun', r) /\ OfTab(tabRun', r, t) /\ tabRun'[r].kind = kind
    BY <1>1, <1>5 DEF FliesIn, OfTab
  <2>5. \A s \in Editor!Runs : OfTab(tabRun', s, t) => s <= r
    <3>1. \A s \in Editor!Runs : s # r /\ tabRun'[s].tab = t => s < r
      BY <1>5, <2>0 DEF SameBut
    <3>2. Editor!Runs \subseteq Nat
      BY DEF Editor!Runs, TabsApart
    <3>3. QED
      BY <3>1, <3>2 DEF OfTab
  <2>6. QED
    BY <2>1, <2>2, <2>3, <2>4, <2>5 DEF TabHolds, GreatestIn, HeldIn, SpinsIn, LastFlies
<1>9. QED
  BY <1>5, <1>6, <1>7, <1>8 DEF TabsInv

LEMMA HandOverKeeps ==
  ASSUME TabsApart, TabsInv, NEW r \in Editor!Runs, NEW t \in Tabs, Editor!HandOver(r, t)
  PROVE  TabsInv'
<1>1. PICK new \in TabRun : /\ new.stage = "flying" /\ new.tab = t /\ new.kind = "handed"
                            /\ tabRun' = [tabRun EXCEPT ![r] = new]
  <2>1. [tab |-> t, kind |-> "handed", stage |-> "flying", asks |-> FALSE] \in TabRun
    BY DEF TabRun, Editor!Kinds
  <2>2. QED
    BY <2>1 DEF Editor!HandOver
<1>2. /\ Editor!NextRun(r) /\ executing' = [executing EXCEPT ![t] = TRUE]
      /\ UNCHANGED <<tabInFlight, last, loading, plan, disturbed>>
  BY DEF Editor!HandOver
<1>3. RunsShaped(tabRun) /\ AlikeRuns(tabRun, tabRun)
  BY DEF TabsInv, AlikeRuns
<1>4. /\ RunsShaped(tabRun') /\ tabRun'[r] = new /\ tabRun[r].tab = NULL
      /\ SameBut(tabRun, tabRun', r)
  <2>1. new.tab \in Tabs
    BY <1>1
  <2>2. tabRun' \in [Editor!Runs -> TabRun] /\ tabRun'[r] = new /\ \A s \in Editor!Runs : s # r => tabRun'[s] = tabRun[s]
    BY <1>1, <1>3 DEF RunsShaped
  <2>3. RunsShaped(tabRun')
    BY <1>1, <1>2, <1>3, <2>1, <2>2, NewRunShaped
  <2>4. SameBut(tabRun, tabRun', r)
    BY <1>1, <1>2, <1>3, <2>1, <2>2, NewRunShaped
  <2>5. tabRun[r].tab = NULL /\ \A s \in Editor!Runs : tabRun[s].tab # NULL => s < r
    BY <1>2, <1>3, NextRunFree
  <2>6. QED
    BY <2>2, <2>3, <2>4, <2>5
<1>5. TabsTyped'
  BY <1>2 DEF TabsInv, TabsTyped
<1>6. ASSUME NEW u \in Tabs, u # t PROVE TabHolds(tabRun, u)'
  <2>1. SameOf(tabRun, tabRun', u)
    BY <1>1, <1>4, <1>6 DEF TabsApart, SameOf, SameBut
  <2>2. executing'[u] = executing[u]
    BY <1>2, <1>6 DEF TabsInv, TabsTyped
  <2>3. last'[u] = last[u] /\ tabInFlight'[u] = tabInFlight[u] /\ loading'[u] = loading[u] /\ disturbed'[u] = disturbed[u]
    BY <1>2
  <2>4. QED
    BY <1>4, <2>1, <2>2, <2>3, OtherTabHolds
<1>7. TabHolds(tabRun, t)'
  <2>1. TabHolds(tabRun, t) /\ last[t] \in Editor!Runs \cup {NULL} /\ executing'[t]
    BY <1>2 DEF TabsInv, TabsTyped
  <2>2. last[t] # NULL => OfTab(tabRun, last[t], t) /\ last[t] # r
    BY <1>4, <2>1 DEF TabHolds, GreatestIn, OfTab, TabsApart, SameBut
  <2>3. GreatestIn(tabRun, t)'
    BY <1>1, <1>2, <1>4, <2>1, <2>2 DEF TabHolds, GreatestIn, OfTab, SameBut
  <2>4. LastFlies(tabRun, t)' <=> LastFlies(tabRun, t)
    BY <1>2, <1>4, <2>1, <2>2 DEF LastFlies, SameBut
  <2>5. HeldIn(tabRun, t)'
    BY <1>2, <1>4, <2>1, <2>2, <2>4 DEF TabHolds, HeldIn, LastFlies, SameBut
  <2>6. FliesIn(tabRun', r) /\ tabRun'[r].tab = t /\ tabRun'[r].kind = "handed"
    BY <1>1, <1>4 DEF FliesIn
  <2>7. SpinsIn(tabRun, t)'
    BY <1>2, <2>1, <2>4, <2>6 DEF TabHolds, SpinsIn
  <2>8. QED
    BY <2>3, <2>5, <2>7 DEF TabHolds
<1>8. QED
  BY <1>4, <1>5, <1>6, <1>7 DEF TabsInv

(* What a run that answers, or is seen aborted, does to its tab's entries. *)
Leaves(r) ==
  LET t == tabRun[r].tab IN
  IF last[t] # r THEN UNCHANGED <<plan, executing, loading, tabInFlight>>
  ELSE /\ tabInFlight' = [tabInFlight EXCEPT ![t] = NULL] /\ executing' = [executing EXCEPT ![t] = FALSE]
       /\ loading' = [loading EXCEPT ![t] = FALSE] /\ plan' \in {plan, [plan EXCEPT ![t] = plan[t]], [plan EXCEPT ![t] = r]}

LEMMA LeavesKeeps ==
  ASSUME TabsApart, TabsInv, NEW r \in Editor!Runs, FliesIn(tabRun, r), tabRun[r].kind # "handed",
         Leaves(r), UNCHANGED <<last, disturbed>>,
         tabRun' \in [Editor!Runs -> TabRun], \A s \in Editor!Runs : s # r => tabRun'[s] = tabRun[s],
         tabRun'[r].tab = tabRun[r].tab, tabRun'[r].kind = tabRun[r].kind, tabRun'[r].stage = "ended"
  PROVE  TabsInv'
<1> DEFINE t == tabRun[r].tab
<1>1. RunsShaped(tabRun') /\ SameBut(tabRun, tabRun', r) /\ t \in Tabs
  BY EndedShaped
<1>2. Ending(r, t)
  BY <1>1 DEF Ending
<1>3. CASE last[t] # r
  <2>1. UNCHANGED <<plan, executing, loading, tabInFlight, last, disturbed>>
    BY <1>3 DEF Leaves
  <2>2. TabsTyped'
    BY <2>1 DEF TabsInv, TabsTyped
  <2>3. TabHolds(tabRun, t)'
    BY <1>2, <1>3, <2>1, SupersededEnds
  <2>4. ASSUME NEW u \in Tabs, u # t PROVE TabHolds(tabRun, u)'
    BY <1>2, <2>1, <2>4, EndingOthers
  <2>5. QED
    BY <1>1, <2>2, <2>3, <2>4 DEF TabsInv
<1>4. CASE last[t] = r
  <2>1. /\ tabInFlight' = [tabInFlight EXCEPT ![t] = NULL] /\ executing' = [executing EXCEPT ![t] = FALSE]
        /\ loading' = [loading EXCEPT ![t] = FALSE] /\ plan' \in {plan, [plan EXCEPT ![t] = plan[t]], [plan EXCEPT ![t] = r]}
    BY <1>4 DEF Leaves
  <2>2. TabsTyped'
    BY <1>1, <2>1 DEF TabsInv, TabsTyped
  <2>3. tabInFlight'[t] = NULL /\ executing'[t] = FALSE /\ loading'[t] = FALSE
    BY <1>1, <2>1 DEF TabsInv, TabsTyped
  <2>4. TabHolds(tabRun, t)'
    BY <1>2, <1>4, <2>3, LastEnds
  <2>5. ASSUME NEW u \in Tabs, u # t PROVE TabHolds(tabRun, u)'
    <3>1. tabInFlight'[u] = tabInFlight[u] /\ executing'[u] = executing[u] /\ loading'[u] = loading[u] /\ disturbed'[u] = disturbed[u]
      BY <1>1, <2>1, <2>5 DEF TabsInv, TabsTyped
    <3>2. QED
      BY <1>2, <2>5, <3>1, EndingOthers
  <2>6. QED
    BY <1>1, <2>2, <2>4, <2>5 DEF TabsInv
<1>5. QED
  BY <1>3, <1>4

LEMMA AnsweredKeeps == ASSUME TabsApart, TabsInv, NEW r \in Editor!Runs, Editor!Answered(r) PROVE TabsInv' /\ Leaves(r)
<1>1. PICK ok \in BOOLEAN, got \in {result[tabRun[r].tab], <<>>} :
        /\ tabRun' = [tabRun EXCEPT ![r].stage = "ended", ![r].asks = @ /\ ok]
        /\ IF Editor!Superseded(r) THEN UNCHANGED <<result, plan, executing, loading>>
           ELSE IF ok
                THEN Editor!Land(r, tabRun[r].tab, Editor!Rows(r, tabRun[r].tab),
                                 IF tabRun[r].kind = "explain" THEN r ELSE plan[tabRun[r].tab])
                ELSE Editor!Land(r, tabRun[r].tab, got, plan[tabRun[r].tab])
  BY DEF Editor!Answered
<1>2. tabRun[r].stage = "flying" /\ tabRun[r].kind # "handed" /\ Editor!Settled(r) /\ UNCHANGED <<last, disturbed>>
  BY DEF Editor!Answered
<1>3. Leaves(r)
  BY <1>1, <1>2 DEF Leaves, Editor!Superseded, Editor!Settled, Editor!Land
<1>4. tabRun \in [Editor!Runs -> TabRun]
  BY DEF TabsInv, RunsShaped
<1>5. tabRun'[r] = [tabRun[r] EXCEPT !.stage = "ended", !.asks = @ /\ ok] /\ \A s \in Editor!Runs : s # r => tabRun'[s] = tabRun[s]
  BY <1>1, <1>4
<1>6. tabRun'[r] \in TabRun /\ tabRun'[r].tab = tabRun[r].tab /\ tabRun'[r].kind = tabRun[r].kind /\ tabRun'[r].stage = "ended"
  <2>1. tabRun[r] \in TabRun
    BY <1>4
  <2>2. tabRun[r].asks \in BOOLEAN
    BY <2>1 DEF TabRun
  <2>3. (tabRun[r].asks /\ ok) \in BOOLEAN
    OBVIOUS
  <2>4. PICK asks \in BOOLEAN : tabRun'[r] = [tabRun[r] EXCEPT !.stage = "ended", !.asks = asks]
    BY <1>5, <2>3, Zenon
  <2>5. QED
    BY <2>1, <2>4 DEF TabRun
<1>7. tabRun' \in [Editor!Runs -> TabRun]
  BY <1>1, <1>4, <1>6
<1>8. QED
  BY <1>2, <1>3, <1>5, <1>6, <1>7, LeavesKeeps DEF FliesIn

LEMMA AbortSeenKeeps == ASSUME TabsApart, TabsInv, NEW r \in Editor!Runs, Editor!AbortSeen(r) PROVE TabsInv' /\ plan' = plan
<1>1. /\ tabRun[r].stage = "aborted" /\ Editor!Settled(r) /\ UNCHANGED <<last, disturbed>>
      /\ tabRun' = [tabRun EXCEPT ![r].stage = "ended"]
      /\ IF Editor!Superseded(r) THEN UNCHANGED <<result, plan, executing, loading>>
         ELSE Editor!Land(r, tabRun[r].tab, result[tabRun[r].tab], plan[tabRun[r].tab])
  BY DEF Editor!AbortSeen
<1>2. tabRun \in [Editor!Runs -> TabRun] /\ tabRun[r].kind # "handed"
  BY <1>1 DEF TabsInv, RunsShaped
<1>3. Leaves(r)
  BY <1>1 DEF Leaves, Editor!Superseded, Editor!Settled, Editor!Land
<1>4. tabRun'[r] = [tabRun[r] EXCEPT !.stage = "ended"] /\ \A s \in Editor!Runs : s # r => tabRun'[s] = tabRun[s]
  BY <1>1, <1>2
<1>5. tabRun'[r] \in TabRun /\ tabRun'[r].tab = tabRun[r].tab /\ tabRun'[r].kind = tabRun[r].kind /\ tabRun'[r].stage = "ended"
  BY <1>2, <1>4 DEF TabRun
<1>6. tabRun' \in [Editor!Runs -> TabRun]
  BY <1>1, <1>2, <1>5
<1>7. plan' = plan
  BY <1>1 DEF Editor!Land, TabsInv, TabsTyped
<1>8. QED
  BY <1>1, <1>2, <1>3, <1>4, <1>5, <1>6, <1>7, LeavesKeeps DEF FliesIn

LEMMA HandedAnsweredKeeps == ASSUME TabsApart, TabsInv, NEW r \in Editor!Runs, Editor!HandedAnswered(r) PROVE TabsInv'
<1>0. PICK t : t = tabRun[r].tab
  OBVIOUS
<1>1. /\ tabRun[r].stage = "flying" /\ tabRun[r].kind = "handed" /\ UNCHANGED <<tabInFlight, last, loading, plan>>
      /\ tabRun' = [tabRun EXCEPT ![r].stage = "ended"] /\ executing' = [executing EXCEPT ![t] = FALSE]
      /\ disturbed' = [disturbed EXCEPT ![t] = @ \/ \E s \in Editor!Runs : s # r /\ tabRun[s].tab = t /\ Editor!Flies(s)]
  BY <1>0 DEF Editor!HandedAnswered
<1>2. tabRun \in [Editor!Runs -> TabRun]
  BY DEF TabsInv, RunsShaped
<1>3. tabRun'[r] = [tabRun[r] EXCEPT !.stage = "ended"] /\ \A s \in Editor!Runs : s # r => tabRun'[s] = tabRun[s]
  BY <1>1, <1>2
<1>4. tabRun'[r] \in TabRun /\ tabRun'[r].tab = t /\ tabRun'[r].kind = tabRun[r].kind /\ tabRun'[r].stage = "ended"
  BY <1>0, <1>2, <1>3 DEF TabRun
<1>5. tabRun' \in [Editor!Runs -> TabRun]
  BY <1>1, <1>2, <1>4
<1>6. FliesIn(tabRun, r)
  BY <1>1 DEF FliesIn
<1>7. RunsShaped(tabRun') /\ SameBut(tabRun, tabRun', r) /\ t \in Tabs
  BY <1>0, <1>3, <1>4, <1>5, <1>6, EndedShaped
<1>8. Ending(r, t)
  BY <1>0, <1>1, <1>4, <1>6, <1>7 DEF Ending
<1>9. executing'[t] = FALSE
  BY <1>1, <1>7 DEF TabsInv, TabsTyped
<1>10. /\ disturbed[t] => disturbed'[t]
       /\ \A s \in Editor!Runs : s # r /\ tabRun[s].tab = t /\ FliesIn(tabRun, s) => disturbed'[t]
  BY <1>1, <1>7 DEF TabsInv, TabsTyped, FliesIn, Editor!Flies
<1>11. TabHolds(tabRun, t)'
  <2>1. tabInFlight'[t] = tabInFlight[t] /\ ~executing'[t] /\ loading'[t] = loading[t] /\ tabRun[r].kind = "handed"
    BY <1>1, <1>9
  <2>2. QED
    BY <1>8, <1>10, <2>1, HandedEnds
<1>12. ASSUME NEW u \in Tabs, u # t PROVE TabHolds(tabRun, u)'
  <2>1. executing'[u] = executing[u] /\ disturbed'[u] = disturbed[u]
    BY <1>1, <1>12 DEF TabsInv, TabsTyped
  <2>2. QED
    BY <1>1, <1>8, <1>12, <2>1, EndingOthers
<1>13. executing' \in [Tabs -> BOOLEAN] /\ disturbed' \in [Tabs -> BOOLEAN]
  BY <1>1 DEF TabsInv, TabsTyped
<1>14. TabsTyped'
  <2>1. loading' \in [Tabs -> BOOLEAN]
    BY <1>1 DEF TabsInv, TabsTyped
  <2>2. /\ tabInFlight' \in [Tabs -> Editor!Runs \cup {NULL}] /\ last' \in [Tabs -> Editor!Runs \cup {NULL}]
        /\ plan' \in [Tabs -> Editor!Runs \cup {NULL}]
    BY <1>1 DEF TabsInv, TabsTyped
  <2>3. QED
    BY <1>13, <2>1, <2>2 DEF TabsTyped
<1>15. QED
  BY <1>7, <1>11, <1>12, <1>14 DEF TabsInv

(* A refused explain puts the spinners out, and whoever runs on the tab is disturbed. *)
LEMMA RefuseKeeps == ASSUME TabsApart, TabsInv, NEW t \in Tabs, Editor!RefuseExplain(t) PROVE TabsInv'
<1>1. /\ executing' = [executing EXCEPT ![t] = FALSE] /\ loading' = [loading EXCEPT ![t] = FALSE]
      /\ UNCHANGED <<tabRun, tabInFlight, last, plan>>
  BY DEF Editor!RefuseExplain
<1>2. disturbed' = [disturbed EXCEPT ![t] = @ \/ Editor!FliesOn(t)]
  BY DEF Editor!RefuseExplain
<1>3. executing' \in [Tabs -> BOOLEAN] /\ loading' \in [Tabs -> BOOLEAN]
  BY <1>1 DEF TabsInv, TabsTyped
<1>4. disturbed' \in [Tabs -> BOOLEAN]
  BY <1>2 DEF TabsInv, TabsTyped, Editor!FliesOn
<1>5. TabsTyped'
  BY <1>1, <1>3, <1>4 DEF TabsInv, TabsTyped
<1>6. RunsShaped(tabRun')
  BY <1>1 DEF TabsInv
<1>7. ASSUME NEW u \in Tabs, u # t PROVE TabHolds(tabRun, u)'
  <2>1. executing'[u] = executing[u] /\ loading'[u] = loading[u]
    BY <1>1, <1>7 DEF TabsInv, TabsTyped
  <2>2. disturbed'[u] = disturbed[u]
    BY <1>2, <1>7 DEF TabsInv, TabsTyped
  <2>3. last'[u] = last[u] /\ tabInFlight'[u] = tabInFlight[u] /\ SameOf(tabRun, tabRun', u)
    BY <1>1 DEF SameOf
  <2>4. QED
    BY <2>1, <2>2, <2>3, OtherTabHolds
<1>8. TabHolds(tabRun, t)'
  <2>1. TabHolds(tabRun, t) /\ last[t] \in Editor!Runs \cup {NULL}
    BY DEF TabsInv, TabsTyped
  <2>2. executing'[t] = FALSE /\ loading'[t] = FALSE
    BY <1>1 DEF TabsInv, TabsTyped
  <2>3. LastFlies(tabRun, t) => disturbed'[t]
    <3>1. LastFlies(tabRun, t) => Editor!FliesOn(t)
      BY <2>1 DEF LastFlies, TabHolds, GreatestIn, OfTab, FliesIn, Editor!FliesOn, Editor!Flies
    <3>2. disturbed'[t] <=> disturbed[t] \/ Editor!FliesOn(t)
      BY <1>2 DEF TabsInv, TabsTyped
    <3>3. QED
      BY <3>1, <3>2
  <2>4. LastFlies(tabRun, t)' <=> LastFlies(tabRun, t)
    BY <1>1 DEF LastFlies
  <2>5. GreatestIn(tabRun, t)'
    BY <1>1, <2>1 DEF TabHolds, GreatestIn
  <2>6. HeldIn(tabRun, t)'
    BY <1>1, <2>1, <2>3, <2>4 DEF TabHolds, HeldIn
  <2>7. SpinsIn(tabRun, t)'
    BY <2>2 DEF SpinsIn
  <2>8. QED
    BY <2>5, <2>6, <2>7 DEF TabHolds
<1>9. QED
  BY <1>5, <1>6, <1>7, <1>8 DEF TabsInv

(* What changes only whether runs are aborted or ask for a plan. *)
LEMMA AlikeKeeps ==
  ASSUME TabsApart, TabsInv, RunsShaped(tabRun'), AlikeRuns(tabRun, tabRun'),
         UNCHANGED <<tabInFlight, last, executing, loading, disturbed>>, plan' \in [Tabs -> Editor!Runs \cup {NULL}]
  PROVE  TabsInv'
<1>1. TabsTyped'
  BY DEF TabsInv, TabsTyped
<1>2. ASSUME NEW t \in Tabs PROVE TabHolds(tabRun, t)'
  <2>1. SameOf(tabRun, tabRun', t)
    BY DEF AlikeRuns, SameOf
  <2>2. last'[t] = last[t] /\ tabInFlight'[t] = tabInFlight[t] /\ executing'[t] = executing[t] /\ loading'[t] = loading[t]
    OBVIOUS
  <2>3. disturbed'[t] = disturbed[t]
    OBVIOUS
  <2>4. QED
    BY <2>1, <2>2, <2>3, OtherTabHolds
<1>3. QED
  BY <1>1, <1>2 DEF TabsInv

LEMMA CancelKeeps == ASSUME TabsApart, TabsInv, NEW t \in Tabs, Editor!Cancel(t) PROVE TabsInv'
<1>1. tabRun' = Editor!AbortedOn(t) /\ UNCHANGED <<tabInFlight, last, executing, loading, disturbed, plan>>
  BY DEF Editor!Cancel
<1>2. RunsShaped(tabRun') /\ AlikeRuns(tabRun, tabRun')
  BY <1>1, AbortedAlike
<1>3. plan' \in [Tabs -> Editor!Runs \cup {NULL}]
  BY <1>1 DEF TabsInv, TabsTyped
<1>4. QED
  BY <1>1, <1>2, <1>3, AlikeKeeps

LEMMA PlanAnsweredKeeps == ASSUME TabsApart, TabsInv, NEW r \in Editor!Runs, Editor!PlanAnswered(r) PROVE TabsInv'
<1> DEFINE t == tabRun[r].tab
<1>1. /\ tabRun' = [tabRun EXCEPT ![r].asks = FALSE] /\ tabRun[r].stage = "ended"
      /\ UNCHANGED <<tabInFlight, last, executing, loading, disturbed>>
      /\ plan' \in {plan, [plan EXCEPT ![t] = r]}
  BY DEF Editor!PlanAnswered
<1>2. tabRun \in [Editor!Runs -> TabRun]
  BY DEF TabsInv, RunsShaped
<1>3. tabRun'[r] = [tabRun[r] EXCEPT !.asks = FALSE] /\ \A s \in Editor!Runs : s # r => tabRun'[s] = tabRun[s]
  BY <1>1, <1>2
<1>4. /\ tabRun'[r] \in TabRun /\ tabRun'[r].tab = tabRun[r].tab /\ tabRun'[r].kind = tabRun[r].kind
      /\ tabRun'[r].stage = tabRun[r].stage
  <2>1. ASSUME NEW w \in TabRun
        PROVE  LET v == [w EXCEPT !.asks = FALSE]
               IN  v \in TabRun /\ v.tab = w.tab /\ v.kind = w.kind /\ v.stage = w.stage
    BY DEF TabRun
  <2>2. tabRun[r] \in TabRun
    BY <1>2
  <2>3. QED
    BY <1>3, <2>1, <2>2
<1>5. tabRun' \in [Editor!Runs -> TabRun]
  BY <1>1, <1>2, <1>4
<1>6. \A s \in Editor!Runs : tabRun'[s].tab = tabRun[s].tab /\ tabRun'[s].kind = tabRun[s].kind /\ tabRun'[s].stage = tabRun[s].stage
  BY <1>3, <1>4
<1>7. RunsShaped(tabRun')
  BY <1>5, <1>6 DEF TabsInv, RunsShaped
<1>8. AlikeRuns(tabRun, tabRun')
  BY <1>6 DEF AlikeRuns, FliesIn
<1>9. plan' \in [Tabs -> Editor!Runs \cup {NULL}]
  BY <1>1 DEF TabsInv, TabsTyped
<1>10. QED
  BY <1>1, <1>7, <1>8, <1>9, AlikeKeeps

LEMMA TabsStep == ASSUME TabsApart, TabsInv, Editor!Next PROVE TabsInv'
<1>1. ASSUME NEW r \in Editor!Runs, NEW t \in Tabs, Editor!HandOver(r, t) \/ \E kind \in Editor!Kinds \ {"handed"} : Editor!Start(r, t, kind)
      PROVE  TabsInv'
  BY <1>1, HandOverKeeps, StartKeeps
<1>2. ASSUME NEW t \in Tabs, Editor!RefuseExplain(t) \/ Editor!Cancel(t) PROVE TabsInv'
  BY <1>2, RefuseKeeps, CancelKeeps
<1>3. ASSUME NEW r \in Editor!Runs, Editor!RunAnswers(r) \/ Editor!PlanAnswered(r) PROVE TabsInv'
  BY <1>3, AnsweredKeeps, AbortSeenKeeps, HandedAnsweredKeeps, PlanAnsweredKeeps DEF Editor!RunAnswers
<1>4. QED
  BY <1>1, <1>2, <1>3 DEF Editor!Next

LEMMA TabsBegin == ASSUME TabsApart, Editor!Init PROVE TabsInv
<1>1. Editor!Unstarted \in TabRun /\ Editor!Unstarted.tab = NULL /\ Editor!Unstarted.stage = "unstarted" /\ Editor!Unstarted.kind = "query"
  BY DEF Editor!Unstarted, TabRun, Editor!Kinds
<1>2. RunsShaped(tabRun)
  BY <1>1 DEF Editor!Init, RunsShaped
<1>3. TabsTyped
  BY DEF Editor!Init, TabsTyped
<1>4. ASSUME NEW t \in Tabs PROVE last[t] = NULL /\ tabInFlight[t] = NULL /\ executing[t] = FALSE /\ loading[t] = FALSE
  BY DEF Editor!Init
<1>5. ASSUME NEW t \in Tabs PROVE TabHolds(tabRun, t)
  <2>1. \A s \in Editor!Runs : tabRun[s].tab # t
    BY <1>1 DEF Editor!Init, TabsApart
  <2>2. QED
    BY <1>4, <2>1 DEF TabHolds, GreatestIn, HeldIn, SpinsIn, LastFlies, OfTab
<1>6. QED
  BY <1>2, <1>3, <1>5 DEF TabsInv

LEMMA TabsStepOfParts == ASSUME TabsApart, TabsInv, [PartsNext]_vars PROVE TabsInv'
<1>1. CASE UNCHANGED tabVars
  <2>1. UNCHANGED <<tabInFlight, last, executing, loading, disturbed>>
    BY <1>1 DEF tabVars
  <2>2. RunsShaped(tabRun') /\ AlikeRuns(tabRun, tabRun')
    BY <1>1 DEF tabVars, AlikeRuns, TabsInv
  <2>3. plan' \in [Tabs -> Editor!Runs \cup {NULL}]
    BY <1>1 DEF tabVars, TabsInv, TabsTyped
  <2>4. QED
    BY <2>1, <2>2, <2>3, AlikeKeeps
<1>2. CASE Editor!Next
  BY <1>2, TabsStep
<1>3. QED
  BY <1>1, <1>2, EachPartSteps

(* The last run of a tab stays within reach of Cancel while it flies, and a spinner stands for a *)
(* run that will put it out (hooks/use-query-execution.ts).                                      *)
THEOREM SpinnersHeldHolds == ASSUME TabsApart PROVE PartsSpec => []SpinnersHeld
<1>1. PartsInit => TabsInv
  BY EachPartBegins, TabsBegin
<1>2. TabsInv /\ [PartsNext]_vars => TabsInv'
  BY TabsStepOfParts
<1>3. TabsInv => SpinnersHeld
  <2> SUFFICES ASSUME TabsInv PROVE Editor!LastRunHeld /\ Editor!SpinnerOwned
    BY DEF SpinnersHeld
  <2>1. ASSUME NEW t \in Tabs, NEW r \in Editor!Runs, Editor!Flies(r), OfTab(tabRun, r, t),
               \A s \in Editor!Runs : OfTab(tabRun, s, t) => s <= r
        PROVE  tabInFlight[t] = r /\ (disturbed[t] \/ (IF tabRun[r].kind = "more" THEN loading[t] ELSE executing[t]))
    <3>1. TabHolds(tabRun, t) /\ last[t] \in Editor!Runs \cup {NULL}
      BY DEF TabsInv, TabsTyped
    <3>2. last[t] # NULL /\ r <= last[t] /\ last[t] <= r
      BY <2>1, <3>1 DEF TabHolds, GreatestIn
    <3>3. last[t] = r
      BY <3>1, <3>2 DEF Editor!Runs, TabsApart
    <3>4. LastFlies(tabRun, t)
      BY <2>1, <3>2, <3>3 DEF LastFlies, FliesIn, Editor!Flies
    <3>5. QED
      BY <3>1, <3>3, <3>4 DEF TabHolds, HeldIn
  <2>2. Editor!LastRunHeld
    BY <2>1 DEF Editor!LastRunHeld, OfTab
  <2>3. ASSUME NEW t \in Tabs, executing[t] \/ loading[t]
        PROVE  \E r \in Editor!Runs : tabRun[r].tab = t /\ Editor!Flies(r) /\ (tabRun[r].kind = "handed" \/ ~Editor!Superseded(r))
    <3>1. TabHolds(tabRun, t) /\ last[t] \in Editor!Runs \cup {NULL}
      BY DEF TabsInv, TabsTyped
    <3>2. CASE LastFlies(tabRun, t)
      BY <3>1, <3>2 DEF LastFlies, TabHolds, GreatestIn, OfTab, FliesIn, Editor!Flies, Editor!Superseded
    <3>3. CASE \E s \in Editor!Runs : tabRun[s].tab = t /\ tabRun[s].kind = "handed" /\ FliesIn(tabRun, s)
      BY <3>3 DEF FliesIn, Editor!Flies
    <3>4. QED
      BY <2>3, <3>1, <3>2, <3>3 DEF TabHolds, SpinsIn
  <2>4. Editor!SpinnerOwned
    BY <2>3 DEF Editor!SpinnerOwned
  <2>5. QED
    BY <2>2, <2>4
<1>4. QED
  BY <1>1, <1>2, <1>3, PTL DEF PartsSpec

(* What PlanOfTheLast says of a step. *)
PlanLands == \A t \in Tabs : plan'[t] # plan[t] =>
               \A r \in Editor!Runs : tabRun[r].tab = t /\ tabRun[r].kind # "handed" => r <= plan'[t]

LEMMA PlanOfLastLands ==
  ASSUME TabsApart, TabsInv, NEW r \in Editor!Runs, tabRun[r].tab # NULL, last[tabRun[r].tab] = r,
         plan' \in {plan, [plan EXCEPT ![tabRun[r].tab] = plan[tabRun[r].tab]], [plan EXCEPT ![tabRun[r].tab] = r]}
  PROVE  PlanLands
<1> DEFINE t == tabRun[r].tab
<1>1. t \in Tabs /\ plan \in [Tabs -> Editor!Runs \cup {NULL}]
  BY DEF TabsInv, RunsShaped, TabsTyped, TabRun
<1>2. \A u \in Tabs : plan'[u] # plan[u] => u = t /\ plan'[t] = r
  BY <1>1
<1>3. TabHolds(tabRun, t) /\ r # NULL
  BY <1>1 DEF TabsInv, TabsApart
<1>4. \A s \in Editor!Runs : OfTab(tabRun, s, t) => s <= r
  BY <1>3 DEF TabHolds, GreatestIn
<1>5. QED
  BY <1>2, <1>4 DEF PlanLands, OfTab

LEMMA PlanLandsRightly == ASSUME TabsApart, TabsInv, Editor!Next PROVE PlanLands
<1>1. ASSUME plan' = plan PROVE PlanLands
  BY <1>1 DEF PlanLands
<1>2. ASSUME NEW r \in Editor!Runs, tabRun[r].stage # "unstarted" PROVE tabRun[r].tab # NULL
  BY <1>2 DEF TabsInv, RunsShaped
<1>3. ASSUME NEW r \in Editor!Runs, Editor!Answered(r) PROVE PlanLands
  <2>1. Leaves(r) /\ tabRun[r].tab # NULL
    BY <1>2, <1>3, AnsweredKeeps DEF Editor!Answered
  <2>2. CASE last[tabRun[r].tab] # r
    BY <1>1, <2>1, <2>2 DEF Leaves
  <2>3. CASE last[tabRun[r].tab] = r
    <3>1. plan' \in {plan, [plan EXCEPT ![tabRun[r].tab] = plan[tabRun[r].tab]], [plan EXCEPT ![tabRun[r].tab] = r]}
      BY <2>1, <2>3 DEF Leaves
    <3>2. QED
      BY <2>1, <2>3, <3>1, PlanOfLastLands
  <2>4. QED
    BY <2>2, <2>3
<1>4. ASSUME NEW r \in Editor!Runs, Editor!PlanAnswered(r) PROVE PlanLands
  <2>1. tabRun[r].tab # NULL /\ plan' \in IF Editor!Superseded(r) THEN {plan} ELSE {plan, [plan EXCEPT ![tabRun[r].tab] = r]}
    BY <1>2, <1>4 DEF Editor!PlanAnswered
  <2>2. CASE Editor!Superseded(r)
    BY <1>1, <2>1, <2>2
  <2>3. CASE ~Editor!Superseded(r)
    BY <2>1, <2>3, PlanOfLastLands DEF Editor!Superseded
  <2>4. QED
    BY <2>2, <2>3
<1>5. ASSUME NEW r \in Editor!Runs, NEW t \in Tabs, Editor!HandOver(r, t) \/ \E kind \in Editor!Kinds \ {"handed"} : Editor!Start(r, t, kind)
      PROVE  plan' = plan
  BY <1>5 DEF Editor!HandOver, Editor!Start
<1>6. ASSUME NEW t \in Tabs, Editor!RefuseExplain(t) \/ Editor!Cancel(t) PROVE plan' = plan
  BY <1>6 DEF Editor!RefuseExplain, Editor!Cancel
<1>7. ASSUME NEW r \in Editor!Runs, Editor!AbortSeen(r) \/ Editor!HandedAnswered(r) PROVE plan' = plan
  BY <1>7, AbortSeenKeeps DEF Editor!HandedAnswered
<1>8. QED
  BY <1>1, <1>3, <1>4, <1>5, <1>6, <1>7 DEF Editor!Next, Editor!RunAnswers

(* No plan lands on a tab where a newer run was started. *)
THEOREM PlanOfTheLastHolds == ASSUME TabsApart PROVE PartsSpec => PlanOfTheLast
<1>1. PartsInit => TabsInv
  BY EachPartBegins, TabsBegin
<1>2. TabsInv /\ [PartsNext]_vars => TabsInv'
  BY TabsStepOfParts
<1>3. TabsInv /\ [PartsNext]_vars => [PlanLands]_(Editor!runVars)
  BY EachPartSteps, PlanLandsRightly DEF tabVars, Editor!runVars
<1>4. QED
  BY <1>1, <1>2, <1>3, PTL DEF PartsSpec, PlanOfTheLast, Editor!PlanOfTheLast, PlanLands

-----------------------------------------------------------------------------
Outcomes == {"shipped", "failed", "dropped"}
Work == [phase: {"over", "waiting", "sending", "resting"}, awaits: Flushes \cup {NoFlush},
         lines: SUBSET Lines, attempt: Nat]

LinesTyped ==
  /\ queue \in Seq(Lines) /\ timer \in BOOLEAN /\ inFlight \in Flushes \cup {NoFlush}
  /\ flush \in [Flushes -> Work]
  /\ indexed \in SUBSET Lines /\ counted \in [Lines -> SUBSET Outcomes]

(* The parts of CountedOnce, of any queue, flushes, counts and index. *)
Distinct(q) == \A i, j \in DOMAIN q : q[i] = q[j] => i = j
OneBatch(fl) == \A f, g \in Flushes : fl[f].lines \cap fl[g].lines # {} => f = g
Apart(q, fl) == \A l \in Export!Held(q) : \A f \in Flushes : l \notin fl[f].lines
QueueUncounted(q, n) == \A l \in Export!Held(q) : n[l] = {}
BatchUncounted(fl, n) == \A f \in Flushes : \A l \in fl[f].lines : n[l] = {}
OneOutcome(n) == \A l \in Lines : \A a, b \in n[l] : a = b
ShippedHeld(n, x) == \A l \in Lines : "shipped" \in n[l] => l \in x

Placed(q, fl, n, x) ==
  /\ Distinct(q) /\ OneBatch(fl) /\ Apart(q, fl)
  /\ QueueUncounted(q, n) /\ BatchUncounted(fl, n)
  /\ OneOutcome(n) /\ ShippedHeld(n, x)

(* A flush that does not send holds nothing. *)
IdleEmpty(fl) == \A f \in Flushes : fl[f].phase \in {"over", "waiting"} => fl[f].lines = {}

LinesInv == LinesTyped /\ IdleEmpty(flush) /\ Export!NothingStranded /\ Placed(queue, flush, counted, indexed)

LEMMA WorkTyped == Export!NoWork \in Work /\ Export!NoWork.lines = {} /\ Export!NoWork.phase = "over"
BY DEF Export!NoWork, Work

LEMMA PlacedCounted == LinesTyped /\ Placed(queue, flush, counted, indexed) => Export!CountedOnce
BY DEF LinesTyped, Placed, Distinct, OneBatch, Apart, QueueUncounted, BatchUncounted, OneOutcome, ShippedHeld,
       Export!CountedOnce, Export!InQueue, Export!Held, Work

LEMMA HeldTyped == ASSUME NEW q \in Seq(Lines) PROVE Export!Held(q) \in SUBSET Lines
BY DEF Export!Held

-----------------------------------------------------------------------------
(* A flush takes the whole queue as its batch, whatever it held before. *)
LEMMA SpliceStep ==
  ASSUME ExportConstants, LinesTyped, NEW q \in Seq(Lines), NEW f \in Flushes, NEW n, NEW x,
         Placed(q, flush, n, x), IdleEmpty(flush), flush[f].lines = {}, Export!Splice(f, q)
  PROVE  /\ IdleEmpty(flush') /\ flush' \in [Flushes -> Work] /\ queue' = <<>> /\ inFlight' \in Flushes \cup {NoFlush}
         /\ Placed(queue', flush', n, x)
<1>1. q = <<>> => flush' = [flush EXCEPT ![f] = Export!NoWork] /\ inFlight' = inFlight
  BY DEF Export!Splice
<1>2. CASE q = <<>>
  <2>1. flush' \in [Flushes -> Work] /\ queue' = q /\ inFlight' \in Flushes \cup {NoFlush}
    BY <1>1, <1>2, WorkTyped DEF LinesTyped, Export!Splice
  <2>2. \A g \in Flushes : flush'[g].lines = flush[g].lines
    BY <1>1, <1>2, WorkTyped DEF LinesTyped
  <2>3. QED
    BY <1>1, <1>2, <2>1, <2>2, WorkTyped DEF LinesTyped, Placed, OneBatch, Apart, BatchUncounted, IdleEmpty
<1>3. CASE q # <<>>
  <2> DEFINE w == [Export!NoWork EXCEPT !.phase = "sending", !.lines = Export!Held(q), !.attempt = 1]
  <2>1. w \in Work /\ w.lines = Export!Held(q) /\ w.phase = "sending"
    BY HeldTyped DEF Export!NoWork, Work
  <2>2. flush' = [flush EXCEPT ![f] = w] /\ queue' = <<>> /\ inFlight' = f
    BY <1>3 DEF Export!Splice
  <2> HIDE DEF w
  <2>3. flush' \in [Flushes -> Work] /\ \A g \in Flushes : flush'[g].lines = IF g = f THEN Export!Held(q) ELSE flush[g].lines
    BY <2>1, <2>2 DEF LinesTyped
  <2>4. OneBatch(flush') /\ IdleEmpty(flush')
    BY <2>1, <2>2, <2>3 DEF LinesTyped, Placed, OneBatch, Apart, IdleEmpty
  <2>5. BatchUncounted(flush', n)
    BY <2>3 DEF Placed, BatchUncounted, QueueUncounted
  <2>6. Export!Held(<<>>) = {} /\ Distinct(<<>>)
    BY DEF Export!Held, Distinct
  <2>7. QED
    BY <2>2, <2>3, <2>4, <2>5, <2>6 DEF Placed, Apart, QueueUncounted
<1>4. QED
  BY <1>2, <1>3

(* flushAuditExport sends the queue it was given, or waits and leaves it in its place. *)
LEMMA FlushStep ==
  ASSUME ExportConstants, LinesTyped, NEW q \in Seq(Lines), NEW f \in Flushes, NEW n, NEW x,
         Placed(q, flush, n, x), IdleEmpty(flush), Export!FlushAuditExport(f, q)
  PROVE  /\ flush' \in [Flushes -> Work] /\ queue' \in Seq(Lines) /\ timer' = FALSE
         /\ inFlight' \in Flushes \cup {NoFlush} /\ IdleEmpty(flush')
         /\ Export!NothingStranded' /\ Placed(queue', flush', n, x)
<1>1. flush[f].phase = "over" /\ flush[f].lines = {} /\ timer' = FALSE
  BY DEF Export!FlushAuditExport, Export!Free, IdleEmpty
<1>2. CASE inFlight = NoFlush
  <2>1. Export!Splice(f, q)
    BY <1>2 DEF Export!FlushAuditExport
  <2>2. /\ IdleEmpty(flush') /\ flush' \in [Flushes -> Work] /\ queue' = <<>> /\ inFlight' \in Flushes \cup {NoFlush}
        /\ Placed(queue', flush', n, x)
    BY <1>1, <2>1, SpliceStep
  <2>3. QED
    BY <1>1, <2>2 DEF Export!NothingStranded
<1>3. CASE inFlight # NoFlush
  <2> DEFINE w == [Export!NoWork EXCEPT !.phase = "waiting", !.awaits = inFlight]
  <2>1. w \in Work /\ w.lines = {} /\ w.phase = "waiting"
    BY DEF Export!NoWork, Work, LinesTyped
  <2>2. flush' = [flush EXCEPT ![f] = w] /\ queue' = q /\ inFlight' = inFlight
    BY <1>3 DEF Export!FlushAuditExport
  <2> HIDE DEF w
  <2>3. /\ flush' \in [Flushes -> Work] /\ flush'[f].phase = "waiting"
        /\ \A g \in Flushes : flush'[g].lines = flush[g].lines
    BY <1>1, <2>1, <2>2 DEF LinesTyped
  <2>4. IdleEmpty(flush')
    BY <2>1, <2>2, <2>3 DEF LinesTyped, IdleEmpty
  <2>5. Placed(queue', flush', n, x)
    BY <2>2, <2>3 DEF Placed, OneBatch, Apart, BatchUncounted
  <2>6. QED
    BY <1>1, <2>2, <2>3, <2>4, <2>5 DEF Export!NothingStranded, LinesTyped
<1>4. QED
  BY <1>2, <1>3

(* The oldest line makes room: it is counted, and the rest of the queue keeps its place. *)
LEMMA RoomStep ==
  ASSUME ExportConstants, LinesTyped, queue # <<>>, NEW n, NEW x, Placed(queue, flush, n, x), n \in [Lines -> SUBSET Outcomes],
         NEW m, m = [l \in Lines |-> IF l \in {Head(queue)} THEN n[l] \cup {"dropped"} ELSE n[l]]
  PROVE  Placed(Tail(queue), flush, m, x) /\ m \in [Lines -> SUBSET Outcomes] /\ Head(queue) \notin Export!Held(Tail(queue))
<1>1. /\ queue \in Seq(Lines) /\ Len(queue) \in Nat \ {0} /\ Head(queue) = queue[1] /\ Head(queue) \in Export!Held(queue)
      /\ Tail(queue) \in Seq(Lines) /\ Len(Tail(queue)) = Len(queue) - 1
      /\ \A i \in 1..Len(queue) - 1 : Tail(queue)[i] = queue[i + 1]
  BY DEF LinesTyped, Export!Held
<1>2. DOMAIN queue = 1..Len(queue) /\ DOMAIN Tail(queue) = 1..Len(queue) - 1
  BY <1>1
<1>3. Head(queue) \notin Export!Held(Tail(queue)) /\ Export!Held(Tail(queue)) \subseteq Export!Held(queue) /\ Export!Held(queue) \subseteq Lines
  <2>1. ASSUME NEW i \in 1..Len(queue) - 1 PROVE Tail(queue)[i] # queue[1] /\ Tail(queue)[i] \in Export!Held(queue)
    BY <1>1, <1>2 DEF Placed, Distinct, Export!Held
  <2>2. QED
    BY <1>1, <1>2, <2>1, HeldTyped DEF Export!Held
<1>4. \A l \in Lines : m[l] = IF l = Head(queue) THEN {"dropped"} ELSE n[l]
  BY <1>1, <1>3 DEF Placed, QueueUncounted
<1>5. Distinct(Tail(queue))
  BY <1>1, <1>2 DEF Placed, Distinct
<1>6. Apart(Tail(queue), flush) /\ QueueUncounted(Tail(queue), m)
  BY <1>3, <1>4 DEF Placed, Apart, QueueUncounted
<1>7. BatchUncounted(flush, m)
  <2>1. \A f \in Flushes : flush[f].lines \in SUBSET Lines /\ Head(queue) \notin flush[f].lines
    BY <1>1 DEF Placed, Apart, LinesTyped, Work
  <2>2. QED
    BY <1>4, <2>1 DEF Placed, BatchUncounted
<1>8. OneOutcome(m) /\ ShippedHeld(m, x)
  BY <1>4 DEF Placed, OneOutcome, ShippedHeld
<1>9. m \in [Lines -> SUBSET Outcomes]
  BY <1>1 DEF Outcomes
<1>10. QED
  BY <1>3, <1>5, <1>6, <1>7, <1>8, <1>9 DEF Placed

LEMMA AppendStep ==
  ASSUME LinesTyped, NEW q \in Seq(Lines), NEW l \in Lines, NEW n, NEW x, Placed(q, flush, n, x),
         l \notin Export!Held(q), n[l] = {}, \A f \in Flushes : l \notin flush[f].lines
  PROVE  Placed(Append(q, l), flush, n, x) /\ Append(q, l) \in Seq(Lines)
<1>1. /\ Append(q, l) \in Seq(Lines) /\ Len(q) \in Nat /\ Len(Append(q, l)) = Len(q) + 1
      /\ DOMAIN q = 1..Len(q) /\ DOMAIN Append(q, l) = 1..Len(q) + 1
      /\ \A i \in 1..Len(q) + 1 : Append(q, l)[i] = IF i <= Len(q) THEN q[i] ELSE l
  OBVIOUS
<1>2. \A k \in Export!Held(Append(q, l)) : k = l \/ k \in Export!Held(q)
  BY <1>1 DEF Export!Held
<1>3. Distinct(Append(q, l))
  BY <1>1 DEF Placed, Distinct, Export!Held
<1>4. QED
  BY <1>1, <1>2, <1>3 DEF Placed, Apart, QueueUncounted

LEMMA EnqueueStep == ASSUME ExportConstants, LinesInv, Export!Enqueue PROVE LinesInv'
<1> DEFINE l == CHOOSE k \in Lines : Export!New(k)
           full == Len(queue) >= MaxQueue
           room == IF full THEN Tail(queue) ELSE queue
           q == Append(room, l)
<1>1. l \in Lines /\ Export!New(l)
  BY DEF Export!Enqueue
<1>2. l \notin Export!Held(queue) /\ counted[l] = {} /\ \A f \in Flushes : l \notin flush[f].lines
  BY <1>1 DEF Export!New, Export!InQueue, Export!Held
<1>3. /\ LinesTyped /\ IdleEmpty(flush) /\ Placed(queue, flush, counted, indexed) /\ indexed' = indexed
      /\ queue \in Seq(Lines) /\ counted \in [Lines -> SUBSET Outcomes]
  BY DEF LinesInv, Export!Enqueue, LinesTyped
<1> HIDE DEF l
<1>4. /\ Placed(room, flush, counted', indexed) /\ counted' \in [Lines -> SUBSET Outcomes] /\ room \in Seq(Lines)
      /\ l \notin Export!Held(room) /\ counted'[l] = {}
  <2>1. CASE full
    <3>1. queue # <<>> /\ Tail(queue) \in Seq(Lines)
      BY <1>3, <2>1 DEF ExportConstants
    <3>2. counted' = [k \in Lines |-> IF k \in {Head(queue)} THEN counted[k] \cup {"dropped"} ELSE counted[k]]
      BY <2>1 DEF Export!Enqueue, Export!Counts
    <3>3. /\ Placed(Tail(queue), flush, counted', indexed) /\ counted' \in [Lines -> SUBSET Outcomes]
      BY <1>3, <3>1, <3>2, RoomStep
    <3>4. Export!Held(Tail(queue)) \subseteq Export!Held(queue) /\ Head(queue) \in Export!Held(queue)
      <4>1. Len(queue) \in Nat \ {0} /\ DOMAIN queue = 1..Len(queue) /\ Head(queue) = queue[1]
            /\ DOMAIN Tail(queue) = 1..Len(queue) - 1 /\ \A i \in 1..Len(queue) - 1 : Tail(queue)[i] = queue[i + 1]
        BY <1>3, <3>1
      <4>2. QED
        BY <4>1 DEF Export!Held
    <3>5. QED
      BY <1>1, <1>2, <2>1, <3>1, <3>2, <3>3, <3>4
  <2>2. CASE ~full
    BY <1>2, <1>3, <2>2 DEF Export!Enqueue
  <2>3. QED
    BY <2>1, <2>2
<1>5. q \in Seq(Lines) /\ Placed(q, flush, counted', indexed)
  BY <1>1, <1>2, <1>3, <1>4, AppendStep
<1>6. \/ \E f \in Flushes : Export!FlushAuditExport(f, q)
      \/ queue' = q /\ timer' = TRUE /\ UNCHANGED <<inFlight, flush>>
  BY DEF Export!Enqueue, l
<1> HIDE DEF q
<1>7. CASE queue' = q /\ timer' = TRUE /\ UNCHANGED <<inFlight, flush>>
  BY <1>3, <1>4, <1>5, <1>7 DEF LinesInv, LinesTyped, Export!NothingStranded
<1>8. ASSUME NEW f \in Flushes, Export!FlushAuditExport(f, q) PROVE LinesInv'
  <2>1. /\ flush' \in [Flushes -> Work] /\ queue' \in Seq(Lines) /\ timer' = FALSE
        /\ inFlight' \in Flushes \cup {NoFlush} /\ IdleEmpty(flush')
        /\ Export!NothingStranded' /\ Placed(queue', flush', counted', indexed)
    BY <1>3, <1>5, <1>8, FlushStep
  <2>2. QED
    BY <1>3, <1>4, <2>1 DEF LinesInv, LinesTyped
<1>9. QED
  BY <1>6, <1>7, <1>8

-----------------------------------------------------------------------------
(* A batch ends with each of its lines counted once, as shipped only if it is indexed. *)
LEMMA SettleStep ==
  ASSUME LinesInv, NEW f \in Flushes, flush[f].phase = "sending", Export!Settles(f), UNCHANGED <<queue, timer>>,
         indexed \subseteq indexed', indexed' \subseteq Lines, counted' \in [Lines -> SUBSET Outcomes],
         \A l \in Lines : l \notin flush[f].lines => counted'[l] = counted[l],
         \A l \in flush[f].lines : \A a, b \in counted'[l] : a = b,
         \A l \in flush[f].lines : "shipped" \in counted'[l] => l \in indexed'
  PROVE  LinesInv'
<1>1. LinesTyped /\ IdleEmpty(flush) /\ Placed(queue, flush, counted, indexed) /\ flush[f] \in Work
  BY DEF LinesInv, LinesTyped
<1>2. flush' = [flush EXCEPT ![f] = Export!NoWork] /\ inFlight' = NoFlush /\ flush' \in [Flushes -> Work]
  BY <1>1, WorkTyped DEF Export!Settles, LinesTyped
<1>3. \A g \in Flushes : flush'[g].lines = IF g = f THEN {} ELSE flush[g].lines
  BY <1>1, <1>2, WorkTyped DEF LinesTyped
<1>4. IdleEmpty(flush')
  BY <1>1, <1>2, <1>3 DEF LinesTyped, IdleEmpty
<1>5. OneBatch(flush') /\ Apart(queue, flush') /\ Distinct(queue)
  BY <1>1, <1>3 DEF Placed, OneBatch, Apart
<1>6. QueueUncounted(queue, counted')
  <2>1. \A l \in Export!Held(queue) : l \in Lines /\ l \notin flush[f].lines
    BY <1>1, HeldTyped DEF LinesTyped, Placed, Apart
  <2>2. QED
    BY <1>1, <2>1 DEF Placed, QueueUncounted
<1>7. BatchUncounted(flush', counted')
  <2>1. ASSUME NEW g \in Flushes, g # f, NEW l \in flush[g].lines PROVE l \in Lines /\ l \notin flush[f].lines
    BY <1>1, <2>1 DEF LinesTyped, Work, Placed, OneBatch
  <2>2. QED
    BY <1>1, <1>3, <2>1 DEF Placed, BatchUncounted
<1>8. OneOutcome(counted') /\ ShippedHeld(counted', indexed')
  BY <1>1 DEF Placed, OneOutcome, ShippedHeld
<1>9. Export!NothingStranded'
  BY <1>1, <1>2 DEF LinesInv, Export!NothingStranded, LinesTyped
<1>10. LinesTyped'
  BY <1>1, <1>2 DEF LinesTyped
<1>11. QED
  BY <1>4, <1>5, <1>6, <1>7, <1>8, <1>9, <1>10 DEF LinesInv, Placed

LEMMA AnsweredStep == ASSUME LinesInv, NEW f \in Flushes, Export!Answered(f) PROVE LinesInv'
<1>1. PICK rejected \in SUBSET (flush[f].lines \ indexed) :
        /\ indexed' = indexed \cup (flush[f].lines \ rejected)
        /\ counted' = [l \in Lines |-> IF l \in flush[f].lines \ rejected THEN counted[l] \cup {"shipped"}
                                        ELSE IF l \in rejected THEN counted[l] \cup {"failed"} ELSE counted[l]]
  BY DEF Export!Answered
<1>2. /\ counted \in [Lines -> SUBSET Outcomes] /\ flush[f].lines \in SUBSET Lines /\ indexed \in SUBSET Lines
      /\ \A l \in flush[f].lines : counted[l] = {}
  BY DEF LinesInv, LinesTyped, Work, Placed, BatchUncounted
<1>3. \A l \in Lines : counted'[l] = IF l \in flush[f].lines \ rejected THEN counted[l] \cup {"shipped"}
                                      ELSE IF l \in rejected THEN counted[l] \cup {"failed"} ELSE counted[l]
  BY <1>1
<1>4. /\ \A l \in Lines : l \notin flush[f].lines => counted'[l] = counted[l]
      /\ \A l \in flush[f].lines : \A a, b \in counted'[l] : a = b
      /\ \A l \in flush[f].lines : "shipped" \in counted'[l] => l \in indexed'
  BY <1>1, <1>2, <1>3
<1>5. counted' \in [Lines -> SUBSET Outcomes]
  BY <1>1, <1>2 DEF Outcomes
<1>6. flush[f].phase = "sending" /\ Export!Settles(f) /\ UNCHANGED <<queue, timer>>
      /\ indexed \subseteq indexed' /\ indexed' \subseteq Lines
  BY <1>1, <1>2 DEF Export!Answered
<1>7. QED
  BY <1>4, <1>5, <1>6, SettleStep

(* The batch stays in its flush, which sends or rests. *)
LEMMA SameBatch ==
  ASSUME LinesInv, NEW f \in Flushes, NEW w \in Work, w.lines = flush[f].lines, w.phase \in {"sending", "resting"},
         flush[f].phase # "waiting", flush' = [flush EXCEPT ![f] = w],
         UNCHANGED <<queue, timer, inFlight, counted>>, indexed \subseteq indexed', indexed' \subseteq Lines
  PROVE  LinesInv'
<1>1. LinesTyped /\ IdleEmpty(flush) /\ Placed(queue, flush, counted, indexed)
  BY DEF LinesInv
<1>2. LinesTyped' /\ \A g \in Flushes : flush'[g].lines = flush[g].lines
  BY <1>1 DEF LinesTyped
<1>3. IdleEmpty(flush') /\ Export!NothingStranded'
  BY <1>1, <1>2 DEF LinesInv, LinesTyped, IdleEmpty, Export!NothingStranded
<1>4. Placed(queue', flush', counted', indexed')
  BY <1>1, <1>2 DEF Placed, OneBatch, Apart, BatchUncounted, ShippedHeld
<1>5. QED
  BY <1>2, <1>3, <1>4 DEF LinesInv

LEMMA ThrowsStep == ASSUME LinesInv, NEW f \in Flushes, Export!Throws(f) PROVE LinesInv'
<1>1. /\ counted \in [Lines -> SUBSET Outcomes] /\ flush[f] \in Work /\ indexed \in SUBSET Lines
      /\ \A l \in flush[f].lines : counted[l] = {}
  BY DEF LinesInv, LinesTyped, Placed, BatchUncounted
<1>2. /\ indexed \subseteq indexed' /\ indexed' \subseteq Lines /\ UNCHANGED <<queue, timer>> /\ flush[f].phase = "sending"
  BY <1>1 DEF Export!Throws, Work
<1>3. CASE flush[f].attempt >= MaxAttempts
  <2>1. Export!Settles(f) /\ counted' = [l \in Lines |-> IF l \in flush[f].lines THEN counted[l] \cup {"failed"} ELSE counted[l]]
    BY <1>3 DEF Export!Throws, Export!Counts
  <2>2. \A l \in Lines : counted'[l] = IF l \in flush[f].lines THEN counted[l] \cup {"failed"} ELSE counted[l]
    BY <2>1
  <2>3. counted' \in [Lines -> SUBSET Outcomes] /\ flush[f].lines \in SUBSET Lines
    BY <1>1, <2>1 DEF Outcomes, Work
  <2>4. QED
    BY <1>1, <1>2, <2>1, <2>2, <2>3, SettleStep
<1>4. CASE ~(flush[f].attempt >= MaxAttempts)
  <2> DEFINE w == [flush[f] EXCEPT !.phase = "resting"]
  <2>1. w \in Work /\ w.lines = flush[f].lines /\ w.phase = "resting"
    BY <1>1 DEF Work
  <2>2. flush' = [flush EXCEPT ![f] = w] /\ UNCHANGED <<queue, timer, inFlight, counted>>
    BY <1>4 DEF Export!Throws
  <2> HIDE DEF w
  <2>3. QED
    BY <1>2, <2>1, <2>2, SameBatch
<1>5. QED
  BY <1>3, <1>4

LEMMA ExportStep == ASSUME ExportConstants, LinesInv, Export!Next PROVE LinesInv'
<1>1. CASE Export!Enqueue
  BY <1>1, EnqueueStep
<1>2. CASE Export!TimerFires
  <2>1. PICK f \in Flushes : Export!FlushAuditExport(f, queue)
    BY <1>2 DEF Export!TimerFires
  <2>2. UNCHANGED <<indexed, counted>> /\ queue \in Seq(Lines) /\ LinesTyped /\ IdleEmpty(flush)
        /\ Placed(queue, flush, counted, indexed)
    BY <1>2 DEF Export!TimerFires, LinesInv, LinesTyped
  <2>3. /\ flush' \in [Flushes -> Work] /\ queue' \in Seq(Lines) /\ timer' = FALSE
        /\ inFlight' \in Flushes \cup {NoFlush} /\ IdleEmpty(flush')
        /\ Export!NothingStranded' /\ Placed(queue', flush', counted, indexed)
    BY <2>1, <2>2, FlushStep
  <2>4. QED
    BY <2>2, <2>3 DEF LinesInv, LinesTyped
<1>3. ASSUME NEW f \in Flushes, Export!Resume(f) PROVE LinesInv'
  <2>1. flush[f].phase = "waiting" /\ Export!Splice(f, queue) /\ UNCHANGED <<timer, indexed, counted>>
    BY <1>3 DEF Export!Resume
  <2>2. queue \in Seq(Lines) /\ LinesTyped /\ IdleEmpty(flush) /\ Placed(queue, flush, counted, indexed) /\ flush[f].lines = {}
    BY <2>1 DEF LinesInv, LinesTyped, IdleEmpty
  <2>3. /\ IdleEmpty(flush') /\ flush' \in [Flushes -> Work] /\ queue' = <<>> /\ inFlight' \in Flushes \cup {NoFlush}
        /\ Placed(queue', flush', counted, indexed)
    BY <2>1, <2>2, SpliceStep
  <2>4. QED
    BY <2>1, <2>2, <2>3 DEF LinesInv, LinesTyped, Export!NothingStranded
<1>4. ASSUME NEW f \in Flushes, Export!Retry(f) PROVE LinesInv'
  <2> DEFINE w == [flush[f] EXCEPT !.phase = "sending", !.attempt = flush[f].attempt + 1]
  <2>1. flush[f] \in Work /\ flush[f].phase = "resting" /\ flush' = [flush EXCEPT ![f] = w]
        /\ UNCHANGED <<queue, timer, inFlight, indexed, counted>> /\ indexed \subseteq Lines
    BY <1>4 DEF Export!Retry, LinesInv, LinesTyped
  <2>2. flush[f].attempt + 1 \in Nat
    BY <2>1 DEF Work
  <2>3. ASSUME NEW u \in Work, NEW a \in Nat
        PROVE  LET v == [u EXCEPT !.phase = "sending", !.attempt = a]
               IN v \in Work /\ v.lines = u.lines /\ v.phase = "sending"
    BY DEF Work
  <2>4. w \in Work /\ w.lines = flush[f].lines /\ w.phase = "sending"
    BY <2>1, <2>2, <2>3
  <2> HIDE DEF w
  <2>5. QED
    BY <2>1, <2>4, SameBatch
<1>5. QED
  BY <1>1, <1>2, <1>3, <1>4, AnsweredStep, ThrowsStep DEF Export!Next

(* Whenever lines wait, something will flush them; and a line is in one place: once in the queue *)
(* of enqueueAuditExport, in one batch of flushAuditExport, or counted as one thing, as shipped    *)
(* only if it is indexed.                                                                          *)
THEOREM LinesAccountedHolds == ASSUME ExportConstants PROVE PartsSpec => []LinesAccounted
<1>1. PartsInit => LinesInv
  <2> SUFFICES ASSUME Export!Init PROVE LinesInv
    BY EachPartBegins
  <2>1. /\ queue = <<>> /\ <<>> \in Seq(Lines) /\ Export!Held(queue) = {} /\ Distinct(queue)
        /\ \A f \in Flushes : flush[f].lines = {}
    BY WorkTyped DEF Export!Init, Export!Held, Distinct
  <2>2. LinesTyped
    BY <2>1, WorkTyped DEF Export!Init, LinesTyped
  <2>3. Placed(queue, flush, counted, indexed)
    BY <2>1 DEF Export!Init, Placed, OneBatch, Apart, QueueUncounted, BatchUncounted, OneOutcome, ShippedHeld
  <2>4. QED
    BY <2>1, <2>2, <2>3 DEF LinesInv, IdleEmpty, Export!NothingStranded
<1>2. LinesInv /\ [PartsNext]_vars => LinesInv'
  <2>1. LinesInv /\ UNCHANGED exportVars => LinesInv'
    BY DEF exportVars, LinesInv, LinesTyped, IdleEmpty, Export!NothingStranded, Placed, Distinct, OneBatch, Apart,
       QueueUncounted, BatchUncounted, OneOutcome, ShippedHeld, Export!Held
  <2>2. QED
    BY <2>1, EachPartSteps, ExportStep
<1>3. LinesInv => LinesAccounted
  BY PlacedCounted DEF LinesInv, LinesAccounted
<1>4. QED
  BY <1>1, <1>2, <1>3, PTL DEF PartsSpec

-----------------------------------------------------------------------------
(* BrowserSync: what a flush sends of a collection is what the browser holds, or the collection is   *)
(* queued again; a flush that is a closed page's carries nothing of a collection nothing crossed.    *)

Flight == [mine: BOOLEAN, out: SUBSET Collections, failed: SUBSET Collections, value: [Collections -> Nat]]
SyncTyped ==
  /\ local \in [Collections -> Nat] /\ server \in [Collections -> Nat] /\ heard \in [Collections -> Nat]
  /\ edits \in Nat /\ pending \in SUBSET Collections /\ spoiled \in SUBSET Collections
  /\ flight \in [Pushes -> Flight]

Flies(fl, k) == \E f \in Pushes : fl[f].mine /\ k \in fl[f].out \cup fl[f].failed
Carried(k, sent, wait, fl) == local[k] = sent[k] \/ k \in wait \/ Flies(fl, k)
SentAsHeld(k, l, wait, fl) == \A f \in Pushes : k \in fl[f].out => fl[f].value[k] = l[k] \/ k \in wait
OwnOnly(k, fl) == \A f \in Pushes : ~fl[f].mine => k \notin fl[f].out \cup fl[f].failed
Timed == pending # {} => debounce \/ retry

Kept(k) == Carried(k, server, pending, flight) /\ SentAsHeld(k, local, pending, flight) /\ OwnOnly(k, flight)
SyncInv == SyncTyped /\ Timed /\ \A k \in Collections \ spoiled : Kept(k)

LEMMA NoFlightTyped == Sync!NoFlight \in Flight /\ Sync!NoFlight.out = {} /\ Sync!NoFlight.failed = {}
BY DEF Sync!NoFlight, Flight, Sync!Empty

LEMMA EditKeeps == ASSUME SyncInv, NEW k \in Collections, Sync!Edit(k) PROVE SyncInv'
<1>1. /\ local' = [local EXCEPT ![k] = edits + 1] /\ edits' = edits + 1 /\ UNCHANGED <<server, heard, flight, retry>>
      /\ \/ spoiled' = spoiled \cup {k} /\ UNCHANGED <<pending, debounce>>
         \/ pending' = pending \cup {k} /\ debounce' = TRUE /\ spoiled' = spoiled
  BY DEF Sync!Edit
<1>2. SyncTyped'
  BY <1>1 DEF SyncInv, SyncTyped
<1>3. Timed'
  BY <1>1 DEF SyncInv, Timed
<1>4. ASSUME NEW j \in Collections \ spoiled' PROVE Kept(j)'
  <2>1. j \in Collections \ spoiled /\ Kept(j) /\ pending \subseteq pending' /\ (j = k => k \in pending')
    BY <1>1, <1>4 DEF SyncInv
  <2>2. j # k => local'[j] = local[j]
    BY <1>1 DEF SyncInv, SyncTyped
  <2>3. Carried(j, server, pending, flight)'
    BY <1>1, <2>1, <2>2 DEF Kept, Carried, Flies
  <2>4. SentAsHeld(j, local, pending, flight)'
    BY <1>1, <2>1, <2>2 DEF Kept, SentAsHeld
  <2>5. OwnOnly(j, flight)'
    BY <1>1, <2>1 DEF Kept, OwnOnly
  <2>6. QED
    BY <2>3, <2>4, <2>5 DEF Kept
<1>5. QED
  BY <1>2, <1>3, <1>4 DEF SyncInv

(* What was queued is sent as the browser holds it. *)
LEMMA FlushKeeps == ASSUME SyncInv, Sync!Flush PROVE SyncInv'
<1>1. /\ pending' = {} /\ UNCHANGED <<local, server, heard, edits>>
      /\ spoiled' = spoiled \cup {k \in pending : \E f \in Pushes : k \in flight[f].out}
  BY DEF Sync!Flush
<1>2. Timed'
  BY <1>1 DEF Timed
<1>3. CASE pending = {}
  <2>1. flight' = flight /\ pending' = pending /\ spoiled' = spoiled
    BY <1>1, <1>3 DEF Sync!Flush
  <2>2. SyncTyped'
    BY <1>1, <2>1 DEF SyncInv, SyncTyped
  <2>3. ASSUME NEW k \in Collections \ spoiled' PROVE Kept(k)'
    BY <1>1, <2>1, <2>3 DEF SyncInv, Kept, Carried, Flies, SentAsHeld, OwnOnly
  <2>4. QED
    BY <1>2, <2>2, <2>3 DEF SyncInv
<1>4. CASE pending # {}
  <2>1. PICK f \in Pushes :
          flight[f] = Sync!NoFlight /\ flight' = [flight EXCEPT ![f] = [mine |-> TRUE, out |-> pending, failed |-> {}, value |-> local]]
    BY <1>4 DEF Sync!Flush
  <2>2. PICK new \in Flight : new.mine /\ new.out = pending /\ new.failed = {} /\ new.value = local /\ flight' = [flight EXCEPT ![f] = new]
    <3>1. [mine |-> TRUE, out |-> pending, failed |-> {}, value |-> local] \in Flight
      BY DEF Flight, SyncInv, SyncTyped
    <3>2. QED
      BY <2>1, <3>1
  <2>3. /\ flight' \in [Pushes -> Flight] /\ flight'[f] = new /\ \A g \in Pushes : g # f => flight'[g] = flight[g]
        /\ flight[f].out = {} /\ flight[f].failed = {}
    BY <2>1, <2>2, NoFlightTyped DEF SyncInv, SyncTyped
  <2>4. SyncTyped'
    BY <1>1, <2>3 DEF SyncInv, SyncTyped
  <2>5. ASSUME NEW k \in Collections \ spoiled' PROVE Kept(k)'
    <3>1. Kept(k) /\ (k \in pending => \A g \in Pushes : k \notin flight[g].out)
      BY <1>1, <2>5 DEF SyncInv
    <3>2. Carried(k, server, pending, flight)'
      <4>1. k \in pending \/ Flies(flight, k) => Flies(flight', k)
        BY <2>2, <2>3 DEF Flies
      <4>2. QED
        BY <1>1, <3>1, <4>1 DEF Kept, Carried
    <3>3. SentAsHeld(k, local, pending, flight)'
      BY <1>1, <2>2, <2>3, <3>1 DEF Kept, SentAsHeld
    <3>4. OwnOnly(k, flight)'
      BY <2>2, <2>3, <3>1 DEF Kept, OwnOnly
    <3>5. QED
      BY <3>2, <3>3, <3>4 DEF Kept
  <2>6. QED
    BY <1>2, <2>4, <2>5 DEF SyncInv
<1>5. QED
  BY <1>3, <1>4

(* A push moves a collection out of what its flush sends, into what it could not send if it failed. *)
LEMMA PushKeeps == ASSUME SyncInv, NEW f \in Pushes, NEW k \in Collections, Sync!Push(f, k) PROVE SyncInv'
<1>1. /\ k \in flight[f].out /\ UNCHANGED <<local, pending, debounce, retry, heard, edits, spoiled>>
      /\ \/ server' = [server EXCEPT ![k] = flight[f].value[k]] /\ flight' = [flight EXCEPT ![f].out = @ \ {k}]
         \/ /\ server' = [server EXCEPT ![k] = flight[f].value[k]] \/ server' = server
            /\ flight' = [flight EXCEPT ![f].out = @ \ {k}, ![f].failed = @ \cup {k}]
  BY DEF Sync!Push, Sync!Reaches
<1>2. flight[f] \in Flight /\ flight \in [Pushes -> Flight] /\ server \in [Collections -> Nat]
  BY DEF SyncInv, SyncTyped
<1>3. PICK new \in Flight :
        /\ flight' = [flight EXCEPT ![f] = new] /\ new.mine = flight[f].mine /\ new.value = flight[f].value
        /\ new.out = flight[f].out \ {k}
        /\ \/ new.failed = flight[f].failed /\ server' = [server EXCEPT ![k] = flight[f].value[k]]
           \/ new.failed = flight[f].failed \cup {k} /\ server' \in {server, [server EXCEPT ![k] = flight[f].value[k]]}
  <2>1. CASE server' = [server EXCEPT ![k] = flight[f].value[k]] /\ flight' = [flight EXCEPT ![f].out = @ \ {k}]
    <3>1. flight' = [flight EXCEPT ![f] = [flight[f] EXCEPT !.out = flight[f].out \ {k}]]
      BY <1>2, <2>1
    <3>2. [flight[f] EXCEPT !.out = flight[f].out \ {k}] \in Flight
      BY <1>2 DEF Flight
    <3>3. LET w == [flight[f] EXCEPT !.out = flight[f].out \ {k}]
          IN w.mine = flight[f].mine /\ w.value = flight[f].value /\ w.out = flight[f].out \ {k} /\ w.failed = flight[f].failed
      BY <1>2 DEF Flight
    <3>4. QED
      BY <2>1, <3>1, <3>2, <3>3
  <2>2. CASE /\ server' = [server EXCEPT ![k] = flight[f].value[k]] \/ server' = server
             /\ flight' = [flight EXCEPT ![f].out = @ \ {k}, ![f].failed = @ \cup {k}]
    <3> DEFINE w == [flight[f] EXCEPT !.out = flight[f].out \ {k}, !.failed = flight[f].failed \cup {k}]
    <3>1. flight' = [flight EXCEPT ![f] = w]
      BY <1>2, <2>2 DEF Flight
    <3>2. w \in Flight
      BY <1>2 DEF Flight
    <3>3. w.mine = flight[f].mine /\ w.value = flight[f].value /\ w.out = flight[f].out \ {k} /\ w.failed = flight[f].failed \cup {k}
      BY <1>2 DEF Flight
    <3> HIDE DEF w
    <3>4. QED
      BY <2>2, <3>1, <3>2, <3>3
  <2>3. QED
    BY <1>1, <2>1, <2>2
<1>4. flight' \in [Pushes -> Flight] /\ flight'[f] = new /\ \A g \in Pushes : g # f => flight'[g] = flight[g]
  BY <1>2, <1>3
<1>5. server' \in [Collections -> Nat] /\ \A j \in Collections : j # k => server'[j] = server[j]
  <2>1. flight[f].value[k] \in Nat
    BY <1>2 DEF Flight
  <2>2. QED
    BY <1>2, <1>3, <2>1
<1>6. SyncTyped' /\ Timed'
  BY <1>1, <1>4, <1>5 DEF SyncInv, SyncTyped, Timed
<1>7. ASSUME NEW j \in Collections \ spoiled' PROVE Kept(j)'
  <2>1. Kept(j) /\ local' = local /\ pending' = pending
    BY <1>1, <1>7 DEF SyncInv
  <2>2. OwnOnly(j, flight')
    BY <1>1, <1>3, <1>4, <2>1 DEF Kept, OwnOnly
  <2>3. SentAsHeld(j, local, pending, flight')
    BY <1>3, <1>4, <2>1 DEF Kept, SentAsHeld
  <2>4. Carried(j, server', pending, flight')
    <3>1. CASE j # k
      <4>1. Flies(flight, j) => Flies(flight', j)
        BY <1>3, <1>4, <3>1 DEF Flies
      <4>2. QED
        BY <1>5, <2>1, <3>1, <4>1 DEF Kept, Carried
    <3>2. CASE j = k /\ new.failed = flight[f].failed /\ server' = [server EXCEPT ![k] = flight[f].value[k]]
      <4>1. server'[k] = flight[f].value[k]
        BY <1>2, <3>2
      <4>2. QED
        BY <1>1, <2>1, <3>2, <4>1 DEF Kept, SentAsHeld, Carried
    <3>3. CASE j = k /\ new.failed = flight[f].failed \cup {k}
      <4>1. flight[f].mine
        BY <1>1, <2>1, <3>3 DEF Kept, OwnOnly
      <4>2. Flies(flight', k)
        BY <1>3, <1>4, <3>3, <4>1 DEF Flies
      <4>3. QED
        BY <3>3, <4>2 DEF Carried
    <3>4. QED
      BY <1>3, <3>1, <3>2, <3>3
  <2>5. Carried(j, server, pending, flight)'
    BY <2>1, <2>4 DEF Carried
  <2>6. QED
    BY <2>1, <2>2, <2>3, <2>5 DEF Kept
<1>8. QED
  BY <1>6, <1>7 DEF SyncInv

(* What failed is queued again with a timer set. *)
LEMMA FlushEndsKeeps == ASSUME SyncInv, NEW f \in Pushes, Sync!FlushEnds(f) PROVE SyncInv'
<1>1. /\ flight[f].out = {} /\ flight' = [flight EXCEPT ![f] = Sync!NoFlight]
      /\ IF flight[f].mine /\ flight[f].failed # {} THEN pending' = pending \cup flight[f].failed /\ retry' = TRUE
         ELSE UNCHANGED <<pending, retry>>
      /\ UNCHANGED <<local, server, debounce, heard, edits, spoiled>>
  BY DEF Sync!FlushEnds, Sync!Requeued
<1>2. flight \in [Pushes -> Flight] /\ flight[f] \in Flight
  BY DEF SyncInv, SyncTyped
<1>3. flight' \in [Pushes -> Flight] /\ flight'[f] = Sync!NoFlight /\ \A g \in Pushes : g # f => flight'[g] = flight[g]
  BY <1>1, <1>2, NoFlightTyped
<1>4. pending' \in SUBSET Collections /\ pending \subseteq pending' /\ (flight[f].mine => flight[f].failed \subseteq pending')
  BY <1>1, <1>2 DEF SyncInv, SyncTyped, Flight
<1>5. SyncTyped'
  BY <1>1, <1>3, <1>4 DEF SyncInv, SyncTyped
<1>6. Timed'
  BY <1>1 DEF SyncInv, Timed
<1>7. ASSUME NEW k \in Collections \ spoiled' PROVE Kept(k)'
  <2>1. Kept(k) /\ local' = local /\ server' = server
    BY <1>1, <1>7 DEF SyncInv
  <2>2. Carried(k, server, pending, flight)'
    <3>1. ASSUME NEW g \in Pushes, flight[g].mine, k \in flight[g].out \cup flight[g].failed
          PROVE  k \in pending' \/ Flies(flight', k)
      BY <1>1, <1>3, <1>4, <3>1 DEF Flies
    <3>2. Flies(flight, k) => k \in pending' \/ Flies(flight', k)
      BY <3>1 DEF Flies
    <3>3. QED
      BY <1>4, <2>1, <3>2 DEF Kept, Carried
  <2>3. SentAsHeld(k, local, pending, flight)'
    BY <1>3, <1>4, <2>1, NoFlightTyped DEF Kept, SentAsHeld
  <2>4. OwnOnly(k, flight)'
    BY <1>3, <2>1, NoFlightTyped DEF Kept, OwnOnly
  <2>5. QED
    BY <2>2, <2>3, <2>4 DEF Kept
<1>8. QED
  BY <1>5, <1>6, <1>7 DEF SyncInv

(* The migration and the pull leave the queue and the flushes as they are. *)
LEMMA HeardKeeps ==
  ASSUME SyncInv, UNCHANGED <<pending, debounce, retry, flight, edits>>, heard' \in [Collections -> Nat],
         local' \in [Collections -> Nat], server' \in [Collections -> Nat], spoiled \subseteq spoiled', spoiled' \subseteq Collections,
         \A k \in Collections \ spoiled' : \/ local'[k] = local[k] /\ server'[k] \in {server[k], local[k]}
                                           \/ local'[k] = server'[k] /\ k \notin Sync!Unsaved
  PROVE  SyncInv'
<1>1. SyncTyped' /\ Timed'
  BY DEF SyncInv, SyncTyped, Timed
<1>2. ASSUME NEW k \in Collections \ spoiled' PROVE Kept(k)'
  <2>1. Kept(k) /\ flight' = flight /\ pending' = pending
    BY <1>2 DEF SyncInv
  <2>2. CASE local'[k] = local[k] /\ server'[k] \in {server[k], local[k]}
    BY <2>1, <2>2 DEF Kept, Carried, Flies, SentAsHeld, OwnOnly
  <2>3. CASE local'[k] = server'[k] /\ k \notin Sync!Unsaved
    <3>1. \A f \in Pushes : k \notin flight[f].out
      BY <2>3 DEF Sync!Unsaved, Sync!Flown
    <3>2. QED
      BY <2>1, <2>3, <3>1 DEF Kept, Carried, SentAsHeld, OwnOnly
  <2>4. QED
    BY <1>2, <2>2, <2>3
<1>3. QED
  BY <1>1, <1>2 DEF SyncInv

LEMMA MigrateKeeps == ASSUME SyncInv, Sync!Migrate PROVE SyncInv'
<1>1. /\ server' = Sync!Merged \/ server' = server
      /\ spoiled' = spoiled \cup {k \in Collections : heard[k] # 0 /\ heard[k] # local[k]}
      /\ UNCHANGED <<local, pending, debounce, retry, flight, heard, edits>>
  BY DEF Sync!Migrate
<1>2. local \in [Collections -> Nat] /\ server \in [Collections -> Nat] /\ heard \in [Collections -> Nat] /\ spoiled \subseteq Collections
  BY DEF SyncInv, SyncTyped
<1>3. server' \in [Collections -> Nat]
  BY <1>1, <1>2 DEF Sync!Merged
<1>4. ASSUME NEW k \in Collections \ spoiled' PROVE server'[k] \in {server[k], local[k]}
  BY <1>1, <1>4 DEF Sync!Merged
<1>5. QED
  BY <1>1, <1>2, <1>3, <1>4, HeardKeeps

LEMMA PullLandsKeeps == ASSUME SyncInv, Sync!PullLands PROVE SyncInv'
<1>1. /\ local' = [k \in Collections |-> IF heard[k] = 0 THEN local[k] ELSE heard[k]]
      /\ spoiled' = spoiled \cup {k \in Collections : heard[k] # 0 /\ (heard[k] # server[k] \/ k \in Sync!Unsaved)}
      /\ UNCHANGED <<server, pending, debounce, retry, flight, heard, edits>>
  BY DEF Sync!PullLands
<1>2. local \in [Collections -> Nat] /\ server \in [Collections -> Nat] /\ heard \in [Collections -> Nat] /\ spoiled \subseteq Collections
  BY DEF SyncInv, SyncTyped
<1>3. local' \in [Collections -> Nat]
  BY <1>1, <1>2
<1>4. ASSUME NEW k \in Collections \ spoiled'
      PROVE  local'[k] = local[k] \/ (local'[k] = server'[k] /\ k \notin Sync!Unsaved)
  BY <1>1, <1>4
<1>5. QED
  BY <1>1, <1>2, <1>3, <1>4, HeardKeeps

LEMMA CloseKeeps == ASSUME SyncInv, Sync!Close PROVE SyncInv'
<1>1. /\ pending' = {} /\ flight' = [f \in Pushes |-> [flight[f] EXCEPT !.mine = FALSE]]
      /\ spoiled' = spoiled \cup Sync!Unsaved /\ UNCHANGED <<local, server, heard, edits>>
  BY DEF Sync!Close
<1>2. flight \in [Pushes -> Flight]
  BY DEF SyncInv, SyncTyped
<1>3. ASSUME NEW f \in Pushes
      PROVE  flight'[f] \in Flight /\ flight'[f].out = flight[f].out /\ flight'[f].failed = flight[f].failed
  <2>1. flight'[f] = [flight[f] EXCEPT !.mine = FALSE] /\ flight[f] \in Flight
    BY <1>1, <1>2
  <2>2. QED
    BY <2>1 DEF Flight
<1>4. flight' \in [Pushes -> Flight]
  BY <1>1, <1>3
<1>5. Sync!Unsaved \subseteq Collections
  BY <1>2 DEF Sync!Unsaved, Sync!Flown, SyncInv, SyncTyped, Flight
<1>6. SyncTyped' /\ Timed'
  BY <1>1, <1>4, <1>5 DEF SyncInv, SyncTyped, Timed
<1>7. ASSUME NEW k \in Collections \ spoiled' PROVE Kept(k)'
  <2>1. Kept(k) /\ k \notin pending /\ \A f \in Pushes : k \notin flight[f].out /\ k \notin flight[f].failed
    BY <1>1, <1>7 DEF SyncInv, Sync!Unsaved, Sync!Flown
  <2>2. local[k] = server[k]
    BY <2>1 DEF Kept, Carried, Flies
  <2>3. \A f \in Pushes : k \notin flight'[f].out /\ k \notin flight'[f].failed
    BY <1>3, <2>1
  <2>4. QED
    BY <1>1, <2>2, <2>3 DEF Kept, Carried, SentAsHeld, OwnOnly
<1>8. QED
  BY <1>6, <1>7 DEF SyncInv

LEMMA SyncStep == ASSUME SyncInv, Sync!Next PROVE SyncInv'
<1>1. CASE Sync!DebounceFires \/ Sync!RetryFires
  BY <1>1, FlushKeeps DEF Sync!DebounceFires, Sync!RetryFires
<1>2. ASSUME NEW f \in Pushes, Sync!FlushEnds(f) \/ \E k \in Collections : Sync!Push(f, k) PROVE SyncInv'
  BY <1>2, PushKeeps, FlushEndsKeeps
<1>3. CASE Sync!Open \/ Sync!PullRead \/ Sync!PullFails \/ Sync!Discover
  <2>1. UNCHANGED <<local, server, spoiled, pending, debounce, retry, flight, edits>> /\ heard' \in {heard, server, local}
    BY <1>3 DEF Sync!Open, Sync!PullRead, Sync!PullFails, Sync!Discover
  <2>2. /\ heard' \in [Collections -> Nat] /\ local' \in [Collections -> Nat] /\ server' \in [Collections -> Nat]
        /\ spoiled' \subseteq Collections
    BY <2>1 DEF SyncInv, SyncTyped
  <2>3. QED
    BY <2>1, <2>2, HeardKeeps
<1>4. QED
  BY <1>1, <1>2, <1>3, EditKeeps, MigrateKeeps, PullLandsKeeps, CloseKeeps DEF Sync!Next

LEMMA SyncBegins == ASSUME Sync!Init PROVE SyncInv
<1>1. SyncTyped
  BY NoFlightTyped DEF Sync!Init, SyncTyped, Sync!Empty
<1>2. pending = {} /\ local = server /\ \A f \in Pushes : flight[f].out = {} /\ flight[f].failed = {}
  BY NoFlightTyped DEF Sync!Init
<1>3. QED
  BY <1>1, <1>2 DEF SyncInv, Timed, Kept, Carried, SentAsHeld, OwnOnly

(* An edit the server lacks is on its way there, where no pull, no closing page and no second push of *)
(* its collection crossed it (hooks/use-storage-sync.ts).                                             *)
THEOREM NothingForgottenHolds == PartsSpec => []NothingForgotten
<1>1. PartsInit => SyncInv
  BY EachPartBegins, SyncBegins
<1>2. SyncInv /\ [PartsNext]_vars => SyncInv'
  <2>1. ASSUME SyncInv, UNCHANGED syncVars PROVE SyncInv'
    <3>1. UNCHANGED <<local, server, heard, edits, spoiled, pending, debounce, retry, flight>>
      BY <2>1 DEF syncVars
    <3>2. /\ heard' \in [Collections -> Nat] /\ local' \in [Collections -> Nat] /\ server' \in [Collections -> Nat]
          /\ spoiled' \subseteq Collections
      BY <2>1, <3>1 DEF SyncInv, SyncTyped
    <3>3. QED
      BY <2>1, <3>1, <3>2, HeardKeeps
  <2>2. QED
    BY <2>1, EachPartSteps, SyncStep
<1>3. SyncInv => NothingForgotten
  BY DEF SyncInv, Kept, Carried, Flies, Timed, NothingForgotten, Sync!NothingForgotten, Sync!Flown
<1>4. QED
  BY <1>1, <1>2, <1>3, PTL DEF PartsSpec

-----------------------------------------------------------------------------
(* ProviderCache: while no task crossed another, what is cached is open and was opened under its key, *)
(* and tasks that run together are acquisitions of different keys through a tunnel that stood.        *)

CacheTyped ==
  /\ pool \in [Pools -> Providers!Pool] /\ cached \in [Providers!Keys -> Pools \cup {NULL}]
  /\ active \in Tunnels \cup {NULL} /\ open \in SUBSET Tunnels /\ task \in [Tasks -> Providers!Task]
PoolsFit ==
  /\ \A k \in Providers!Keys : cached[k] # NULL => pool[cached[k]].state = "open" /\ pool[cached[k]].key = k
  /\ \A p \in Pools : pool[p].state = "open" => pool[p].key \in Providers!Keys /\ cached[pool[p].key] = p
  /\ \A k \in Providers!Keys \ Providers!Labelled : cached[k] # NULL => pool[cached[k]].tunnel = active /\ active \in open
  /\ open \subseteq {active}

Acquiring == {"tunneling", "between", "connecting"}
Closing == {"replacing", "evicting"}
Removing == {"removing", "removingProfiled"}

OfCached(w) == w.key \in Providers!Keys /\ w.pool \in Pools /\ cached[w.key] = w.pool
OpeningFor(w) ==
  /\ w.pool \in Pools /\ pool[w.pool].state = "opening" /\ pool[w.pool].key = w.key
  /\ pool[w.pool].tunnel = active /\ active # NULL
NoneCached(keys) == \A k \in keys : cached[k] = NULL

TaskFits(w) ==
  /\ w.preexisted => w.phase = "connecting"
  /\ w.phase \in Closing => OfCached(w)
  /\ w.phase \in Removing /\ w.pool # NULL => OfCached(w)
  /\ w.phase \in Acquiring => w.key \in Providers!Keys /\ cached[w.key] = NULL
  /\ w.phase = "tunneling" => active = NULL
  /\ w.phase = "connecting" => OpeningFor(w)
  /\ w.phase = "connecting" /\ ~w.preexisted => NoneCached(Providers!Keys \ Providers!Labelled)
  /\ w.phase = "removingProfiled" => NoneCached(Providers!Keys \ Providers!Profiled)

Light(w) == w.phase \in {"replacing", "between", "connecting"} /\ (w.phase = "connecting" => w.preexisted)
Beside == \A t, u \in Tasks : t # u /\ Providers!Busy(t) /\ Providers!Busy(u) =>
            Light(task[t]) /\ active # NULL /\ task[t].key # task[u].key

CacheInv == ~crossed => CacheTyped /\ PoolsFit /\ Beside /\ \A t \in Tasks : TaskFits(task[t])

LEMMA TurnKeeps ==
  ASSUME CacheTyped, Beside, \A t \in Tasks : TaskFits(task[t]), NEW t \in Tasks, NEW w \in Providers!Task, task' = [task EXCEPT ![t] = w],
         pool' \in [Pools -> Providers!Pool], cached' \in [Providers!Keys -> Pools \cup {NULL}],
         active' \in Tunnels \cup {NULL}, open' \in SUBSET Tunnels,
         PoolsFit', TaskFits(w)',
         \A u \in Tasks : u # t /\ Providers!Busy(u) =>
           /\ active' = active /\ active # NULL /\ Light(task[u])
           /\ w.phase = "none" \/ (Light(w) /\ w.key # task[u].key)
           /\ cached'[task[u].key] = cached[task[u].key]
           /\ task[u].phase = "connecting" => pool'[task[u].pool] = pool[task[u].pool]
  PROVE  CacheInv'
<1>1. task' \in [Tasks -> Providers!Task] /\ task'[t] = w /\ \A u \in Tasks : u # t => task'[u] = task[u]
  BY DEF CacheTyped
<1>2. CacheTyped'
  BY <1>1 DEF CacheTyped
<1>3. Beside'
  BY <1>1 DEF Beside, Providers!Busy
<1>4. ASSUME NEW u \in Tasks, u # t PROVE TaskFits(task[u])'
  <2>1. TaskFits(task[u]) /\ task'[u] = task[u]
    BY <1>1, <1>4
  <2>2. CASE ~Providers!Busy(u)
    BY <2>1, <2>2 DEF TaskFits, Providers!Busy, Closing, Removing, Acquiring
  <2>3. CASE Providers!Busy(u)
    <3>1. /\ active' = active /\ Light(task[u]) /\ cached'[task[u].key] = cached[task[u].key]
          /\ task[u].phase = "connecting" => pool'[task[u].pool] = pool[task[u].pool]
      BY <1>4, <2>3
    <3>2. QED
      BY <2>1, <3>1 DEF TaskFits, Light, OfCached, OpeningFor, Closing, Removing, Acquiring
  <2>4. QED
    BY <2>2, <2>3
<1>5. QED
  BY <1>1, <1>2, <1>3, <1>4 DEF CacheInv

LEMMA NoTaskFits == Providers!NoTask \in Providers!Task /\ Providers!NoTask.phase = "none" /\ TaskFits(Providers!NoTask)'
BY DEF Providers!NoTask, Providers!Task, TaskFits, Closing, Removing, Acquiring

LEMMA NoPoolClosed == Providers!NoPool \in Providers!Pool /\ Providers!NoPool.state = "closed"
BY DEF Providers!NoPool, Providers!Pool

(* A task of its own kind, at a key. *)
LEMMA TaskOf ==
  ASSUME NEW phase \in {"replacing", "tunneling", "between", "evicting", "removing", "removingProfiled"},
         NEW k \in Providers!Keys \cup {NULL}, NEW p \in Pools \cup {NULL}
  PROVE  /\ LET w == [Providers!NoTask EXCEPT !.phase = phase, !.key = k, !.pool = p]
            IN w \in Providers!Task /\ w.phase = phase /\ w.key = k /\ w.pool = p /\ ~w.preexisted
         /\ LET w == [Providers!NoTask EXCEPT !.phase = phase, !.key = k]
            IN w \in Providers!Task /\ w.phase = phase /\ w.key = k /\ w.pool = NULL /\ ~w.preexisted
         /\ LET w == [Providers!NoTask EXCEPT !.phase = phase]
            IN w \in Providers!Task /\ w.phase = phase /\ w.pool = NULL /\ ~w.preexisted
BY DEF Providers!NoTask, Providers!Task

(* Tasks that were under way when another began and crossed nothing. *)
LEMMA MeetsApart ==
  ASSUME ~crossed, CacheTyped, Beside, \A u \in Tasks : TaskFits(task[u]), NEW t \in Tasks, NEW k, ~Providers!Busy(t), Providers!Meets(t, k), ~crossed',
         NEW u \in Tasks, u # t, Providers!Busy(u)
  PROVE  active # NULL /\ Light(task[u]) /\ k # task[u].key
<1>1. task[u].preexisted /\ task[u].key # k /\ active # NULL
  BY DEF Providers!Meets, Providers!Others
<1>2. QED
  BY <1>1 DEF TaskFits, Light

(* Nobody crosses a task that evicts, removes, or opens a tunnel. *)
LEMMA Alone ==
  ASSUME Beside, NEW t \in Tasks, Providers!Busy(t), ~Light(task[t]), NEW u \in Tasks, u # t
  PROVE  ~Providers!Busy(u)
BY DEF Beside

-----------------------------------------------------------------------------
(* A task that changes nothing but itself. *)
LEMMA OnlyTask ==
  ASSUME ~crossed, CacheInv, NEW t \in Tasks, NEW w \in Providers!Task, task' = [task EXCEPT ![t] = w],
         UNCHANGED <<pool, cached, active, open>>, TaskFits(w)',
         \A u \in Tasks : u # t /\ Providers!Busy(u) =>
           active # NULL /\ Light(task[u]) /\ (w.phase = "none" \/ (Light(w) /\ w.key # task[u].key))
  PROVE  CacheInv'
<1>1. CacheTyped /\ PoolsFit /\ Beside /\ \A u \in Tasks : TaskFits(task[u])
  BY DEF CacheInv
<1>2. PoolsFit'
  BY <1>1 DEF PoolsFit
<1>3. /\ pool' \in [Pools -> Providers!Pool] /\ cached' \in [Providers!Keys -> Pools \cup {NULL}]
      /\ active' \in Tunnels \cup {NULL} /\ open' \in SUBSET Tunnels
  BY <1>1 DEF CacheTyped
<1>4. QED
  BY <1>1, <1>2, <1>3, TurnKeeps

LEMMA ReplaceKeeps == ASSUME PoolsNamed, ~crossed, CacheInv, NEW t \in Tasks, NEW k \in Providers!Keys, Providers!Replace(t, k) PROVE CacheInv'
<1>0. SUFFICES ASSUME ~crossed' PROVE CacheInv'
  BY DEF CacheInv
<1>1. CacheTyped /\ PoolsFit /\ Beside /\ \A u \in Tasks : TaskFits(task[u])
  BY DEF CacheInv
<1>2. cached[k] \in Pools
  BY <1>1 DEF Providers!Replace, CacheTyped
<1>3. PICK w \in Providers!Task : /\ task' = [task EXCEPT ![t] = w] /\ w.phase = "replacing" /\ w.key = k
                                  /\ w.pool = cached[k] /\ ~w.preexisted
  <2> DEFINE v == [Providers!NoTask EXCEPT !.phase = "replacing", !.key = k, !.pool = cached[k]]
  <2>1. v \in Providers!Task /\ v.phase = "replacing" /\ v.key = k /\ v.pool = cached[k] /\ ~v.preexisted
    BY <1>2 DEF Providers!NoTask, Providers!Task
  <2>2. task' = [task EXCEPT ![t] = v]
    BY DEF Providers!Replace, Providers!Sets
  <2> HIDE DEF v
  <2>3. QED
    BY <2>1, <2>2
<1>4. UNCHANGED <<pool, cached, active, open>> /\ ~Providers!Busy(t) /\ Providers!Meets(t, k)
  BY DEF Providers!Replace
<1>5. TaskFits(w)'
  BY <1>2, <1>3, <1>4 DEF TaskFits, OfCached, Closing, Removing, Acquiring
<1>6. \A u \in Tasks : u # t /\ Providers!Busy(u) => active # NULL /\ Light(task[u]) /\ k # task[u].key
  BY <1>0, <1>1, <1>4, MeetsApart
<1>7. Light(w)
  BY <1>3 DEF Light
<1>8. QED
  BY <1>3, <1>4, <1>5, <1>6, <1>7, OnlyTask

LEMMA IntrudesKeeps ==
  ASSUME PoolsNamed, ~crossed, CacheInv, NEW t \in Tasks,
         Providers!Remove(t) \/ \E k \in Providers!Keys : Providers!Evict(t, k)
  PROVE  CacheInv'
<1>0. SUFFICES ASSUME ~crossed' PROVE CacheInv'
  BY DEF CacheInv
<1>1. CacheTyped /\ PoolsFit /\ Beside /\ \A u \in Tasks : TaskFits(task[u])
  BY DEF CacheInv
<1>2. UNCHANGED <<pool, cached, active, open>> /\ \A u \in Tasks : u # t => ~Providers!Busy(u)
  BY <1>0 DEF Providers!Remove, Providers!Evict, Providers!Intrudes, Providers!Others
<1>3. CASE Providers!Remove(t)
  <2>1. PICK w \in Providers!Task : task' = [task EXCEPT ![t] = w] /\ w.phase = "removing" /\ w.pool = NULL /\ ~w.preexisted
    <3> DEFINE v == [Providers!NoTask EXCEPT !.phase = "removing"]
    <3>1. v \in Providers!Task /\ v.phase = "removing" /\ v.pool = NULL /\ ~v.preexisted
      BY DEF Providers!NoTask, Providers!Task
    <3>2. task' = [task EXCEPT ![t] = v]
      BY <1>3 DEF Providers!Remove, Providers!Sets
    <3>3. QED
      BY <3>1, <3>2
  <2>2. w.phase \notin Closing /\ w.phase \notin Acquiring
        /\ w.phase \notin {"tunneling", "connecting", "removingProfiled"}
    BY <2>1 DEF Closing, Acquiring
  <2>3. TaskFits(w)'
    BY <2>1, <2>2 DEF TaskFits
  <2>4. QED
    BY <1>2, <2>1, <2>3, OnlyTask
<1>4. ASSUME NEW k \in Providers!Keys, Providers!Evict(t, k) PROVE CacheInv'
  <2>1. cached[k] \in Pools
    BY <1>1, <1>4 DEF Providers!Evict, CacheTyped
  <2>2. PICK w \in Providers!Task : /\ task' = [task EXCEPT ![t] = w] /\ w.phase = "evicting" /\ w.key = k
                                    /\ w.pool = cached[k] /\ ~w.preexisted
    <3> DEFINE v == [Providers!NoTask EXCEPT !.phase = "evicting", !.key = k, !.pool = cached[k]]
    <3>1. v \in Providers!Task /\ v.phase = "evicting" /\ v.key = k /\ v.pool = cached[k] /\ ~v.preexisted
      BY <2>1 DEF Providers!NoTask, Providers!Task
    <3>2. task' = [task EXCEPT ![t] = v]
      BY <1>4 DEF Providers!Evict, Providers!Sets
    <3> HIDE DEF v
    <3>3. QED
      BY <3>1, <3>2
  <2>3. TaskFits(w)'
    BY <1>2, <2>1, <2>2 DEF TaskFits, OfCached, Closing, Removing, Acquiring
  <2>4. QED
    BY <1>2, <2>2, <2>3, OnlyTask
<1>5. QED
  BY <1>3, <1>4

LEMMA RefusedKeeps == ASSUME PoolsNamed, ~crossed, CacheInv, NEW t \in Tasks, Providers!TunnelRefused(t) PROVE CacheInv'
<1>1. CacheTyped /\ PoolsFit /\ Beside /\ \A u \in Tasks : TaskFits(task[u])
  BY DEF CacheInv
<1>2. task[t].phase = "tunneling" /\ task' = [task EXCEPT ![t] = Providers!NoTask] /\ UNCHANGED <<pool, cached, active, open>>
  BY DEF Providers!TunnelRefused, Providers!Ends, Providers!Sets
<1>3. \A u \in Tasks : u # t => ~Providers!Busy(u)
  BY <1>1, <1>2, Alone DEF Light, Providers!Busy
<1>4. QED
  BY <1>2, <1>3, NoTaskFits, OnlyTask

(* A task closes the pool that was cached under its key. *)
LEMMA ClosesPool ==
  ASSUME PoolsNamed, CacheTyped, PoolsFit, NEW k \in Providers!Keys, cached[k] \in Pools,
         pool' = [pool EXCEPT ![cached[k]] = Providers!NoPool], cached' = [cached EXCEPT ![k] = NULL],
         \/ active' = active /\ open' = open
         \/ active' = NULL /\ open' = {} /\ \A j \in Providers!Keys \ Providers!Labelled : cached'[j] = NULL
  PROVE  /\ pool' \in [Pools -> Providers!Pool] /\ cached' \in [Providers!Keys -> Pools \cup {NULL}]
         /\ active' \in Tunnels \cup {NULL} /\ open' \in SUBSET Tunnels /\ PoolsFit'
<1>1. /\ pool' \in [Pools -> Providers!Pool] /\ cached' \in [Providers!Keys -> Pools \cup {NULL}]
      /\ active' \in Tunnels \cup {NULL} /\ open' \in SUBSET Tunnels
  BY NoPoolClosed DEF CacheTyped
<1>2. PICK q \in Pools : q = cached[k]
  OBVIOUS
<1>3. /\ \A p \in Pools : p # q => pool'[p] = pool[p]
      /\ pool'[q].state = "closed"
      /\ cached'[k] = NULL /\ \A j \in Providers!Keys : j # k => cached'[j] = cached[j]
  BY <1>2, NoPoolClosed DEF CacheTyped
<1>4. q # NULL /\ pool[q].state = "open" /\ pool[q].key = k
  BY <1>2 DEF PoolsFit, PoolsNamed
<1>5. \A j \in Providers!Keys : cached'[j] # NULL => j # k /\ cached'[j] # q /\ cached'[j] \in Pools
  BY <1>1, <1>3, <1>4 DEF PoolsFit
<1>6. \A j \in Providers!Keys : cached'[j] # NULL => pool'[cached'[j]].state = "open" /\ pool'[cached'[j]].key = j
  BY <1>3, <1>5 DEF PoolsFit
<1>7. \A p \in Pools : pool'[p].state = "open" => pool'[p].key \in Providers!Keys /\ cached'[pool'[p].key] = p
  <2>1. ASSUME NEW p \in Pools, pool'[p].state = "open" PROVE pool'[p].key \in Providers!Keys /\ cached'[pool'[p].key] = p
    <3>1. p # q /\ pool'[p] = pool[p]
      BY <1>3, <2>1
    <3>2. pool[p].key # k
      BY <1>2, <2>1, <3>1 DEF PoolsFit
    <3>3. QED
      BY <1>3, <2>1, <3>1, <3>2 DEF PoolsFit
  <2>2. QED
    BY <2>1
<1>8. \A j \in Providers!Keys \ Providers!Labelled : cached'[j] # NULL => pool'[cached'[j]].tunnel = active' /\ active' \in open'
  <2>1. ASSUME NEW j \in Providers!Keys \ Providers!Labelled, cached'[j] # NULL
        PROVE  pool'[cached'[j]].tunnel = active' /\ active' \in open'
    <3>1. active' = active /\ open' = open
      BY <2>1
    <3>2. cached'[j] = cached[j] /\ pool'[cached'[j]] = pool[cached[j]]
      BY <1>3, <1>5, <2>1
    <3>3. QED
      BY <2>1, <3>1, <3>2 DEF PoolsFit
  <2>2. QED
    BY <2>1
<1>9. open' \subseteq {active'}
  BY DEF PoolsFit
<1>10. QED
  BY <1>1, <1>6, <1>7, <1>8, <1>9 DEF PoolsFit

(* What others see of it: nothing, unless the task was alone. *)
LEMMA ClosedKeeps ==
  ASSUME PoolsNamed, ~crossed, CacheInv, NEW t \in Tasks, Providers!Busy(t), NEW k, k = task[t].key, OfCached(task[t]),
         pool' = [pool EXCEPT ![task[t].pool] = Providers!NoPool], cached' = [cached EXCEPT ![k] = NULL],
         NEW w \in Providers!Task, task' = [task EXCEPT ![t] = w], TaskFits(w)', w.phase = "none" \/ (Light(w) /\ w.key = k) \/ ~Light(task[t]),
         \/ active' = active /\ open' = open
         \/ /\ active' = NULL /\ open' = {} /\ ~Light(task[t])
            /\ \A j \in Providers!Keys \ Providers!Labelled : cached'[j] = NULL
  PROVE  CacheInv'
<1>1. CacheTyped /\ PoolsFit /\ Beside /\ \A u \in Tasks : TaskFits(task[u])
  BY DEF CacheInv
<1>2. k \in Providers!Keys /\ cached[k] \in Pools /\ task[t].pool = cached[k]
  BY DEF OfCached
<1>3. /\ pool' \in [Pools -> Providers!Pool] /\ cached' \in [Providers!Keys -> Pools \cup {NULL}]
      /\ active' \in Tunnels \cup {NULL} /\ open' \in SUBSET Tunnels /\ PoolsFit'
  BY <1>1, <1>2, ClosesPool
<1>4. ASSUME NEW u \in Tasks, u # t, Providers!Busy(u)
      PROVE  /\ active' = active /\ active # NULL /\ Light(task[u])
             /\ w.phase = "none" \/ (Light(w) /\ w.key # task[u].key)
             /\ cached'[task[u].key] = cached[task[u].key]
             /\ task[u].phase = "connecting" => pool'[task[u].pool] = pool[task[u].pool]
  <2>1. Light(task[t]) /\ Light(task[u]) /\ active # NULL /\ task[u].key # k
    BY <1>1, <1>4 DEF Beside
  <2>2. active' = active /\ (w.phase = "none" \/ (Light(w) /\ w.key # task[u].key))
    BY <2>1
  <2>3. task[u].key \in Providers!Keys
    BY <1>1, <2>1 DEF TaskFits, Light, OfCached, Closing, Acquiring
  <2>4. cached'[task[u].key] = cached[task[u].key]
    BY <1>1, <2>1, <2>3 DEF CacheTyped
  <2>5. task[u].phase = "connecting" => pool'[task[u].pool] = pool[task[u].pool]
    <3>1. CASE task[u].phase = "connecting"
      <4>1. task[u].pool \in Pools /\ pool[task[u].pool].state = "opening"
        BY <1>1, <3>1 DEF TaskFits, OpeningFor
      <4>2. task[u].pool # cached[k]
        BY <1>1, <1>2, <4>1 DEF PoolsFit, PoolsNamed
      <4>3. QED
        BY <1>1, <1>2, <4>1, <4>2 DEF CacheTyped
    <3>2. QED
      BY <3>1
  <2>6. QED
    BY <2>1, <2>2, <2>4, <2>5
<1>5. QED
  BY <1>1, <1>3, <1>4, TurnKeeps

LEMMA ReplacedKeeps == ASSUME PoolsNamed, ~crossed, CacheInv, NEW t \in Tasks, Providers!Replaced(t) PROVE CacheInv'
<1>0. PICK k : k = task[t].key
  OBVIOUS
<1>1. /\ task[t].phase = "replacing" /\ pool' = [pool EXCEPT ![task[t].pool] = Providers!NoPool]
      /\ cached' = [cached EXCEPT ![k] = NULL] /\ active' = active /\ open' = open
  BY <1>0 DEF Providers!Replaced
<1>2. OfCached(task[t]) /\ Providers!Busy(t)
  BY <1>1 DEF CacheInv, TaskFits, Closing, Providers!Busy
<1>3. PICK w \in Providers!Task : task' = [task EXCEPT ![t] = w] /\ w.phase = "between" /\ w.key = k /\ ~w.preexisted
  <2> DEFINE v == [Providers!NoTask EXCEPT !.phase = "between", !.key = k]
  <2>1. v \in Providers!Task /\ v.phase = "between" /\ v.key = k /\ ~v.preexisted
    BY <1>0, <1>2 DEF OfCached, Providers!NoTask, Providers!Task
  <2>2. task' = [task EXCEPT ![t] = v]
    BY <1>0 DEF Providers!Replaced, Providers!Sets
  <2> HIDE DEF v
  <2>3. QED
    BY <2>1, <2>2
<1>4. TaskFits(w)' /\ Light(w)
  <2>1. cached'[k] = NULL
    BY <1>0, <1>1, <1>2 DEF CacheInv, CacheTyped, OfCached
  <2>2. QED
    BY <1>0, <1>2, <1>3, <2>1 DEF TaskFits, OfCached, Light, Closing, Removing, Acquiring
<1>5. QED
  BY <1>0, <1>1, <1>2, <1>3, <1>4, ClosedKeeps

(* An eviction closes the tunnel where neither the shared pool nor a profiled one is left. *)
LEMMA EvictedKeeps == ASSUME PoolsNamed, ~crossed, CacheInv, NEW t \in Tasks, Providers!Evicted(t) PROVE CacheInv'
<1>0. PICK k : k = task[t].key
  OBVIOUS
<1>1. /\ task[t].phase = "evicting" /\ pool' = [pool EXCEPT ![task[t].pool] = Providers!NoPool]
      /\ cached' = [cached EXCEPT ![k] = NULL] /\ task' = [task EXCEPT ![t] = Providers!NoTask]
      /\ IF k \in Providers!Labelled \/ Providers!StillServed(k, cached') THEN UNCHANGED <<open, active>> ELSE Providers!CloseSSHTunnel
  BY <1>0 DEF Providers!Evicted, Providers!Ends, Providers!Sets
<1>2. OfCached(task[t]) /\ Providers!Busy(t) /\ ~Light(task[t])
  BY <1>1 DEF CacheInv, TaskFits, Closing, Providers!Busy, Light
<1>3. CacheTyped /\ PoolsFit
  BY DEF CacheInv
<1>4. CASE k \in Providers!Labelled \/ Providers!StillServed(k, cached')
  BY <1>0, <1>1, <1>2, <1>4, NoTaskFits, ClosedKeeps
<1>5. CASE ~(k \in Providers!Labelled \/ Providers!StillServed(k, cached'))
  <2>1. active' = NULL /\ open' = {}
    BY <1>1, <1>3, <1>5 DEF Providers!CloseSSHTunnel, PoolsFit
  <2>2. \A j \in Providers!Keys \ Providers!Labelled : cached'[j] = NULL
    <3>1. k \in Providers!Keys /\ cached'[k] = NULL
      BY <1>0, <1>1, <1>2, <1>3 DEF OfCached, CacheTyped
    <3>2. QED
      BY <1>5, <3>1 DEF Providers!Keys, Providers!Labelled, Providers!Profiled, Providers!StillServed
  <2>3. QED
    BY <1>0, <1>1, <1>2, <2>1, <2>2, NoTaskFits, ClosedKeeps
<1>6. QED
  BY <1>4, <1>5

LEMMA RemovedKeeps == ASSUME PoolsNamed, ~crossed, CacheInv, NEW t \in Tasks, Providers!Removed(t) PROVE CacheInv'
<1>0. PICK k : k = task[t].key
  OBVIOUS
<1>1. /\ task[t].phase \in Removing /\ task[t].pool # NULL /\ pool' = [pool EXCEPT ![task[t].pool] = Providers!NoPool]
      /\ cached' = [cached EXCEPT ![k] = NULL] /\ active' = active /\ open' = open
  BY <1>0 DEF Providers!Removed, Removing
<1>2. OfCached(task[t]) /\ Providers!Busy(t) /\ ~Light(task[t]) /\ TaskFits(task[t]) /\ CacheTyped
  BY <1>1 DEF CacheInv, TaskFits, Removing, Providers!Busy, Light
<1>3. PICK w \in Providers!Task : task' = [task EXCEPT ![t] = w] /\ w.phase = task[t].phase /\ w.pool = NULL /\ ~w.preexisted
  <2> DEFINE v == [Providers!NoTask EXCEPT !.phase = task[t].phase]
  <2>1. v \in Providers!Task /\ v.phase = task[t].phase /\ v.pool = NULL /\ ~v.preexisted
    BY <1>1 DEF Removing, Providers!NoTask, Providers!Task
  <2>2. task' = [task EXCEPT ![t] = v]
    BY DEF Providers!Removed, Providers!Sets
  <2> HIDE DEF v
  <2>3. QED
    BY <2>1, <2>2
<1>4. TaskFits(w)'
  <2>1. \A j \in Providers!Keys : cached[j] = NULL => cached'[j] = NULL
    BY <1>1, <1>2 DEF CacheTyped
  <2>2. w.phase = "removingProfiled" => \A j \in Providers!Keys \ Providers!Profiled : cached'[j] = NULL
    BY <1>2, <1>3, <2>1 DEF TaskFits, NoneCached
  <2>3. QED
    BY <1>1, <1>3, <2>2 DEF TaskFits, NoneCached, Closing, Removing, Acquiring
<1>5. QED
  BY <1>0, <1>1, <1>2, <1>3, <1>4, ClosedKeeps

(* removeProvider: the next pool, then those of the other cache, then the tunnel. *)
LEMMA RemoveNextKeeps == ASSUME PoolsNamed, ~crossed, CacheInv, NEW t \in Tasks, Providers!RemoveNext(t) PROVE CacheInv'
<1>1. CacheTyped /\ PoolsFit /\ Beside /\ (\A u \in Tasks : TaskFits(task[u])) /\ UNCHANGED <<pool, cached>>
  BY DEF CacheInv, Providers!RemoveNext
<1>2. task[t].phase \in Removing /\ \A u \in Tasks : u # t => ~Providers!Busy(u)
  BY <1>1, Alone DEF Providers!RemoveNext, Removing, Light, Providers!Busy
<1>3. ASSUME NEW k \in Providers!Chosen(t), UNCHANGED <<open, active>>,
             Providers!Sets(t, [task[t] EXCEPT !.key = k, !.pool = cached[k]])
      PROVE  CacheInv'
  <2>1. k \in Providers!Keys /\ cached[k] \in Pools
    BY <1>1 DEF Providers!Chosen, CacheTyped
  <2>2. PICK w \in Providers!Task : /\ task' = [task EXCEPT ![t] = w] /\ w.phase = task[t].phase /\ w.key = k
                                    /\ w.pool = cached[k] /\ w.preexisted = task[t].preexisted
    <3> DEFINE v == [task[t] EXCEPT !.key = k, !.pool = cached[k]]
    <3>1. v \in Providers!Task /\ v.phase = task[t].phase /\ v.key = k /\ v.pool = cached[k] /\ v.preexisted = task[t].preexisted
      <4>1. task[t] \in Providers!Task
        BY <1>1 DEF CacheTyped
      <4>2. QED
        BY <2>1, <4>1 DEF Providers!Task
    <3>2. task' = [task EXCEPT ![t] = v]
      BY <1>3 DEF Providers!Sets
    <3> HIDE DEF v
    <3>3. QED
      BY <3>1, <3>2
  <2>4. TaskFits(w)'
    <3>1. TaskFits(task[t])
      BY <1>1
    <3>2. QED
      BY <1>1, <1>2, <2>1, <2>2, <3>1 DEF TaskFits, OfCached, NoneCached, Closing, Removing, Acquiring
  <2>5. QED
    BY <1>1, <1>2, <1>3, <2>2, <2>4, OnlyTask
<1>4. CASE Providers!Chosen(t) = {} /\ task[t].phase = "removing" /\ UNCHANGED <<open, active>>
           /\ Providers!Sets(t, [Providers!NoTask EXCEPT !.phase = "removingProfiled"])
  <2> DEFINE w == [Providers!NoTask EXCEPT !.phase = "removingProfiled"]
  <2>1. w \in Providers!Task /\ w.phase = "removingProfiled" /\ w.pool = NULL /\ ~w.preexisted
    BY DEF Providers!NoTask, Providers!Task
  <2>2. task' = [task EXCEPT ![t] = w]
    BY <1>4 DEF Providers!Sets
  <2> HIDE DEF w
  <2>3. \A j \in Providers!Keys \ Providers!Profiled : cached[j] = NULL
    BY <1>4 DEF Providers!Chosen
  <2>4. TaskFits(w)'
    BY <1>1, <2>1, <2>3 DEF TaskFits, NoneCached, Closing, Removing, Acquiring
  <2>5. QED
    BY <1>1, <1>2, <1>4, <2>1, <2>2, <2>4, OnlyTask
<1>5. CASE Providers!Chosen(t) = {} /\ task[t].phase = "removingProfiled" /\ Providers!CloseSSHTunnel /\ Providers!Ends(t)
  <2>1. \A j \in Providers!Keys : cached[j] = NULL
    <3>1. \A j \in Providers!Profiled : cached[j] = NULL
      BY <1>5 DEF Providers!Chosen, Providers!Keys
    <3>2. \A j \in Providers!Keys \ Providers!Profiled : cached[j] = NULL
      BY <1>1, <1>5 DEF TaskFits, NoneCached
    <3>3. QED
      BY <3>1, <3>2
  <2>2. active' = NULL /\ open' = {} /\ task' = [task EXCEPT ![t] = Providers!NoTask]
    BY <1>1, <1>5 DEF Providers!CloseSSHTunnel, PoolsFit, Providers!Ends, Providers!Sets
  <2>3. PoolsFit'
    BY <1>1, <2>1, <2>2 DEF PoolsFit
  <2>4. /\ pool' \in [Pools -> Providers!Pool] /\ cached' \in [Providers!Keys -> Pools \cup {NULL}]
        /\ active' \in Tunnels \cup {NULL} /\ open' \in SUBSET Tunnels
    BY <1>1, <2>2 DEF CacheTyped
  <2>5. QED
    BY <1>1, <1>2, <2>2, <2>3, <2>4, NoTaskFits, TurnKeeps
<1>6. QED
  BY <1>3, <1>4, <1>5 DEF Providers!RemoveNext

-----------------------------------------------------------------------------
(* A pool that opens is a new one, which no task and no key refers to. *)
LEMMA ConnectingKeeps ==
  ASSUME PoolsNamed, ~crossed, CacheInv, NEW t \in Tasks, NEW k \in Providers!Keys, NEW n \in Tunnels, NEW preexisted \in BOOLEAN,
         Providers!Connecting(t, k, n, preexisted), cached' = cached, cached[k] = NULL, active' = n,
         \/ n = active /\ open' = open /\ preexisted
         \/ /\ active = NULL /\ open' = open \cup {n} /\ NoneCached(Providers!Keys \ Providers!Labelled)
            /\ \A u \in Tasks : u # t => ~Providers!Busy(u),
         \A u \in Tasks : u # t /\ Providers!Busy(u) => Light(task[u]) /\ k # task[u].key
  PROVE  CacheInv'
<1>1. CacheTyped /\ PoolsFit /\ Beside /\ \A u \in Tasks : TaskFits(task[u])
  BY DEF CacheInv
<1>2. PICK p \in Providers!NewPools :
        /\ pool' = [pool EXCEPT ![p] = [state |-> "opening", key |-> k, tunnel |-> n]]
        /\ Providers!Sets(t, [phase |-> "connecting", key |-> k, pool |-> p, preexisted |-> preexisted])
  BY DEF Providers!Connecting
<1>3. /\ p \in Pools /\ pool[p].state = "closed" /\ \A u \in Tasks : task[u].pool # p
      /\ \A j \in Providers!Keys : cached[j] # p
  BY DEF Providers!NewPools
<1>4. PICK w \in Providers!Task : /\ task' = [task EXCEPT ![t] = w] /\ w.phase = "connecting" /\ w.key = k /\ w.pool = p
                                  /\ w.preexisted = preexisted
  <2> DEFINE v == [phase |-> "connecting", key |-> k, pool |-> p, preexisted |-> preexisted]
  <2>1. v \in Providers!Task /\ v.phase = "connecting" /\ v.key = k /\ v.pool = p /\ v.preexisted = preexisted
    BY <1>3 DEF Providers!Task
  <2>2. task' = [task EXCEPT ![t] = v]
    BY <1>2 DEF Providers!Sets
  <2> HIDE DEF v
  <2>3. QED
    BY <2>1, <2>2
<1>5. /\ pool' \in [Pools -> Providers!Pool] /\ pool'[p].state = "opening" /\ pool'[p].key = k /\ pool'[p].tunnel = n
      /\ \A q \in Pools : q # p => pool'[q] = pool[q]
  <2> DEFINE v == [state |-> "opening", key |-> k, tunnel |-> n]
  <2>1. v \in Providers!Pool /\ v.state = "opening" /\ v.key = k /\ v.tunnel = n
    BY DEF Providers!Pool
  <2>2. pool' = [pool EXCEPT ![p] = v]
    BY <1>2
  <2> HIDE DEF v
  <2>3. QED
    BY <1>1, <1>3, <2>1, <2>2 DEF CacheTyped
<1>6. /\ cached' \in [Providers!Keys -> Pools \cup {NULL}] /\ active' \in Tunnels \cup {NULL}
      /\ open' \in SUBSET Tunnels /\ open' \subseteq {active'}
  <2>1. open' \subseteq {active'}
    <3>1. open \subseteq {active}
      BY <1>1 DEF PoolsFit
    <3>2. active = NULL => open = {}
      BY <1>1, <3>1 DEF CacheTyped, PoolsNamed
    <3>3. QED
      BY <3>1, <3>2
  <2>2. QED
    BY <1>1, <2>1 DEF CacheTyped
<1>7. \A j \in Providers!Keys : cached[j] # NULL => cached[j] \in Pools /\ pool'[cached[j]] = pool[cached[j]]
  BY <1>1, <1>3, <1>5 DEF CacheTyped
<1>8. PoolsFit'
  <2>1. \A j \in Providers!Keys : cached'[j] # NULL => pool'[cached'[j]].state = "open" /\ pool'[cached'[j]].key = j
    BY <1>1, <1>7 DEF PoolsFit
  <2>2. \A q \in Pools : pool'[q].state = "open" => pool'[q].key \in Providers!Keys /\ cached'[pool'[q].key] = q
    <3>1. ASSUME NEW q \in Pools, pool'[q].state = "open" PROVE pool'[q].key \in Providers!Keys /\ cached'[pool'[q].key] = q
      <4>1. q # p
        BY <1>5, <3>1
      <4>2. QED
        BY <1>1, <1>5, <3>1, <4>1 DEF PoolsFit
    <3>2. QED
      BY <3>1
  <2>3. \A j \in Providers!Keys \ Providers!Labelled : cached'[j] # NULL => pool'[cached'[j]].tunnel = active' /\ active' \in open'
    BY <1>1, <1>7 DEF PoolsFit, NoneCached
  <2>4. QED
    BY <1>6, <2>1, <2>2, <2>3 DEF PoolsFit
<1>9. TaskFits(w)'
  <2>1. OpeningFor(w)'
    BY <1>3, <1>4, <1>5 DEF OpeningFor, PoolsNamed
  <2>2. ~w.preexisted => NoneCached(Providers!Keys \ Providers!Labelled)'
    BY <1>4 DEF NoneCached
  <2>3. QED
    BY <1>4, <2>1, <2>2 DEF TaskFits, Closing, Removing, Acquiring
<1>10. ASSUME NEW u \in Tasks, u # t, Providers!Busy(u)
       PROVE  /\ active' = active /\ active # NULL /\ Light(task[u]) /\ Light(w) /\ w.key # task[u].key
              /\ cached'[task[u].key] = cached[task[u].key]
              /\ task[u].phase = "connecting" => pool'[task[u].pool] = pool[task[u].pool]
  <2>1. Light(task[u]) /\ k # task[u].key /\ n = active /\ preexisted
    BY <1>10
  <2>2. Light(w)
    BY <1>4, <2>1 DEF Light
  <2>3. task[u].phase = "connecting" => task[u].pool \in Pools
    BY <1>1 DEF TaskFits, OpeningFor
  <2>4. task[u].phase = "connecting" => pool'[task[u].pool] = pool[task[u].pool]
    BY <1>3, <1>5, <2>3
  <2>5. QED
    BY <1>4, <2>1, <2>2, <2>4 DEF PoolsNamed
<1>11. QED
  BY <1>1, <1>4, <1>5, <1>6, <1>8, <1>9, <1>10, TurnKeeps

LEMMA CreateKeeps == ASSUME PoolsNamed, ~crossed, CacheInv, NEW t \in Tasks, NEW k \in Providers!Keys, Providers!Create(t, k) PROVE CacheInv'
<1>0. SUFFICES ASSUME ~crossed' PROVE CacheInv'
  BY DEF CacheInv
<1>1. CacheTyped /\ PoolsFit /\ Beside /\ \A u \in Tasks : TaskFits(task[u])
  BY DEF CacheInv
<1>2. UNCHANGED <<cached, active, open>> /\ Providers!Opens(t, k)
  BY DEF Providers!Create
<1>3. /\ cached[k] = NULL
      /\ \A u \in Tasks : u # t /\ Providers!Busy(u) => active # NULL /\ Light(task[u]) /\ k # task[u].key
  <2>1. CASE ~Providers!Busy(t) /\ ~Providers!IsConnected(k) /\ Providers!Meets(t, k)
    <3>1. cached[k] = NULL
      BY <1>1, <2>1 DEF Providers!IsConnected, PoolsFit
    <3>2. ASSUME NEW u \in Tasks, u # t, Providers!Busy(u) PROVE active # NULL /\ Light(task[u]) /\ k # task[u].key
      BY <1>0, <1>1, <2>1, <3>2, MeetsApart
    <3>3. QED
      BY <3>1, <3>2
  <2>2. CASE task[t].phase = "between" /\ task[t].key = k
    <3>1. cached[k] = NULL /\ Providers!Busy(t)
      BY <1>1, <2>2 DEF TaskFits, Acquiring, Providers!Busy
    <3>2. QED
      BY <1>1, <2>2, <3>1 DEF Beside
  <2>3. QED
    BY <2>1, <2>2 DEF Providers!Create
<1>4. CASE active # NULL
  <2>1. Providers!Connecting(t, k, active, TRUE) /\ active \in Tunnels
    BY <1>1, <1>2, <1>4 DEF Providers!Opens, CacheTyped
  <2>2. QED
    BY <1>2, <1>3, <1>4, <2>1, ConnectingKeeps
<1>5. CASE active = NULL
  <2> DEFINE w == [Providers!NoTask EXCEPT !.phase = "tunneling", !.key = k]
  <2>1. w \in Providers!Task /\ w.phase = "tunneling" /\ w.key = k /\ ~w.preexisted
    BY DEF Providers!NoTask, Providers!Task
  <2>2. task' = [task EXCEPT ![t] = w] /\ pool' = pool
    BY <1>2, <1>5 DEF Providers!Opens, Providers!Sets
  <2> HIDE DEF w
  <2>3. TaskFits(w)'
    BY <1>2, <1>3, <1>5, <2>1 DEF TaskFits, Closing, Removing, Acquiring
  <2>4. \A u \in Tasks : u # t => ~Providers!Busy(u)
    BY <1>3, <1>5
  <2>5. QED
    BY <1>2, <2>1, <2>2, <2>3, <2>4, OnlyTask
<1>6. QED
  BY <1>4, <1>5

LEMMA TunnelReadyKeeps == ASSUME PoolsNamed, ~crossed, CacheInv, NEW t \in Tasks, Providers!TunnelReady(t) PROVE CacheInv'
<1>1. CacheTyped /\ PoolsFit /\ Beside /\ \A u \in Tasks : TaskFits(task[u])
  BY DEF CacheInv
<1>2. PICK n \in Providers!NewTunnels : active' = n /\ open' = open \cup {n} /\ Providers!Connecting(t, task[t].key, n, FALSE)
  BY DEF Providers!TunnelReady
<1>3. task[t].phase = "tunneling" /\ cached' = cached /\ n \in Tunnels
  BY DEF Providers!TunnelReady, Providers!NewTunnels
<1>4. task[t].key \in Providers!Keys /\ cached[task[t].key] = NULL /\ active = NULL
  BY <1>1, <1>3 DEF TaskFits, Acquiring
<1>5. \A u \in Tasks : u # t => ~Providers!Busy(u)
  BY <1>1, <1>3, Alone DEF Light, Providers!Busy
<1>6. NoneCached(Providers!Keys \ Providers!Labelled)
  BY <1>1, <1>4 DEF PoolsFit, CacheTyped, PoolsNamed, NoneCached
<1>7. QED
  BY <1>2, <1>3, <1>4, <1>5, <1>6, ConnectingKeeps

LEMMA ConnectedKeeps == ASSUME PoolsNamed, ~crossed, CacheInv, NEW t \in Tasks, Providers!Connected(t) PROVE CacheInv'
<1>1. CacheTyped /\ PoolsFit /\ Beside /\ \A u \in Tasks : TaskFits(task[u])
  BY DEF CacheInv
<1>2. PICK k, p : k = task[t].key /\ p = task[t].pool
  OBVIOUS
<1>3. /\ task[t].phase = "connecting" /\ pool[p].tunnel \in open /\ pool' = [pool EXCEPT ![p].state = "open"]
      /\ cached' = [cached EXCEPT ![k] = p] /\ task' = [task EXCEPT ![t] = Providers!NoTask] /\ UNCHANGED <<active, open>>
  BY <1>2 DEF Providers!Connected, Providers!Ends, Providers!Sets
<1>4. /\ k \in Providers!Keys /\ cached[k] = NULL /\ p \in Pools /\ pool[p].state = "opening" /\ pool[p].key = k
      /\ pool[p].tunnel = active
  BY <1>1, <1>2, <1>3 DEF TaskFits, OpeningFor, Acquiring
<1>5. /\ pool' \in [Pools -> Providers!Pool] /\ pool'[p].state = "open" /\ pool'[p].key = k /\ pool'[p].tunnel = active
      /\ \A q \in Pools : q # p => pool'[q] = pool[q]
  <2>1. pool[p] \in Providers!Pool /\ pool'[p] = [pool[p] EXCEPT !.state = "open"] /\ \A q \in Pools : q # p => pool'[q] = pool[q]
    BY <1>1, <1>3, <1>4 DEF CacheTyped
  <2>2. pool'[p] \in Providers!Pool /\ pool'[p].state = "open" /\ pool'[p].key = k /\ pool'[p].tunnel = active
    BY <1>4, <2>1 DEF Providers!Pool
  <2>3. QED
    BY <1>1, <1>3, <2>1, <2>2 DEF CacheTyped
<1>6. /\ cached' \in [Providers!Keys -> Pools \cup {NULL}] /\ cached'[k] = p
      /\ \A j \in Providers!Keys : j # k => cached'[j] = cached[j]
      /\ active' \in Tunnels \cup {NULL} /\ open' \in SUBSET Tunnels
  BY <1>1, <1>3, <1>4 DEF CacheTyped
<1>7. \A j \in Providers!Keys : cached[j] # NULL => j # k /\ cached[j] # p /\ cached[j] \in Pools
  BY <1>1, <1>4 DEF PoolsFit, CacheTyped
<1>8. PoolsFit'
  <2>1. \A j \in Providers!Keys : cached'[j] # NULL => pool'[cached'[j]].state = "open" /\ pool'[cached'[j]].key = j
    BY <1>1, <1>5, <1>6, <1>7 DEF PoolsFit
  <2>2. \A q \in Pools : pool'[q].state = "open" => pool'[q].key \in Providers!Keys /\ cached'[pool'[q].key] = q
    <3>1. ASSUME NEW q \in Pools, q # p, pool'[q].state = "open" PROVE pool'[q].key \in Providers!Keys /\ cached'[pool'[q].key] = q
      <4>1. pool'[q] = pool[q] /\ pool[q].key \in Providers!Keys /\ cached[pool[q].key] = q
        BY <1>1, <1>5, <3>1 DEF PoolsFit
      <4>2. pool[q].key # k
        BY <1>4, <4>1 DEF PoolsNamed
      <4>3. QED
        BY <1>6, <4>1, <4>2
    <3>2. QED
      BY <1>4, <1>5, <1>6, <3>1
  <2>3. \A j \in Providers!Keys \ Providers!Labelled : cached'[j] # NULL => pool'[cached'[j]].tunnel = active' /\ active' \in open'
    BY <1>1, <1>3, <1>4, <1>5, <1>6, <1>7 DEF PoolsFit
  <2>4. QED
    BY <1>1, <1>3, <2>1, <2>2, <2>3 DEF PoolsFit
<1>9. ASSUME NEW u \in Tasks, u # t, Providers!Busy(u)
      PROVE  /\ active # NULL /\ Light(task[u]) /\ cached'[task[u].key] = cached[task[u].key]
             /\ task[u].phase = "connecting" => pool'[task[u].pool] = pool[task[u].pool]
  <2>1. Light(task[u]) /\ active # NULL /\ task[u].key # k
    BY <1>1, <1>2, <1>3, <1>9 DEF Beside, Providers!Busy
  <2>2. task[u].key \in Providers!Keys
    BY <1>1, <2>1 DEF TaskFits, Light, OfCached, Closing, Acquiring
  <2>3. task[u].phase = "connecting" => task[u].pool \in Pools /\ pool[task[u].pool].key = task[u].key
    BY <1>1 DEF TaskFits, OpeningFor
  <2>4. task[u].phase = "connecting" => pool'[task[u].pool] = pool[task[u].pool]
    BY <1>4, <1>5, <2>1, <2>3
  <2>5. QED
    BY <1>6, <2>1, <2>2, <2>4
<1>10. QED
  BY <1>1, <1>3, <1>5, <1>6, <1>8, <1>9, NoTaskFits, TurnKeeps

(* A pool that does not open takes down the tunnel it opened, through which nothing else was cached. *)
LEMMA ConnectFailsKeeps == ASSUME PoolsNamed, ~crossed, CacheInv, NEW t \in Tasks, Providers!ConnectFails(t) PROVE CacheInv'
<1>1. CacheTyped /\ PoolsFit /\ Beside /\ \A u \in Tasks : TaskFits(task[u])
  BY DEF CacheInv
<1>2. PICK p : p = task[t].pool
  OBVIOUS
<1>3. /\ task[t].phase = "connecting" /\ pool' = [pool EXCEPT ![p] = Providers!NoPool] /\ cached' = cached
      /\ task' = [task EXCEPT ![t] = Providers!NoTask]
      /\ IF Providers!ClosesTunnel(t) THEN open' = open \ {pool[p].tunnel} /\ active' = NULL ELSE UNCHANGED <<open, active>>
  BY <1>2 DEF Providers!ConnectFails, Providers!Ends, Providers!Sets
<1>4. p \in Pools /\ pool[p].state = "opening" /\ pool[p].key = task[t].key /\ pool[p].tunnel = active
  BY <1>1, <1>2, <1>3 DEF TaskFits, OpeningFor
<1>5. pool' \in [Pools -> Providers!Pool] /\ pool'[p].state = "closed" /\ \A q \in Pools : q # p => pool'[q] = pool[q]
  BY <1>1, <1>3, <1>4, NoPoolClosed DEF CacheTyped
<1>6. \A j \in Providers!Keys : cached[j] # NULL => cached[j] \in Pools /\ cached[j] # p
  BY <1>1, <1>4 DEF PoolsFit, CacheTyped
<1>7. \/ active' = active /\ open' = open
      \/ /\ active' = NULL /\ open' = {} /\ ~task[t].preexisted /\ NoneCached(Providers!Keys \ Providers!Labelled)
  <2>1. CASE task[t].preexisted
    BY <1>3, <2>1 DEF Providers!ClosesTunnel
  <2>2. CASE ~task[t].preexisted
    <3>1. NoneCached(Providers!Keys \ Providers!Labelled)
      BY <1>1, <1>3, <2>2 DEF TaskFits
    <3>2. active' = NULL /\ open' = open \ {active} /\ open \subseteq {active}
      BY <1>1, <1>3, <1>4, <2>2 DEF Providers!ClosesTunnel, PoolsFit
    <3>3. QED
      BY <2>2, <3>1, <3>2
  <2>3. QED
    BY <2>1, <2>2
<1>8. /\ cached' \in [Providers!Keys -> Pools \cup {NULL}] /\ active' \in Tunnels \cup {NULL} /\ open' \in SUBSET Tunnels
  BY <1>1, <1>3, <1>7 DEF CacheTyped
<1>9. PoolsFit'
  <2>1. \A j \in Providers!Keys : cached'[j] # NULL => pool'[cached'[j]] = pool[cached[j]]
    BY <1>3, <1>5, <1>6
  <2>2. \A j \in Providers!Keys : cached'[j] # NULL => pool'[cached'[j]].state = "open" /\ pool'[cached'[j]].key = j
    BY <1>1, <1>3, <2>1 DEF PoolsFit
  <2>3. \A q \in Pools : pool'[q].state = "open" => pool'[q].key \in Providers!Keys /\ cached'[pool'[q].key] = q
    <3>1. ASSUME NEW q \in Pools, pool'[q].state = "open" PROVE pool'[q].key \in Providers!Keys /\ cached'[pool'[q].key] = q
      <4>1. pool'[q] = pool[q]
        BY <1>5, <3>1
      <4>2. QED
        BY <1>1, <1>3, <3>1, <4>1 DEF PoolsFit
    <3>2. QED
      BY <3>1
  <2>4. \A j \in Providers!Keys \ Providers!Labelled : cached'[j] # NULL => pool'[cached'[j]].tunnel = active' /\ active' \in open'
    BY <1>1, <1>3, <1>7, <2>1 DEF PoolsFit, NoneCached
  <2>5. open' \subseteq {active'}
    BY <1>1, <1>7 DEF PoolsFit
  <2>6. QED
    BY <2>2, <2>3, <2>4, <2>5 DEF PoolsFit
<1>10. ASSUME NEW u \in Tasks, u # t, Providers!Busy(u)
       PROVE  /\ active' = active /\ active # NULL /\ Light(task[u]) /\ cached'[task[u].key] = cached[task[u].key]
              /\ task[u].phase = "connecting" => pool'[task[u].pool] = pool[task[u].pool]
  <2>1. Light(task[t]) /\ Light(task[u]) /\ active # NULL /\ task[u].key # task[t].key
    BY <1>1, <1>3, <1>10 DEF Beside, Providers!Busy
  <2>2. active' = active
    BY <1>3, <1>7, <2>1 DEF Light
  <2>3. task[u].phase = "connecting" => task[u].pool \in Pools /\ pool[task[u].pool].key = task[u].key
    BY <1>1 DEF TaskFits, OpeningFor
  <2>4. task[u].phase = "connecting" => pool'[task[u].pool] = pool[task[u].pool]
    BY <1>4, <1>5, <2>1, <2>3
  <2>5. QED
    BY <1>3, <2>1, <2>2, <2>4
<1>11. QED
  BY <1>1, <1>3, <1>5, <1>8, <1>9, <1>10, NoTaskFits, TurnKeeps

-----------------------------------------------------------------------------
LEMMA SameCache ==
  ASSUME CacheInv, UNCHANGED <<pool, cached, active, open, task, crossed>>
  PROVE  CacheInv'
<1>1. CASE crossed
  BY <1>1 DEF CacheInv
<1>2. CASE ~crossed
  <2>1. CacheTyped /\ PoolsFit /\ Beside /\ \A t \in Tasks : TaskFits(task[t])
    BY <1>2 DEF CacheInv
  <2>2. CacheTyped' /\ PoolsFit'
    BY <2>1 DEF CacheTyped, PoolsFit
  <2>3. Beside'
    BY <2>1 DEF Beside, Providers!Busy
  <2>4. \A t \in Tasks : TaskFits(task[t])'
    BY <2>1 DEF TaskFits, OfCached, OpeningFor, NoneCached
  <2>5. QED
    BY <2>2, <2>3, <2>4 DEF CacheInv
<1>3. QED
  BY <1>1, <1>2

LEMMA CacheStep == ASSUME PoolsNamed, ~crossed, CacheInv, Providers!Next PROVE CacheInv'
<1>1. ASSUME NEW k \in Providers!Keys, Providers!Reuse(k) \/ Providers!GrowIdle(k) PROVE CacheInv'
  BY <1>1, SameCache DEF Providers!Reuse, Providers!GrowIdle
<1>2. ASSUME NEW t \in Tasks, NEW k \in Providers!Keys, Providers!Replace(t, k) \/ Providers!Create(t, k) \/ Providers!Evict(t, k)
      PROVE  CacheInv'
  BY <1>2, ReplaceKeeps, CreateKeeps, IntrudesKeeps
<1>3. ASSUME NEW t \in Tasks,
             \/ Providers!Replaced(t) \/ Providers!TunnelReady(t) \/ Providers!TunnelRefused(t)
             \/ Providers!Connected(t) \/ Providers!ConnectFails(t)
             \/ Providers!Evicted(t) \/ Providers!Remove(t) \/ Providers!RemoveNext(t) \/ Providers!Removed(t)
      PROVE  CacheInv'
  BY <1>3, ReplacedKeeps, TunnelReadyKeeps, RefusedKeeps, ConnectedKeeps, ConnectFailsKeeps, EvictedKeeps, IntrudesKeeps,
     RemoveNextKeeps, RemovedKeeps
<1>4. QED
  BY <1>1, <1>2, <1>3 DEF Providers!Next

(* Unless tasks crossed, a cached pool is open through a tunnel that stands, and nothing open is *)
(* forgotten (db/factory.ts, ssh/tunnel.ts).                                                     *)
THEOREM PoolsTrueHolds == ASSUME PoolsNamed PROVE PartsSpec => []PoolsTrue
<1>1. PartsInit => CacheInv
  <2> SUFFICES ASSUME Providers!Init PROVE CacheInv
    BY EachPartBegins
  <2>1. CacheTyped
    BY NoPoolClosed, NoTaskFits DEF Providers!Init, CacheTyped
  <2>2. PoolsFit
    BY NoPoolClosed DEF Providers!Init, PoolsFit
  <2>3. \A t \in Tasks : task[t] = Providers!NoTask
    BY DEF Providers!Init
  <2>4. Beside
    BY <2>3, NoTaskFits DEF Beside, Providers!Busy
  <2>5. TaskFits(Providers!NoTask)
    BY DEF Providers!NoTask, TaskFits, Closing, Removing, Acquiring
  <2>6. QED
    BY <2>1, <2>2, <2>3, <2>4, <2>5 DEF CacheInv
<1>2. CacheInv /\ [PartsNext]_vars => CacheInv'
  <2>1. UNCHANGED cacheVars /\ CacheInv => CacheInv'
    BY SameCache DEF cacheVars
  <2>2. ~crossed \/ UNCHANGED cacheVars \/ ~[PartsNext]_vars
    BY DEF PartsNext, vars, servedVars, dataVars, ServedMove, TokensMove, WindowsMove, ProvidersMove, ExportMoves, LeasesMove, SyncMoves,
       DataMove, SeedMoves, TransactionsMove, JobsMove, ProvisioningMoves, TabsMove, StudioMoves, PanelMoves
  <2>3. QED
    BY <2>1, <2>2, EachPartSteps, CacheStep
<1>3. CacheInv => PoolsTrue
  <2> SUFFICES ASSUME CacheInv, ~crossed PROVE Providers!PoolsTrue
    BY DEF PoolsTrue, Providers!PoolsTrue
  <2>1. PoolsFit
    BY DEF CacheInv
  <2>2. \A k \in Providers!Keys \ Providers!Labelled : Providers!ServedThrough(k)
    BY <2>1 DEF PoolsFit, Providers!ServedThrough, Providers!IsConnected
  <2>3. QED
    BY <2>1, <2>2 DEF PoolsFit, Providers!PoolsTrue
<1>4. QED
  BY <1>1, <1>2, <1>3, PTL DEF PartsSpec

-----------------------------------------------------------------------------
(* Transactions: until calls cross, only the client the provider holds serves statements, once each and *)
(* an end last; it begins, or is in a transaction that has its timer or its end on the way.             *)

Early == {"unsent", "sent", "connecting", "working"}
TxCall == [asked: {"nothing", "begin", "commit", "rollback", "query"}, step: Early \cup {"ok", "failed", "heard"},
           covers: SUBSET Tx!Ids]
TxSession == [queue: Seq(Tx!Ids), open: BOOLEAN, spoiled: BOOLEAN, pending: SUBSET Tx!Ids]
TxTyped ==
  /\ client \in Clients \cup {NULL} /\ session \in [Clients -> TxSession] /\ call \in [Tx!Ids -> TxCall]
  /\ armed \in SUBSET Tx!Begins
  /\ run \in [Plays -> {"idle", "beginning", "aborting", "querying", "rolling"}]

Queued(q) ==
  /\ \A i \in DOMAIN q : call[q[i]].step = "working"
  /\ \A i, j \in DOMAIN q : q[i] = q[j] => i = j
  /\ \A i \in DOMAIN q : Tx!Kind(q[i]) \in Tx!Ends => i = Len(q)
EndsIn(q) == \E i \in DOMAIN q : Tx!Kind(q[i]) \in Tx!Ends
Within(s) == s.open /\ \A i \in DOMAIN s.queue : Tx!Kind(s.queue[i]) \in Tx!Ends \cup {"query"}
Beginning(s) == ~s.open /\ ~s.spoiled /\ s.pending = {} /\ \E k \in Tx!Ids : s.queue = <<k>> /\ Tx!Kind(k) = "begin"

PoolKept ==
  /\ stranded \subseteq Clients /\ free = Clients \ (stranded \cup {client})
  /\ \A c \in Clients : c # client \/ c \in stranded => session[c] = Tx!Idle
Holding == client # NULL /\ client \notin stranded
ClientHeld ==
  /\ Holding => Queued(session[client].queue) /\ (IF txActive THEN Within(session[client]) ELSE Beginning(session[client]))
  /\ txActive => Holding /\ (timeout \in armed \/ EndsIn(session[client].queue))
ConnectsAlone ==
  \A k \in Tx!Ids : call[k].step = "connecting" =>
    Tx!Kind(k) = "begin" /\ ~Holding /\ \A j \in Tx!Ids : call[j].step = "connecting" => j = k
Expiries ==
  \A k \in Tx!Begins : /\ k \in armed => call[k].step \in {"ok", "heard"}
                       /\ k \in armed \/ call[k].step \in Early => call[Tx!Expiry(k)].step = "unsent"
CoversLater == \A k \in Tx!Ids : call[k].step \in Early => call[k].covers = {}
Played ==
  \A r \in Plays : /\ run[r] = "idle" => call[<<r, "begin">>].step = "unsent"
                   /\ run[r] \in {"idle", "beginning", "aborting"} => call[<<r, "query">>].step = "unsent"
                   /\ run[r] # "rolling" => call[<<r, "rollback">>].step = "unsent"
KeptByCommit == \A k \in permanent : Tx!Committed(k)

TxHolds == TxTyped /\ PoolKept /\ ClientHeld /\ ConnectsAlone /\ Expiries /\ CoversLater /\ Played /\ KeptByCommit
TxInv == ~txCrossed => TxHolds

(* One call turns to a step; the others stay. *)
Turned(k, step) ==
  /\ call' \in [Tx!Ids -> TxCall] /\ \A j \in Tx!Ids : j # k => call'[j] = call[j]
  /\ call'[k].step = step /\ call'[k].asked = call[k].asked

LEMMA IdOf ==
  ASSUME TxNames
  PROVE  /\ Presses \subseteq Tx!Ids /\ Tx!Begins \subseteq Tx!Ids
         /\ \A r \in Plays, what \in {"begin", "query", "rollback"} : <<r, what>> \in Tx!Ids \ Presses
         /\ \A k \in Tx!Begins : Tx!Expiry(k) \in Tx!Ids \ Presses /\ Tx!Kind(Tx!Expiry(k)) = "expire"
BY DEF TxNames, Tx!Ids, Tx!Begins, Tx!Expiry, Tx!Kind

LEMMA KindOf ==
  ASSUME TxNames, NEW k \in Tx!Ids
  PROVE  /\ Tx!Kind(k) = "begin" => k \in Tx!Begins
         /\ Tx!Kind(k) = "commit" => k \in Presses
         /\ Tx!Kind(k) # "expire" => \A j \in Tx!Begins : k # Tx!Expiry(j)
<1>1. CASE k \in Presses
  BY <1>1 DEF TxNames, Tx!Begins
<1>2. CASE k \in Plays \X {"begin"} /\ k \notin Presses
  BY <1>2 DEF Tx!Kind, Tx!Begins, Tx!Expiry
<1>3. CASE k \in Plays \X {"query", "rollback"} /\ k \notin Presses
  BY <1>3 DEF Tx!Kind, Tx!Begins, Tx!Expiry
<1>4. CASE k \in {Tx!Expiry(j) : j \in Tx!Begins} /\ k \notin Presses
  BY <1>4 DEF Tx!Kind, Tx!Expiry
<1>5. QED
  BY <1>1, <1>2, <1>3, <1>4 DEF Tx!Ids, Tx!Begins

LEMMA SameKinds == ASSUME NEW k, NEW step, Turned(k, step) PROVE \A j \in Tx!Ids : Tx!Kind(j)' = Tx!Kind(j)
BY DEF Turned, Tx!Kind

LEMMA ExpiriesKept ==
  ASSUME TxNames, Expiries, NEW k \in Tx!Ids, \A j \in Tx!Begins : k # Tx!Expiry(j),
         \A j \in Tx!Ids : j # k => call'[j] = call[j], armed' \subseteq armed,
         call'[k].step \in Early => call[k].step \in Early, call[k].step \in {"ok", "heard"} => call'[k].step \in {"ok", "heard"}
  PROVE  Expiries'
BY IdOf DEF Expiries

LEMMA PlayedKept ==
  ASSUME TxNames, Played, run' = run, \A j \in Tx!Ids \ Presses : call[j].step = "unsent" => call'[j].step = "unsent"
  PROVE  Played'
BY IdOf DEF Played

(* A call that no client serves changes, and nothing else of the provider's does. *)
LEMMA OnlyCall ==
  ASSUME TxNames, ~txCrossed, TxInv, NEW k \in Tx!Ids, call' \in [Tx!Ids -> TxCall], \A j \in Tx!Ids : j # k => call'[j] = call[j],
         call[k].step # "working", call'[k].step \notin {"working", "connecting"}, call'[k].covers = call[k].covers,
         call[k].step = "unsent" \/ call'[k].asked = call[k].asked,
         call'[k].step \in Early => call[k].step \in Early,
         UNCHANGED <<client, txActive, timeout, stranded, free, session, permanent>>, armed' = armed,
         Expiries', Played', run' \in [Plays -> {"idle", "beginning", "aborting", "querying", "rolling"}]
  PROVE  TxInv'
<1>1. TxHolds
  BY DEF TxInv
<1>2. \A j \in Tx!Ids : j # k => Tx!Kind(j)' = Tx!Kind(j)
  BY DEF Tx!Kind
<1>3. TxTyped'
  BY <1>1 DEF TxHolds, TxTyped
<1>4. PoolKept'
  BY <1>1 DEF TxHolds, PoolKept
<1>5. ClientHeld'
  <2>1. CASE ~Holding
    BY <1>1, <2>1 DEF TxHolds, ClientHeld, Holding
  <2>2. CASE Holding
    <3>1. PICK s : s = session[client] /\ s = session'[client'] /\ s \in TxSession
      BY <1>1, <2>2 DEF TxHolds, TxTyped, Holding
    <3>2. Queued(s.queue) /\ \A i \in DOMAIN s.queue : s.queue[i] \in Tx!Ids
      BY <1>1, <2>2, <3>1 DEF TxHolds, ClientHeld, TxSession
    <3>3. \A i \in DOMAIN s.queue : s.queue[i] # k /\ s.queue[i] \in Tx!Ids
      BY <3>2 DEF Queued
    <3>4. Queued(s.queue)' /\ (EndsIn(s.queue) => EndsIn(s.queue)')
      BY <1>2, <3>2, <3>3 DEF Queued, EndsIn
    <3>5. Within(s) => Within(s)'
      BY <1>2, <3>3 DEF Within
    <3>6. Beginning(s) => Beginning(s)'
      <4>1. ASSUME NEW j \in Tx!Ids, s.queue = <<j>>, Tx!Kind(j) = "begin" PROVE j # k /\ Tx!Kind(j)' = "begin"
        BY <1>2, <3>3, <4>1
      <4>2. QED
        BY <4>1 DEF Beginning
    <3>7. QED
      BY <1>1, <2>2, <3>1, <3>4, <3>5, <3>6 DEF TxHolds, ClientHeld, Holding
  <2>3. QED
    BY <2>1, <2>2
<1>6. ConnectsAlone'
  BY <1>1, <1>2 DEF TxHolds, ConnectsAlone, Holding
<1>7. CoversLater'
  BY <1>1 DEF TxHolds, CoversLater
<1>8. KeptByCommit'
  <2>1. ASSUME NEW j \in permanent PROVE Tx!Committed(j)'
    <3>1. PICK p \in Presses : Tx!Kind(p) = "commit" /\ j \in call[p].covers
      BY <1>1 DEF TxHolds, KeptByCommit, Tx!Committed
    <3>2. p # k \/ call[k].step # "unsent"
      BY <1>1, <3>1 DEF TxHolds, CoversLater, Early
    <3>3. call'[p].asked = call[p].asked /\ call'[p].covers = call[p].covers
      BY <3>1, <3>2, IdOf
    <3>4. QED
      BY <3>1, <3>3 DEF Tx!Committed, Tx!Kind
  <2>2. QED
    BY <2>1 DEF KeptByCommit
<1>9. QED
  BY <1>1, <1>3, <1>4, <1>5, <1>6, <1>7, <1>8 DEF TxInv, TxHolds

LEMMA TurnOf ==
  ASSUME TxTyped, NEW k \in Tx!Ids, NEW step \in Early \cup {"ok", "failed", "heard"}, call' = [call EXCEPT ![k].step = step]
  PROVE  Turned(k, step) /\ call'[k].covers = call[k].covers
<1>1. call \in [Tx!Ids -> TxCall]
  BY DEF TxTyped
<1>2. PICK one \in TxCall : one = [call[k] EXCEPT !.step = step]
  BY <1>1 DEF TxCall
<1>3. one.step = step /\ one.asked = call[k].asked /\ one.covers = call[k].covers
  BY <1>1, <1>2 DEF TxCall
<1>4. call' = [call EXCEPT ![k] = one]
  BY <1>1, <1>2
<1>5. QED
  BY <1>1, <1>3, <1>4 DEF Turned

(* An unanswered call that turns keeps what the committed statements rest on. *)
LEMMA TxTurnKeeps ==
  ASSUME TxNames, TxHolds, NEW k \in Tx!Ids, NEW step, Turned(k, step), call[k].step \in Early,
         step \in Early => call'[k].covers = call[k].covers
  PROVE  /\ CoversLater'
         /\ \A j \in permanent : Tx!Committed(j)'
<1>1. CoversLater'
  BY DEF TxHolds, CoversLater, Turned
<1>2. ASSUME NEW j \in permanent PROVE Tx!Committed(j)'
  <2>1. PICK p \in Presses : Tx!Kind(p) = "commit" /\ j \in call[p].covers
    BY DEF TxHolds, KeptByCommit, Tx!Committed
  <2>2. p # k /\ p \in Tx!Ids
    BY <2>1, IdOf DEF TxHolds, CoversLater
  <2>3. QED
    BY <2>1, <2>2, SameKinds DEF Tx!Committed, Turned
<1>3. QED
  BY <1>1, <1>2

(* A call that is asked, heard or refused. *)
LEMMA TurnsAside ==
  ASSUME TxNames, ~txCrossed, TxInv, NEW k \in Tx!Ids, NEW step \in {"sent", "failed", "heard"},
         call' = [call EXCEPT ![k].step = step],
         call[k].step # "working", call[k].step = "unsent" => step = "sent",
         step = "sent" => call[k].step = "unsent",
         call[k].step \in {"ok", "heard"} => step = "heard", step = "heard" => call[k].step \in {"ok", "failed"},
         \A j \in Tx!Begins : k # Tx!Expiry(j),
         UNCHANGED <<client, txActive, timeout, stranded, free, session, permanent>>, armed' = armed,
         Played', run' \in [Plays -> {"idle", "beginning", "aborting", "querying", "rolling"}]
  PROVE  TxInv'
<1>1. TxHolds
  BY DEF TxInv
<1>2. Turned(k, step) /\ call'[k].covers = call[k].covers
  BY <1>1, TurnOf DEF TxHolds, Early
<1>3. call[k].step \in Early \cup {"ok", "failed", "heard"}
  BY <1>1 DEF TxHolds, TxTyped, TxCall
<1>4. Expiries
  BY <1>1 DEF TxHolds
<1>5. \A j \in Tx!Ids : j # k => call'[j] = call[j]
  BY <1>2 DEF Turned
<1>6. call'[k].step = step /\ call'[k].asked = call[k].asked /\ call' \in [Tx!Ids -> TxCall]
  BY <1>2 DEF Turned
<1>7. call'[k].step \in Early => call[k].step \in Early
  BY <1>6 DEF Early
<1>8. call[k].step \in {"ok", "heard"} => call'[k].step \in {"ok", "heard"}
  BY <1>6
<1>9. Expiries'
  BY <1>4, <1>5, <1>7, <1>8, ExpiriesKept
<1>10. QED
  BY <1>2, <1>5, <1>6, <1>7, <1>9, OnlyCall

LEMMA TxPressed == ASSUME TxNames, ~txCrossed, TxInv, NEW p \in Presses, Tx!Press(p) \/ Tx!Heard(p) PROVE TxInv'
<1>1. TxHolds
  BY DEF TxInv
<1>2. p \in Tx!Ids /\ \A j \in Tx!Begins : p # Tx!Expiry(j)
  BY IdOf
<1>3. Played' /\ run' = run /\ armed' = armed /\ UNCHANGED <<client, txActive, timeout, stranded, free, session, permanent>>
  <2>1. run' = run /\ armed' = armed /\ UNCHANGED <<client, txActive, timeout, stranded, free, session, permanent>>
    BY DEF Tx!Press, Tx!Heard, Tx!providerVars, Tx!engineVars, Tx!studioVars
  <2>2. \A j \in Tx!Ids \ Presses : call'[j] = call[j]
    BY <1>1, <1>2 DEF Tx!Press, Tx!Heard, TxHolds, TxTyped
  <2>3. QED
    BY <1>1, <2>1, <2>2, PlayedKept DEF TxHolds
<1>4. run' \in [Plays -> {"idle", "beginning", "aborting", "querying", "rolling"}]
  BY <1>1, <1>3 DEF TxHolds, TxTyped
<1>5. CASE Tx!Heard(p)
  <2>1. call' = [call EXCEPT ![p].step = "heard"] /\ call[p].step \in {"ok", "failed"}
    BY <1>5 DEF Tx!Heard
  <2>2. QED
    BY <1>2, <1>3, <1>4, <2>1, TurnsAside
<1>6. CASE Tx!Press(p)
  <2>1. call \in [Tx!Ids -> TxCall]
    BY <1>1 DEF TxHolds, TxTyped
  <2>2. PICK what \in {"commit", "rollback", "query", "begin"} : call' = [call EXCEPT ![p].asked = what, ![p].step = "sent"]
    BY <1>6 DEF Tx!Press
  <2>3. PICK one : one = [asked |-> what, step |-> "sent", covers |-> call[p].covers]
    OBVIOUS
  <2>4. one.step = "sent" /\ one.covers = call[p].covers /\ one \in TxCall
    BY <1>2, <2>1, <2>3 DEF TxCall, Early
  <2>5. call' = [call EXCEPT ![p] = one]
    <3>1. call[p] \in TxCall
      BY <1>2, <2>1
    <3>2. PICK half : half = [call[p] EXCEPT !.asked = what]
      OBVIOUS
    <3>3. half = [asked |-> what, step |-> call[p].step, covers |-> call[p].covers] /\ half \in TxCall
      BY <3>1, <3>2 DEF TxCall
    <3>4. [half EXCEPT !.step = "sent"] = one
      BY <2>3, <3>3 DEF TxCall
    <3>5. PICK mid : mid = [call EXCEPT ![p].asked = what]
      OBVIOUS
    <3>6. call' = [mid EXCEPT ![p].step = "sent"]
      BY <2>2, <3>5
    <3>7. mid = [call EXCEPT ![p] = half]
      BY <3>2, <3>5
    <3>8. mid \in [Tx!Ids -> TxCall] /\ mid[p] = half /\ \A j \in Tx!Ids : j # p => mid[j] = call[j]
      BY <1>2, <2>1, <3>3, <3>7
    <3>9. call' = [mid EXCEPT ![p] = one]
      BY <3>4, <3>6, <3>8
    <3>10. QED
      BY <1>2, <2>1, <2>4, <3>8, <3>9
  <2>6. /\ call' \in [Tx!Ids -> TxCall] /\ \A j \in Tx!Ids : j # p => call'[j] = call[j]
        /\ call'[p].step = "sent" /\ call'[p].covers = call[p].covers
    BY <1>2, <2>1, <2>4, <2>5
  <2>7. call[p].step = "unsent"
    BY <1>6 DEF Tx!Press
  <2>8. Expiries
    BY <1>1 DEF TxHolds
  <2>9. Expiries'
    BY <1>2, <1>3, <2>6, <2>7, <2>8, ExpiriesKept DEF Early
  <2>10. QED
    BY <1>2, <1>3, <1>4, <2>6, <2>7, <2>9, OnlyCall DEF Early
<1>7. QED
  BY <1>5, <1>6

LEMMA TxPlayed ==
  ASSUME TxNames, ~txCrossed, TxInv, NEW r \in Plays,
         Tx!Playground(r) \/ Tx!PlaygroundBegun(r) \/ Tx!Abort(r) \/ Tx!PlaygroundEnds(r)
  PROVE  TxInv'
<1>1. TxHolds
  BY DEF TxInv
<1>2. Played /\ run \in [Plays -> {"idle", "beginning", "aborting", "querying", "rolling"}]
  BY <1>1 DEF TxHolds, TxTyped
<1>3. ASSUME NEW what \in {"begin", "query", "rollback"}, NEW next \in {"beginning", "querying", "rolling"}, Tx!Ask(r, what, next),
             <<run[r], what, next>> \in
               {<<"idle", "begin", "beginning">>, <<"beginning", "query", "querying">>, <<"querying", "rollback", "rolling">>,
                <<"aborting", "rollback", "rolling">>}
      PROVE  TxInv'
  <2>1. PICK k \in Tx!Ids \ Presses : k = <<r, what>>
    BY IdOf
  <2>2. call[k].step = "unsent"
    BY <1>2, <1>3, <2>1 DEF Played
  <2>3. call' = [call EXCEPT ![k].step = "sent"] /\ run' = [run EXCEPT ![r] = next]
    BY <1>3, <2>1 DEF Tx!Ask
  <2>4. run' \in [Plays -> {"idle", "beginning", "aborting", "querying", "rolling"}]
    BY <1>2, <2>3
  <2>5. Tx!Kind(k) = what /\ \A j \in Tx!Begins : k # Tx!Expiry(j)
    <3>1. Tx!Kind(k) = what
      BY <2>1 DEF Tx!Kind
    <3>2. QED
      BY <2>1, <3>1, KindOf
  <2>6. \A j \in Tx!Ids : j # k => call'[j] = call[j]
    BY <1>1, <2>3 DEF TxHolds, TxTyped
  <2>7. Played'
    <3>1. ASSUME NEW q \in Plays
          PROVE  /\ run'[q] = "idle" => call'[<<q, "begin">>].step = "unsent"
                 /\ run'[q] \in {"idle", "beginning", "aborting"} => call'[<<q, "query">>].step = "unsent"
                 /\ run'[q] # "rolling" => call'[<<q, "rollback">>].step = "unsent"
      <4>1. \A w \in {"begin", "query", "rollback"} : <<q, w>> # k => call'[<<q, w>>] = call[<<q, w>>]
        BY <2>6, IdOf
      <4>2. CASE q # r
        BY <1>2, <2>1, <2>3, <4>1, <4>2 DEF Played
      <4>3. CASE q = r
        BY <1>2, <1>3, <2>1, <2>3, <4>1, <4>3 DEF Played
      <4>4. QED
        BY <4>2, <4>3
    <3>2. QED
      BY <3>1 DEF Played
  <2>8. UNCHANGED <<client, txActive, timeout, stranded, free, session, permanent>> /\ armed' = armed
    BY <1>3 DEF Tx!Ask, Tx!providerVars, Tx!engineVars
  <2>9. QED
    BY <2>2, <2>3, <2>4, <2>5, <2>7, <2>8, TurnsAside
<1>4. CASE run[r] = "beginning" /\ run' = [run EXCEPT ![r] = "aborting"] /\ call' = call /\ UNCHANGED Tx!providerVars /\ UNCHANGED Tx!engineVars
  <2>1. run' \in [Plays -> {"idle", "beginning", "aborting", "querying", "rolling"}]
    BY <1>2, <1>4
  <2>2. Played'
    BY <1>2, <1>4 DEF Played
  <2>3. /\ TxTyped' /\ PoolKept' /\ ClientHeld' /\ ConnectsAlone' /\ Expiries' /\ CoversLater' /\ KeptByCommit'
    <3>1. TxTyped' /\ PoolKept'
      BY <1>1, <1>4, <2>1 DEF TxHolds, TxTyped, PoolKept, Tx!providerVars, Tx!engineVars
    <3>2. UNCHANGED <<client, txActive, timeout, stranded, free, session, permanent, armed, call>> /\ \A k : Tx!Kind(k)' = Tx!Kind(k)
      BY <1>4 DEF Tx!providerVars, Tx!engineVars, Tx!Kind
    <3>3. ClientHeld'
      BY <1>1, <3>2 DEF TxHolds, ClientHeld, Holding, Queued, EndsIn, Within, Beginning
    <3>4. ConnectsAlone' /\ Expiries' /\ CoversLater'
      BY <1>1, <3>2 DEF TxHolds, ConnectsAlone, Holding, Expiries, CoversLater
    <3>5. KeptByCommit'
      BY <1>1, <3>2 DEF TxHolds, KeptByCommit, Tx!Committed
    <3>6. QED
      BY <3>1, <3>3, <3>4, <3>5
  <2>4. QED
    BY <2>2, <2>3 DEF TxInv, TxHolds
<1>5. CASE Tx!Playground(r)
  BY <1>3, <1>5 DEF Tx!Playground
<1>6. CASE Tx!PlaygroundBegun(r)
  BY <1>3, <1>6 DEF Tx!PlaygroundBegun
<1>7. CASE Tx!Abort(r)
  BY <1>3, <1>4, <1>7 DEF Tx!Abort
<1>8. CASE Tx!PlaygroundEnds(r)
  BY <1>3, <1>8 DEF Tx!PlaygroundEnds
<1>9. QED
  BY <1>5, <1>6, <1>7, <1>8

LEMMA TxRefused ==
  ASSUME TxNames, ~txCrossed, TxInv, NEW k \in Tx!Ids, call[k].step \in {"sent", "connecting"}, Tx!Kind(k) # "expire",
         call' = [call EXCEPT ![k].step = "failed"],
         UNCHANGED <<client, txActive, timeout, stranded, free, session, permanent>>, armed' = armed, run' = run
  PROVE  TxInv'
<1>1. TxHolds
  BY DEF TxInv
<1>2. Played /\ run \in [Plays -> {"idle", "beginning", "aborting", "querying", "rolling"}]
  BY <1>1 DEF TxHolds, TxTyped
<1>3. \A j \in Tx!Ids : j # k => call'[j] = call[j]
  BY <1>1 DEF TxHolds, TxTyped
<1>4. Played'
  BY <1>2, <1>3, PlayedKept
<1>5. \A j \in Tx!Begins : k # Tx!Expiry(j)
  BY KindOf
<1>6. QED
  BY <1>2, <1>4, <1>5, TurnsAside

(* What a turn from a call on its way leaves of the rest. *)
LEMMA TxTurned ==
  ASSUME TxNames, TxHolds, NEW k \in Tx!Ids, NEW step \in {"connecting", "working", "ok", "failed"}, Turned(k, step),
         call[k].step \in Early, call[k].step # "unsent" \/ (k \notin Presses /\ Tx!Kind(k) = "expire"),
         step \in Early => call'[k].covers = call[k].covers, run' = run
  PROVE  CoversLater' /\ Played' /\ (\A j \in permanent : Tx!Committed(j)') /\ run' \in [Plays -> {"idle", "beginning", "aborting", "querying", "rolling"}]
<1>1. CoversLater' /\ \A j \in permanent : Tx!Committed(j)'
  BY TxTurnKeeps
<1>2. Played /\ run \in [Plays -> {"idle", "beginning", "aborting", "querying", "rolling"}]
  BY DEF TxHolds, TxTyped
<1>3. \A r \in Plays, what \in {"begin", "query", "rollback"} : <<r, what>> = k => call[k].step # "unsent"
  <2>1. ASSUME NEW r \in Plays, NEW what \in {"begin", "query", "rollback"}, <<r, what>> = k, k \notin Presses PROVE Tx!Kind(k) # "expire"
    BY <2>1 DEF Tx!Kind
  <2>2. QED
    BY <2>1
<1>4. \A r \in Plays, what \in {"begin", "query", "rollback"} : call[<<r, what>>].step = "unsent" => call'[<<r, what>>].step = "unsent"
  BY <1>3, IdOf DEF Turned
<1>5. Played'
  BY <1>2, <1>4 DEF Played
<1>6. QED
  BY <1>1, <1>2, <1>5

(* A beginning that meets no other finds no client held. *)
LEMMA TxConnects ==
  ASSUME TxNames, ~txCrossed, TxInv, NEW k \in Tx!Ids, call[k].step = "sent", Tx!Kind(k) = "begin", ~txActive,
         call' = [call EXCEPT ![k].step = "connecting"], txCrossed' = (txCrossed \/ Tx!UnderWay({"begin"})),
         UNCHANGED <<client, txActive, timeout, stranded, free, session, permanent>>, armed' = armed, run' = run
  PROVE  TxInv'
<1> SUFFICES ASSUME ~Tx!UnderWay({"begin"}) PROVE TxHolds'
  BY DEF TxInv
<1>1. TxHolds
  BY DEF TxInv
<1>2. Turned(k, "connecting") /\ call'[k].covers = call[k].covers
  BY <1>1, TurnOf DEF TxHolds, Early
<1>3. ~Holding
  <2>1. ASSUME Holding PROVE FALSE
    <3>1. PICK s : s = session[client]
      OBVIOUS
    <3>2. Queued(s.queue) /\ Beginning(s)
      BY <1>1, <2>1, <3>1 DEF TxHolds, ClientHeld
    <3>3. PICK j \in Tx!Ids : s.queue = <<j>> /\ Tx!Kind(j) = "begin"
      BY <3>2 DEF Beginning
    <3>4. call[j].step = "working"
      BY <3>2, <3>3 DEF Queued
    <3>5. QED
      BY <3>3, <3>4 DEF Tx!UnderWay
  <2>2. QED
    BY <2>1
<1>4. ConnectsAlone'
  <2>1. \A j \in Tx!Ids : call[j].step # "connecting"
    BY <1>1 DEF TxHolds, ConnectsAlone, Tx!UnderWay
  <2>2. \A j \in Tx!Ids : call'[j].step = "connecting" => j = k
    BY <1>2, <2>1 DEF Turned
  <2>3. QED
    BY <1>2, <1>3, <2>2, SameKinds DEF ConnectsAlone, Holding
<1>5. CoversLater' /\ Played' /\ KeptByCommit' /\ run' \in [Plays -> {"idle", "beginning", "aborting", "querying", "rolling"}]
  BY <1>1, <1>2, TxTurned DEF Early, KeptByCommit
<1>6. Expiries'
  <2>1. \A j \in Tx!Begins : k # Tx!Expiry(j)
    BY KindOf
  <2>2. Expiries
    BY <1>1 DEF TxHolds
  <2>3. QED
    BY <1>2, <2>1, <2>2, ExpiriesKept DEF Turned, Early
<1>7. TxTyped' /\ PoolKept' /\ ClientHeld'
  <2>1. TxTyped' /\ PoolKept'
    BY <1>1, <1>2, <1>5 DEF TxHolds, TxTyped, PoolKept, Turned
  <2>2. ClientHeld'
    BY <1>1, <1>3 DEF TxHolds, ClientHeld, Holding
  <2>3. QED
    BY <2>1, <2>2
<1>8. QED
  BY <1>4, <1>5, <1>6, <1>7 DEF TxHolds

LEMMA QueueSet ==
  ASSUME NEW s \in TxSession, NEW q
  PROVE  [s EXCEPT !.queue = q] = [queue |-> q, open |-> s.open, spoiled |-> s.spoiled, pending |-> s.pending]
BY DEF TxSession

LEMMA PendingSet ==
  ASSUME NEW s \in TxSession, NEW w
  PROVE  [s EXCEPT !.pending = w] = [queue |-> s.queue, open |-> s.open, spoiled |-> s.spoiled, pending |-> w]
BY DEF TxSession

LEMMA OpenSet ==
  ASSUME NEW s \in TxSession, NEW w
  PROVE  [s EXCEPT !.open = w] = [queue |-> s.queue, open |-> w, spoiled |-> s.spoiled, pending |-> s.pending]
BY DEF TxSession

LEMMA CoversSet ==
  ASSUME NEW one \in TxCall, NEW w
  PROVE  [one EXCEPT !.covers = w] = [asked |-> one.asked, step |-> one.step, covers |-> w]
BY DEF TxCall

LEMMA IdleTyped == Tx!Idle \in TxSession
<1>1. <<>> \in Seq(Tx!Ids)
  OBVIOUS
<1>2. QED
  BY <1>1 DEF Tx!Idle, TxSession

LEMMA TxConnected ==
  ASSUME TxNames, ~txCrossed, TxInv, NEW k \in Tx!Ids, call[k].step = "connecting", NEW c \in free,
         free' = free \ {c}, client' = c, call' = [call EXCEPT ![k].step = "working"],
         session' = [session EXCEPT ![c].queue = Append(@, k)],
         UNCHANGED <<txActive, timeout, stranded, permanent>>, armed' = armed, run' = run
  PROVE  TxInv'
<1> SUFFICES TxHolds'
  BY DEF TxInv
<1>1. TxHolds
  BY DEF TxInv
<1>2. Turned(k, "working") /\ call'[k].covers = call[k].covers
  BY <1>1, TurnOf DEF TxHolds, Early
<1>3. ~Holding /\ Tx!Kind(k) = "begin" /\ \A j \in Tx!Ids : call[j].step = "connecting" => j = k
  BY <1>1 DEF TxHolds, ConnectsAlone
<1>4. /\ free = Clients \ stranded /\ stranded \subseteq Clients /\ c \in Clients \ stranded /\ c # NULL /\ ~txActive
      /\ \A d \in Clients : session[d] = Tx!Idle
  BY <1>1, <1>3 DEF TxHolds, PoolKept, ClientHeld, Holding, TxNames
<1>5. PICK s \in TxSession : s = [queue |-> <<k>>, open |-> FALSE, spoiled |-> FALSE, pending |-> {}]
  <2>1. PICK t : t = [queue |-> <<k>>, open |-> FALSE, spoiled |-> FALSE, pending |-> {}]
    OBVIOUS
  <2>2. <<k>> \in Seq(Tx!Ids)
    OBVIOUS
  <2>3. t \in TxSession
    BY <2>1, <2>2 DEF TxSession
  <2>4. QED
    BY <2>1, <2>3
<1>6. session' = [session EXCEPT ![c] = s]
  <2>1. session[c] = [queue |-> <<>>, open |-> FALSE, spoiled |-> FALSE, pending |-> {}]
    BY <1>4 DEF Tx!Idle
  <2> DEFINE v == [session[c] EXCEPT !.queue = Append(session[c].queue, k)]
  <2>2. session' = [session EXCEPT ![c] = v]
    OBVIOUS
  <2>3. session[c] \in TxSession
    BY <1>1, <1>4 DEF TxHolds, TxTyped
  <2>4. PICK q : q = Append(session[c].queue, k) /\ v = [session[c] EXCEPT !.queue = q]
    OBVIOUS
  <2>5. q = <<k>>
    BY <2>1, <2>4
  <2>6. v = [queue |-> q, open |-> session[c].open, spoiled |-> session[c].spoiled, pending |-> session[c].pending]
    BY <2>3, <2>4, QueueSet
  <2>7. v = s
    BY <1>5, <2>1, <2>5, <2>6
  <2>8. QED
    BY <2>2, <2>7
<1>7. session \in [Clients -> TxSession]
  BY <1>1 DEF TxHolds, TxTyped
<1>8. session' \in [Clients -> TxSession] /\ session'[c] = s /\ \A d \in Clients : d # c => session'[d] = Tx!Idle
  BY <1>4, <1>5, <1>6, <1>7
<1>9. CoversLater' /\ Played' /\ KeptByCommit' /\ run' \in [Plays -> {"idle", "beginning", "aborting", "querying", "rolling"}]
  BY <1>1, <1>2, TxTurned DEF Early, KeptByCommit
<1>10. Expiries'
  <2>1. \A j \in Tx!Begins : k # Tx!Expiry(j)
    BY <1>3, KindOf
  <2>2. Expiries
    BY <1>1 DEF TxHolds
  <2>3. QED
    BY <1>2, <2>1, <2>2, ExpiriesKept DEF Turned, Early
<1>11. TxTyped'
  BY <1>1, <1>2, <1>4, <1>8, <1>9 DEF TxHolds, TxTyped, Turned
<1>12. PoolKept'
  BY <1>4, <1>8 DEF PoolKept, Tx!Idle
<1>13. ConnectsAlone'
  BY <1>2, <1>3 DEF ConnectsAlone, Turned
<1>14. ClientHeld'
  <2>1. Tx!Kind(k)' = "begin"
    BY <1>2, <1>3, SameKinds
  <2>2. Queued(s.queue)'
    <3>1. s.queue = <<k>>
      BY <1>5
    <3>2. DOMAIN s.queue = {1} /\ s.queue[1] = k /\ Len(s.queue) = 1
      BY <3>1
    <3>3. QED
      BY <1>2, <3>2 DEF Queued, Turned
  <2>3. Beginning(s)'
    BY <1>5, <2>1 DEF Beginning
  <2>4. QED
    BY <1>4, <1>8, <2>2, <2>3 DEF ClientHeld, Holding
<1>15. QED
  BY <1>9, <1>10, <1>11, <1>12, <1>13, <1>14 DEF TxHolds

(* A call joins the held client's queue while no end is under way. *)
LEMMA TxServed ==
  ASSUME TxNames, ~txCrossed, TxInv, NEW k \in Tx!Ids, txActive, Tx!OnClient(k),
         Tx!Kind(k) \in Tx!Ends \cup {"query"},
         call[k].step = "sent" \/ (call[k].step = "unsent" /\ k \notin Presses /\ Tx!Kind(k) = "expire"),
         UNCHANGED <<client, txActive, stranded, free, permanent>>, run' = run, armed' \in SUBSET armed, TxHolds => Expiries',
         Tx!Kind(k) \in Tx!Ends \/ (timeout' = timeout /\ armed' = armed)
  PROVE  TxInv'
<1> SUFFICES ASSUME ~Tx!UnderWay(Tx!Ends) PROVE TxHolds'
  BY DEF TxInv, Tx!OnClient
<1>1. TxHolds
  BY DEF TxInv
<1>2. Turned(k, "working") /\ call'[k].covers = call[k].covers
  BY <1>1, TurnOf DEF TxHolds, Early, Tx!OnClient
<1>3. client \in Clients /\ Holding /\ session \in [Clients -> TxSession] /\ session[client] \in TxSession
  BY <1>1 DEF TxHolds, TxTyped, ClientHeld, Holding
<1>4. PICK s \in TxSession : s = session[client]
  BY <1>3
<1>5. Queued(s.queue) /\ Within(s) /\ (timeout \in armed \/ EndsIn(s.queue)) /\ s.queue \in Seq(Tx!Ids)
  BY <1>1, <1>3, <1>4 DEF TxHolds, ClientHeld, TxSession
<1>6. PICK q : q = Append(s.queue, k)
  OBVIOUS
<1>7. PICK t : t = [queue |-> q, open |-> s.open, spoiled |-> s.spoiled, pending |-> s.pending]
  OBVIOUS
<1>8. session' = [session EXCEPT ![client] = t]
  <2>1. session' = [session EXCEPT ![client] = [session[client] EXCEPT !.queue = Append(session[client].queue, k)]]
    BY DEF Tx!OnClient
  <2>2. [s EXCEPT !.queue = q] = t
    BY <1>7, QueueSet
  <2>3. session' = [session EXCEPT ![client] = [s EXCEPT !.queue = q]]
    BY <1>4, <1>6, <2>1
  <2>4. QED
    BY <2>2, <2>3
<1>9. /\ q \in Seq(Tx!Ids) /\ Len(q) = Len(s.queue) + 1 /\ DOMAIN q = 1..Len(q) /\ DOMAIN s.queue = 1..Len(s.queue)
      /\ q[Len(q)] = k /\ (\A i \in DOMAIN s.queue : q[i] = s.queue[i] /\ s.queue[i] \in Tx!Ids) /\ Len(s.queue) \in Nat
  BY <1>5, <1>6
<1>10. t \in TxSession
  BY <1>4, <1>7, <1>9 DEF TxSession
<1>11. session' \in [Clients -> TxSession] /\ session'[client] = t /\ \A d \in Clients : d # client => session'[d] = session[d]
  BY <1>3, <1>8, <1>10
<1>12. CoversLater' /\ Played' /\ KeptByCommit' /\ run' \in [Plays -> {"idle", "beginning", "aborting", "querying", "rolling"}]
  BY <1>1, <1>2, TxTurned DEF Early, KeptByCommit
<1>13. TxTyped'
  BY <1>1, <1>2, <1>11, <1>12 DEF TxHolds, TxTyped, Turned
<1>14. PoolKept'
  BY <1>1, <1>3, <1>11 DEF TxHolds, PoolKept, Holding
<1>15. ConnectsAlone'
  BY <1>1, <1>2, <1>3 DEF TxHolds, ConnectsAlone, Turned
<1>16. \A i \in DOMAIN s.queue : s.queue[i] # k /\ call'[s.queue[i]].step = "working" /\ Tx!Kind(s.queue[i])' = Tx!Kind(s.queue[i])
  BY <1>2, <1>5, <1>9, SameKinds DEF Queued, Turned
<1>17. Tx!Kind(k)' = Tx!Kind(k)
  BY <1>2, SameKinds
<1>18. \A i \in DOMAIN s.queue : Tx!Kind(s.queue[i]) \notin Tx!Ends
  BY <1>5, <1>9 DEF Queued, Tx!UnderWay
<1>19. \A i \in DOMAIN q : i \in DOMAIN s.queue \/ i = Len(q)
  BY <1>9
<1>20. Queued(q)'
  <2>1. \A i \in DOMAIN q : call'[q[i]].step = "working"
    BY <1>2, <1>9, <1>16, <1>19 DEF Turned
  <2>2. \A i, j \in DOMAIN q : q[i] = q[j] => i = j
    <3>1. ASSUME NEW i \in DOMAIN q, NEW j \in DOMAIN q, q[i] = q[j] PROVE i = j
      <4>1. CASE i \in DOMAIN s.queue /\ j \in DOMAIN s.queue
        BY <1>5, <1>9, <3>1, <4>1 DEF Queued
      <4>2. CASE i = Len(q) \/ j = Len(q)
        BY <1>9, <1>16, <1>19, <3>1, <4>2
      <4>3. QED
        BY <1>19, <4>1, <4>2
    <3>2. QED
      BY <3>1
  <2>3. \A i \in DOMAIN q : Tx!Kind(q[i])' \in Tx!Ends => i = Len(q)
    BY <1>9, <1>16, <1>18, <1>19
  <2>4. QED
    BY <2>1, <2>2, <2>3 DEF Queued, Tx!Ends
<1>21. Within(t)'
  <2>1. \A i \in DOMAIN q : Tx!Kind(q[i])' \in Tx!Ends \cup {"query"}
    BY <1>5, <1>9, <1>16, <1>17, <1>19 DEF Within
  <2>2. t.open /\ t.queue = q
    BY <1>5, <1>7 DEF Within
  <2>3. QED
    BY <2>1, <2>2 DEF Within, Tx!Ends
<1>22. timeout' \in armed' \/ EndsIn(q)'
  <2>1. CASE Tx!Kind(k) \in Tx!Ends
    <3>1. Len(q) \in DOMAIN q
      BY <1>9
    <3>2. QED
      BY <1>9, <1>17, <2>1, <3>1 DEF EndsIn, Tx!Ends
  <2>2. CASE Tx!Kind(k) \notin Tx!Ends
    <3>1. ~EndsIn(s.queue)
      BY <1>18 DEF EndsIn
    <3>2. QED
      BY <1>5, <2>2, <3>1
  <2>3. QED
    BY <2>1, <2>2
<1>23. ClientHeld'
  <2>1. t.queue = q
    BY <1>7
  <2>2. QED
    BY <1>3, <1>11, <1>20, <1>21, <1>22, <2>1 DEF ClientHeld, Holding
<1>24. QED
  BY <1>1, <1>12, <1>13, <1>14, <1>15, <1>23 DEF TxHolds

LEMMA TxAsked ==
  ASSUME TxNames, ~txCrossed, TxInv, NEW k \in Tx!Ids,
         Tx!BeginTransaction(k) \/ Tx!Connected(k) \/ Tx!EndTransaction(k) \/ Tx!QueryInTransaction(k)
  PROVE  TxInv'
<1> USE DEF Tx!providerVars, Tx!engineVars, Tx!studioVars
<1>1. /\ TxHolds /\ Tx!Kind(k) # "expire" /\ call[k].step # "working" /\ armed' \subseteq armed
      /\ \A j \in Tx!Ids : j # k => call'[j] = call[j]
      /\ call'[k].step \in Early => call[k].step \in Early
      /\ call[k].step \in {"ok", "heard"} => call'[k].step \in {"ok", "heard"}
      => Expiries'
  BY KindOf, ExpiriesKept DEF TxHolds
<1>2. CASE Tx!BeginTransaction(k)
  <2>1. call[k].step = "sent" /\ Tx!Kind(k) = "begin" /\ Tx!Kind(k) # "expire"
    BY <1>2 DEF Tx!BeginTransaction
  <2>2. UNCHANGED <<client, txActive, timeout, stranded, free, session, permanent>> /\ armed' = armed /\ run' = run
    BY <1>2 DEF Tx!BeginTransaction, Tx!Refused
  <2>3. CASE Tx!Refused(k)
    BY <2>1, <2>2, <2>3, TxRefused DEF Tx!Refused
  <2>4. CASE ~txActive /\ call' = [call EXCEPT ![k].step = "connecting"] /\ txCrossed' = (txCrossed \/ Tx!UnderWay({"begin"}))
    BY <2>1, <2>2, <2>4, TxConnects
  <2>5. QED
    BY <1>2, <2>3, <2>4 DEF Tx!BeginTransaction
<1>3. CASE Tx!Connected(k)
  <2>1. call[k].step = "connecting" /\ armed' = armed /\ run' = run /\ UNCHANGED <<txActive, timeout, stranded, permanent>>
    BY <1>3 DEF Tx!Connected
  <2>2. ASSUME NEW c \in free, free' = free \ {c}, client' = c, call' = [call EXCEPT ![k].step = "working"],
               session' = [session EXCEPT ![c].queue = Append(@, k)]
        PROVE  TxInv'
    BY <2>1, <2>2, TxConnected
  <2>3. CASE call' = [call EXCEPT ![k].step = "failed"] /\ UNCHANGED <<free, client, session>>
    <3>1. Tx!Kind(k) # "expire"
      BY <2>1 DEF TxInv, TxHolds, ConnectsAlone
    <3>2. QED
      BY <2>1, <2>3, <3>1, TxRefused
  <2>4. QED
    BY <1>3, <2>2, <2>3 DEF Tx!Connected
<1>4. CASE Tx!EndTransaction(k)
  <2>1. call[k].step = "sent" /\ Tx!Kind(k) \in {"commit", "rollback"} /\ run' = run /\ UNCHANGED <<client, txActive, stranded, free, permanent>>
    BY <1>4 DEF Tx!EndTransaction
  <2>2. CASE Tx!Refused(k) /\ UNCHANGED <<armed, timeout>>
    BY <2>1, <2>2, TxRefused DEF Tx!Refused
  <2>3. CASE Tx!InTransaction /\ Tx!OnClient(k) /\ armed' = armed \ {timeout}
    <3>1. TxHolds => Expiries'
      <4>1. ASSUME TxHolds PROVE Turned(k, "working")
        BY <2>1, <2>3, <4>1, TurnOf DEF TxHolds, Early, Tx!OnClient
      <4>2. QED
        BY <1>1, <2>1, <2>3, <4>1 DEF Turned, Early
    <3>2. txActive /\ Tx!Kind(k) \in Tx!Ends /\ armed' \in SUBSET armed
      BY <2>1, <2>3 DEF Tx!InTransaction, Tx!Ends
    <3>3. QED
      BY <2>1, <2>3, <3>1, <3>2, TxServed
  <2>4. QED
    BY <1>4, <2>2, <2>3 DEF Tx!EndTransaction
<1>5. CASE Tx!QueryInTransaction(k)
  <2>1. /\ call[k].step = "sent" /\ Tx!Kind(k) = "query" /\ run' = run
        /\ UNCHANGED <<client, txActive, armed, timeout, stranded, free, permanent>>
    BY <1>5 DEF Tx!QueryInTransaction
  <2>2. CASE Tx!Refused(k)
    BY <2>1, <2>2, TxRefused DEF Tx!Refused
  <2>3. CASE Tx!InTransaction /\ Tx!OnClient(k)
    <3>1. TxHolds => Expiries'
      <4>1. ASSUME TxHolds PROVE Turned(k, "working")
        BY <2>1, <2>3, <4>1, TurnOf DEF TxHolds, Early, Tx!OnClient
      <4>2. QED
        BY <1>1, <2>1, <2>3, <4>1 DEF Turned, Early
    <3>2. txActive /\ armed' \in SUBSET armed
      BY <2>1, <2>3 DEF Tx!InTransaction
    <3>3. QED
      BY <2>1, <2>3, <3>1, <3>2, TxServed
  <2>4. QED
    BY <1>5, <2>2, <2>3 DEF Tx!QueryInTransaction
<1>6. QED
  BY <1>2, <1>3, <1>4, <1>5

LEMMA TxExpires == ASSUME TxNames, ~txCrossed, TxInv, NEW b \in Tx!Begins, Tx!ExpireTransaction(b) PROVE TxInv'
<1> USE DEF Tx!studioVars
<1>1. b \in armed /\ armed' = armed \ {b} /\ run' = run /\ UNCHANGED <<client, txActive, timeout, stranded, free, permanent>>
  BY DEF Tx!ExpireTransaction
<1>2. PICK k \in Tx!Ids : k = Tx!Expiry(b) /\ k \notin Presses /\ Tx!Kind(k) = "expire"
  BY IdOf
<1>3. TxHolds /\ Expiries /\ call[k].step = "unsent" /\ call[b].step \in {"ok", "heard"} /\ b \in Tx!Ids /\ b # k
  <2>1. TxHolds
    BY DEF TxInv
  <2>2. call[k].step = "unsent" /\ call[b].step \in {"ok", "heard"}
    BY <1>1, <1>2, <2>1 DEF TxHolds, Expiries
  <2>3. QED
    BY <2>1, <2>2, IdOf DEF TxHolds
<1>4. CASE Tx!InTransaction
  <2>1. Tx!OnClient(k)
    BY <1>2, <1>4 DEF Tx!ExpireTransaction
  <2>2. Turned(k, "working")
    BY <1>3, <2>1, TurnOf DEF TxHolds, Early, Tx!OnClient
  <2>3. Expiries'
    <3>1. ASSUME NEW j \in Tx!Begins
          PROVE  /\ j \in armed' => call'[j].step \in {"ok", "heard"}
                 /\ j \in armed' \/ call'[j].step \in Early => call'[Tx!Expiry(j)].step = "unsent"
      <4>1. j \in Tx!Ids /\ Tx!Expiry(j) \in Tx!Ids
        BY IdOf
      <4>2. j # k
        BY <1>2, IdOf, KindOf DEF Tx!Begins, Tx!Kind, Tx!Expiry
      <4>3. CASE j = b
        BY <1>1, <1>3, <2>2, <4>1, <4>2, <4>3 DEF Turned, Early
      <4>4. CASE j # b
        <5>1. Tx!Expiry(j) # k
          BY <1>2, <4>4 DEF Tx!Expiry
        <5>2. QED
          BY <1>1, <1>3, <2>2, <4>1, <4>2, <5>1 DEF Turned, Expiries
      <4>5. QED
        BY <4>3, <4>4
    <3>2. QED
      BY <3>1 DEF Expiries
  <2>4. QED
    BY <1>1, <1>2, <1>3, <1>4, <2>1, <2>3, TxServed DEF Tx!Ends, Tx!InTransaction
<1>5. CASE ~Tx!InTransaction
  <2>1. UNCHANGED <<call, session, txCrossed>> /\ \A j : Tx!Kind(j)' = Tx!Kind(j)
    BY <1>5 DEF Tx!ExpireTransaction, Tx!Kind
  <2>2. TxTyped' /\ PoolKept' /\ Expiries' /\ CoversLater'
    BY <1>1, <1>3, <2>1 DEF TxHolds, TxTyped, PoolKept, Expiries, CoversLater
  <2>3. ClientHeld'
    <3>1. ~txActive
      BY <1>3, <1>5 DEF TxHolds, ClientHeld, Holding, Tx!InTransaction
    <3>2. QED
      BY <1>1, <1>3, <2>1, <3>1 DEF TxHolds, ClientHeld, Holding, Queued, Beginning
  <2>4. ConnectsAlone' /\ Played' /\ KeptByCommit'
    BY <1>1, <1>3, <2>1 DEF TxHolds, ConnectsAlone, Holding, Played, KeptByCommit, Tx!Committed
  <2>5. QED
    BY <2>2, <2>3, <2>4 DEF TxInv, TxHolds
<1>6. QED
  BY <1>4, <1>5

(* Only the held client answers, the first call of its queue: a beginning alone, or one of the transaction. *)
LEMMA TxFirst ==
  ASSUME TxNames, TxHolds, NEW c \in Clients, session[c].queue # <<>>
  PROVE  /\ c = client /\ Holding /\ session[c] \in TxSession
         /\ Tx!Next1(c) \in Tx!Ids /\ call[Tx!Next1(c)].step = "working" /\ call[Tx!Next1(c)].covers = {}
         /\ Tail(session[c].queue) \in Seq(Tx!Ids)
         /\ \A i \in DOMAIN Tail(session[c].queue) :
              /\ i + 1 \in DOMAIN session[c].queue /\ Tail(session[c].queue)[i] = session[c].queue[i + 1]
              /\ Tail(session[c].queue)[i] # Tx!Next1(c) /\ Tail(session[c].queue)[i] \in Tx!Ids
         /\ \A i \in DOMAIN session[c].queue : i = 1 \/ i - 1 \in DOMAIN Tail(session[c].queue)
         /\ Len(session[c].queue) \in Nat \ {0} /\ Len(Tail(session[c].queue)) = Len(session[c].queue) - 1
         /\ session[c].queue[1] = Tx!Next1(c) /\ 1 \in DOMAIN session[c].queue
         /\ \/ txActive /\ session[c].open /\ Tx!Kind(Tx!Next1(c)) \in Tx!Ends \cup {"query"}
            \/ ~txActive /\ ~session[c].open /\ session[c].queue = <<Tx!Next1(c)>> /\ Tx!Kind(Tx!Next1(c)) = "begin"
<1>1. c = client /\ Holding
  BY DEF TxHolds, PoolKept, Holding, TxNames, Tx!Idle
<1>2. PICK s : s = session[c]
  OBVIOUS
<1>3. s \in TxSession /\ s.queue \in Seq(Tx!Ids) /\ s.queue # <<>>
  BY <1>2 DEF TxHolds, TxTyped, TxSession
<1>4. PICK q, k : q = s.queue /\ k = Head(q)
  OBVIOUS
<1>5. Queued(q) /\ (IF txActive THEN Within(s) ELSE Beginning(s))
  BY <1>1, <1>2, <1>4 DEF TxHolds, ClientHeld
<1>6. q \in Seq(Tx!Ids) /\ q # <<>>
  BY <1>3, <1>4
<1>7. q[1] = k /\ 1 \in DOMAIN q /\ k \in Tx!Ids /\ Len(q) \in Nat \ {0} /\ Tail(q) \in Seq(Tx!Ids) /\ Len(Tail(q)) = Len(q) - 1
  BY <1>4, <1>6
<1>8. \A i \in DOMAIN Tail(q) : i + 1 \in DOMAIN q /\ Tail(q)[i] = q[i + 1] /\ i + 1 # 1 /\ Tail(q)[i] \in Tx!Ids
  BY <1>6, <1>7
<1>9. \A i \in DOMAIN q : i = 1 \/ i - 1 \in DOMAIN Tail(q)
  BY <1>6, <1>7
<1>10. \A i \in DOMAIN Tail(q) : Tail(q)[i] # k
  BY <1>5, <1>7, <1>8 DEF Queued
<1>11. call[k].step = "working" /\ call[k].covers = {}
  BY <1>5, <1>7 DEF Queued, TxHolds, CoversLater, Early
<1>12. \/ txActive /\ s.open /\ Tx!Kind(k) \in Tx!Ends \cup {"query"}
       \/ ~txActive /\ ~s.open /\ q = <<k>> /\ Tx!Kind(k) = "begin"
  <2>1. CASE txActive
    BY <1>4, <1>5, <1>7, <2>1 DEF Within
  <2>2. CASE ~txActive
    <3>1. PICK j \in Tx!Ids : q = <<j>> /\ Tx!Kind(j) = "begin"
      BY <1>4, <1>5, <2>2 DEF Beginning
    <3>2. j = k
      BY <1>4, <3>1
    <3>3. ~s.open
      BY <1>5, <2>2 DEF Beginning
    <3>4. QED
      BY <2>2, <3>1, <3>2, <3>3
  <2>3. QED
    BY <2>1, <2>2
<1>13. Tx!Next1(c) = k /\ session[c].queue = q /\ session[c] = s
  BY <1>2, <1>4 DEF Tx!Next1
<1>14. QED
  BY <1>1, <1>3, <1>7, <1>8, <1>9, <1>10, <1>11, <1>12, <1>13

LEMMA TxExpiriesAfter ==
  ASSUME TxNames, TxHolds, NEW k \in Tx!Ids, call[k].step = "working", NEW step \in {"ok", "failed"}, Turned(k, step), armed' \subseteq armed
  PROVE  Expiries'
<1>1. ASSUME NEW j \in Tx!Begins
      PROVE  /\ j \in armed' => call'[j].step \in {"ok", "heard"}
             /\ j \in armed' \/ call'[j].step \in Early => call'[Tx!Expiry(j)].step = "unsent"
  <2>1. j \in Tx!Ids /\ Tx!Expiry(j) \in Tx!Ids
    BY IdOf
  <2>2. j \in armed => call[j].step \in {"ok", "heard"}
    BY DEF TxHolds, Expiries
  <2>3. j \in armed \/ call[j].step \in Early => call[Tx!Expiry(j)].step = "unsent"
    BY DEF TxHolds, Expiries
  <2>4. call'[j].step \in Early => call[j].step \in Early
    BY <2>1 DEF Turned, Early
  <2>5. call[Tx!Expiry(j)].step = "unsent" => call'[Tx!Expiry(j)].step = "unsent"
    BY <2>1 DEF Turned
  <2>6. j \in armed' => j \in armed /\ j # k
    BY <2>2
  <2>7. QED
    BY <2>1, <2>2, <2>3, <2>4, <2>5, <2>6 DEF Turned
<1>2. QED
  BY <1>1 DEF Expiries

(* The client's first call is answered inside the transaction, and the others wait on. *)
LEMMA TxRan == ASSUME TxNames, ~txCrossed, TxInv, NEW c \in Clients, Tx!Ran(c) PROVE TxInv'
<1> USE DEF Tx!providerVars, Tx!studioVars
<1>1. TxHolds /\ session[c].queue # <<>>
  BY DEF TxInv, Tx!Ran, Tx!Answers
<1>2. PICK k \in Tx!Ids : k = Tx!Next1(c)
  BY <1>1, TxFirst
<1>3. Tx!Kind(k) = "query"
  BY <1>2 DEF Tx!Ran, Tx!Answers
<1>4. PICK s \in TxSession : s = session[c]
  BY <1>1, TxFirst
<1>5. c = client /\ Holding /\ txActive /\ s.open /\ call[k].step = "working"
  BY <1>1, <1>2, <1>3, <1>4, TxFirst
<1>6. PICK q \in Seq(Tx!Ids) : q = Tail(s.queue)
  BY <1>1, <1>4, TxFirst
<1>7. /\ \A i \in DOMAIN q : i + 1 \in DOMAIN s.queue /\ q[i] = s.queue[i + 1] /\ q[i] # k /\ q[i] \in Tx!Ids
      /\ \A i \in DOMAIN s.queue : i = 1 \/ i - 1 \in DOMAIN q
      /\ s.queue[1] = k /\ Len(q) = Len(s.queue) - 1 /\ Len(s.queue) \in Nat \ {0}
  BY <1>1, <1>2, <1>4, <1>6, TxFirst
<1>8. PICK step \in {"ok", "failed"} : call' = [call EXCEPT ![k].step = step]
  BY <1>2 DEF Tx!Ran, Tx!Step
<1>9. permanent' = permanent /\ UNCHANGED <<client, txActive, armed, timeout, stranded, free, run, txCrossed>>
  BY <1>4, <1>5 DEF Tx!Ran
<1>10. PICK t \in TxSession : session' = [session EXCEPT ![c] = t] /\ t.open = s.open /\ t.queue = q
  <2>1. CASE session' = [session EXCEPT ![c].queue = Tail(@), ![c].pending = @ \cup {Tx!Next1(c)}]
    <3>1. PICK t : t = [queue |-> q, open |-> s.open, spoiled |-> s.spoiled, pending |-> s.pending \cup {k}]
      OBVIOUS
    <3>2. PICK v : v = [queue |-> q, open |-> s.open, spoiled |-> s.spoiled, pending |-> s.pending]
      OBVIOUS
    <3>3. t \in TxSession /\ v \in TxSession
      BY <3>1, <3>2 DEF TxSession
    <3>4. PICK mid : mid = [session EXCEPT ![c].queue = Tail(@)]
      OBVIOUS
    <3>5. mid = [session EXCEPT ![c] = v]
      <4>1. mid = [session EXCEPT ![c] = [session[c] EXCEPT !.queue = Tail(session[c].queue)]]
        BY <3>4
      <4>2. [s EXCEPT !.queue = q] = v
        BY <3>2, QueueSet
      <4>3. mid = [session EXCEPT ![c] = [s EXCEPT !.queue = q]]
        BY <1>4, <1>6, <4>1
      <4>4. QED
        BY <4>2, <4>3
    <3>6. session \in [Clients -> TxSession]
      BY <1>1 DEF TxHolds, TxTyped
    <3>7. mid \in [Clients -> TxSession] /\ mid[c] = v
      BY <3>3, <3>5, <3>6
    <3>8. session' = [mid EXCEPT ![c].pending = @ \cup {Tx!Next1(c)}]
      BY <2>1, <3>4
    <3>9. session' = [mid EXCEPT ![c] = t]
      <4>1. session' = [mid EXCEPT ![c] = [mid[c] EXCEPT !.pending = mid[c].pending \cup {Tx!Next1(c)}]]
        BY <3>8
      <4>2. session' = [mid EXCEPT ![c] = [v EXCEPT !.pending = v.pending \cup {k}]]
        BY <1>2, <3>7, <4>1
      <4>3. PICK w : w = v.pending \cup {k}
        OBVIOUS
      <4>4. [v EXCEPT !.pending = w] = [queue |-> v.queue, open |-> v.open, spoiled |-> v.spoiled, pending |-> w]
        BY <3>3, PendingSet
      <4>5. [v EXCEPT !.pending = w] = t
        BY <3>1, <3>2, <4>3, <4>4
      <4>6. QED
        BY <4>2, <4>3, <4>5
    <3>10. session' = [session EXCEPT ![c] = t]
      BY <3>5, <3>6, <3>9
    <3>11. QED
      BY <3>1, <3>3, <3>10
  <2>2. CASE session' = [session EXCEPT ![c].queue = Tail(@), ![c].spoiled = session[c].open]
    <3>1. PICK t : t = [queue |-> q, open |-> s.open, spoiled |-> s.open, pending |-> s.pending]
      OBVIOUS
    <3>2. PICK v : v = [queue |-> q, open |-> s.open, spoiled |-> s.spoiled, pending |-> s.pending]
      OBVIOUS
    <3>3. t \in TxSession /\ v \in TxSession
      BY <3>1, <3>2 DEF TxSession
    <3>4. PICK mid : mid = [session EXCEPT ![c].queue = Tail(@)]
      OBVIOUS
    <3>5. mid = [session EXCEPT ![c] = v]
      <4>1. mid = [session EXCEPT ![c] = [session[c] EXCEPT !.queue = Tail(session[c].queue)]]
        BY <3>4
      <4>2. [s EXCEPT !.queue = q] = v
        BY <3>2, QueueSet
      <4>3. mid = [session EXCEPT ![c] = [s EXCEPT !.queue = q]]
        BY <1>4, <1>6, <4>1
      <4>4. QED
        BY <4>2, <4>3
    <3>6. session \in [Clients -> TxSession]
      BY <1>1 DEF TxHolds, TxTyped
    <3>7. mid \in [Clients -> TxSession] /\ mid[c] = v
      BY <3>3, <3>5, <3>6
    <3>8. session' = [mid EXCEPT ![c].spoiled = session[c].open]
      BY <2>2, <3>4
    <3>9. session' = [mid EXCEPT ![c] = t]
      <4>1. session' = [mid EXCEPT ![c] = [mid[c] EXCEPT !.spoiled = session[c].open]]
        BY <3>8
      <4>2. session' = [mid EXCEPT ![c] = [v EXCEPT !.spoiled = s.open]]
        BY <1>4, <3>7, <4>1
      <4>3. [v EXCEPT !.spoiled = s.open] = t
        BY <3>1, <3>2
      <4>4. QED
        BY <4>2, <4>3
    <3>10. session' = [session EXCEPT ![c] = t]
      BY <3>5, <3>6, <3>9
    <3>11. QED
      BY <3>1, <3>3, <3>10
  <2>3. QED
    BY <1>4, <1>5, <2>1, <2>2 DEF Tx!Ran
<1>11. session \in [Clients -> TxSession]
  BY <1>1 DEF TxHolds, TxTyped
<1>12. session' \in [Clients -> TxSession] /\ session'[c] = t /\ \A d \in Clients : d # c => session'[d] = session[d]
  BY <1>10, <1>11
<1>13. Turned(k, step)
  BY <1>1, <1>8, TurnOf DEF TxHolds
<1>14. CoversLater' /\ Played' /\ KeptByCommit' /\ run' \in [Plays -> {"idle", "beginning", "aborting", "querying", "rolling"}]
  BY <1>1, <1>5, <1>9, <1>13, TxTurned DEF Early, KeptByCommit
<1>15. Expiries'
  BY <1>1, <1>5, <1>9, <1>13, TxExpiriesAfter
<1>16. TxTyped'
  BY <1>1, <1>9, <1>12, <1>13, <1>14 DEF TxHolds, TxTyped, Turned
<1>17. PoolKept' /\ ConnectsAlone'
  BY <1>1, <1>5, <1>9, <1>12, <1>13 DEF TxHolds, PoolKept, ConnectsAlone, Holding, Turned
<1>18. Queued(s.queue) /\ Within(s) /\ (timeout \in armed \/ EndsIn(s.queue))
  BY <1>1, <1>4, <1>5 DEF TxHolds, ClientHeld
<1>19. \A i \in DOMAIN q : call'[q[i]] = call[q[i]] /\ Tx!Kind(q[i])' = Tx!Kind(q[i])
  BY <1>7, <1>13, SameKinds DEF Turned
<1>20. Queued(q)'
  <2>1. DOMAIN q = 1..Len(q) /\ DOMAIN s.queue = 1..Len(s.queue)
    BY <1>4, <1>6 DEF TxSession
  <2>2. \A i \in DOMAIN q : call'[q[i]].step = "working"
    BY <1>7, <1>18, <1>19 DEF Queued
  <2>3. \A i, j \in DOMAIN q : q[i] = q[j] => i = j
    <3>1. ASSUME NEW i \in DOMAIN q, NEW j \in DOMAIN q, q[i] = q[j] PROVE i = j
      <4>1. i + 1 = j + 1
        BY <1>7, <1>18, <3>1 DEF Queued
      <4>2. QED
        BY <2>1, <4>1
    <3>2. QED
      BY <3>1
  <2>4. \A i \in DOMAIN q : Tx!Kind(q[i])' \in Tx!Ends => i = Len(q)
    <3>1. ASSUME NEW i \in DOMAIN q, Tx!Kind(q[i])' \in Tx!Ends PROVE i = Len(q)
      <4>1. i + 1 = Len(s.queue)
        BY <1>7, <1>18, <1>19, <3>1 DEF Queued
      <4>2. QED
        BY <1>7, <2>1, <4>1
    <3>2. QED
      BY <3>1
  <2>5. QED
    BY <2>2, <2>3, <2>4 DEF Queued, Tx!Ends
<1>21. Within(t)'
  <2>1. \A i \in DOMAIN s.queue : Tx!Kind(s.queue[i]) \in Tx!Ends \cup {"query"}
    BY <1>18 DEF Within
  <2>2. \A i \in DOMAIN q : Tx!Kind(q[i]) \in Tx!Ends \cup {"query"}
    BY <1>7, <2>1
  <2>3. \A i \in DOMAIN q : Tx!Kind(q[i])' \in Tx!Ends \cup {"query"}
    BY <1>19, <2>2
  <2>4. t.open /\ t.queue = q
    BY <1>5, <1>10
  <2>5. QED
    BY <2>3, <2>4 DEF Within, Tx!Ends
<1>22. EndsIn(s.queue) => EndsIn(q)'
  <2>1. ASSUME NEW i \in DOMAIN s.queue, Tx!Kind(s.queue[i]) \in Tx!Ends PROVE EndsIn(q)'
    <3>1. i # 1 /\ i \in Nat
      BY <1>3, <1>4, <1>7, <2>1 DEF Tx!Ends, TxSession
    <3>2. PICK j \in DOMAIN q : j = i - 1
      BY <1>7, <3>1
    <3>3. q[j] = s.queue[i]
      BY <1>7, <3>1, <3>2
    <3>4. Tx!Kind(q[j])' \in Tx!Ends
      BY <1>19, <2>1, <3>2, <3>3
    <3>5. QED
      BY <3>2, <3>4 DEF EndsIn, Tx!Ends
  <2>2. QED
    BY <2>1 DEF EndsIn
<1>23. ClientHeld'
  <2>1. session'[client'] = t /\ t.queue = q /\ txActive' /\ Holding'
    BY <1>5, <1>9, <1>10, <1>12 DEF Holding
  <2>2. timeout' \in armed' \/ EndsIn(q)'
    BY <1>9, <1>18, <1>22
  <2>3. QED
    BY <1>20, <1>21, <2>1, <2>2 DEF ClientHeld
<1>24. QED
  BY <1>14, <1>15, <1>16, <1>17, <1>23 DEF TxInv, TxHolds

LEMMA TxBegun == ASSUME TxNames, ~txCrossed, TxInv, NEW c \in Clients, Tx!Begun(c) PROVE TxInv'
<1> USE DEF Tx!studioVars
<1>1. TxHolds /\ session[c].queue # <<>>
  BY DEF TxInv, Tx!Begun, Tx!Answers
<1>2. PICK k \in Tx!Ids : k = Tx!Next1(c)
  BY <1>1, TxFirst
<1>3. Tx!Kind(k) = "begin"
  BY <1>2 DEF Tx!Begun, Tx!Answers
<1>4. PICK s \in TxSession : s = session[c]
  BY <1>1, TxFirst
<1>5. c = client /\ Holding /\ ~txActive /\ s.queue = <<k>> /\ call[k].step = "working"
  BY <1>1, <1>2, <1>3, <1>4, TxFirst DEF Tx!Ends
<1>6. call' = [call EXCEPT ![k].step = "ok"]
  BY <1>2 DEF Tx!Begun, Tx!Step
<1>7. /\ UNCHANGED <<client, stranded, free, permanent, run, txCrossed>>
      /\ txActive' = TRUE /\ armed' = armed \cup {k} /\ timeout' = k
  BY <1>2 DEF Tx!Begun
<1>8. PICK t \in TxSession : session' = [session EXCEPT ![c] = t] /\ t.open /\ t.queue = <<>>
  <2>1. PICK t : t = [queue |-> <<>>, open |-> TRUE, spoiled |-> s.spoiled, pending |-> s.pending]
    OBVIOUS
  <2>2. PICK v : v = [queue |-> <<>>, open |-> s.open, spoiled |-> s.spoiled, pending |-> s.pending]
    OBVIOUS
  <2>3. <<>> \in Seq(Tx!Ids)
    OBVIOUS
  <2>4. t \in TxSession /\ v \in TxSession
    BY <2>1, <2>2, <2>3 DEF TxSession
  <2>5. PICK mid : mid = [session EXCEPT ![c].queue = Tail(@)]
    OBVIOUS
  <2>6. mid = [session EXCEPT ![c] = v]
    <3>1. mid = [session EXCEPT ![c] = [session[c] EXCEPT !.queue = Tail(session[c].queue)]]
      BY <2>5
    <3>2. [s EXCEPT !.queue = <<>>] = v
      BY <2>2, QueueSet
    <3>3. Tail(s.queue) = <<>>
      BY <1>5
    <3>4. mid = [session EXCEPT ![c] = [s EXCEPT !.queue = <<>>]]
      BY <1>4, <3>1, <3>3
    <3>5. QED
      BY <3>2, <3>4
  <2>7. session \in [Clients -> TxSession]
    BY <1>1 DEF TxHolds, TxTyped
  <2>8. mid \in [Clients -> TxSession] /\ mid[c] = v
    BY <2>4, <2>6, <2>7
  <2>9. session' = [mid EXCEPT ![c].open = TRUE]
    BY <2>5 DEF Tx!Begun
  <2>10. session' = [mid EXCEPT ![c] = t]
    <3>1. session' = [mid EXCEPT ![c] = [mid[c] EXCEPT !.open = TRUE]]
      BY <2>9
    <3>2. [v EXCEPT !.open = TRUE] = t
      BY <2>1, <2>2, <2>4, OpenSet
    <3>3. QED
      BY <2>8, <3>1, <3>2
  <2>11. session' = [session EXCEPT ![c] = t]
    BY <2>6, <2>7, <2>10
  <2>12. QED
    BY <2>1, <2>4, <2>11
<1>9. session' \in [Clients -> TxSession] /\ session'[c] = t /\ \A d \in Clients : d # c => session'[d] = session[d]
  <2>1. session \in [Clients -> TxSession]
    BY <1>1 DEF TxHolds, TxTyped
  <2>2. QED
    BY <1>8, <2>1
<1>10. Turned(k, "ok")
  BY <1>1, <1>6, TurnOf DEF TxHolds
<1>11. CoversLater' /\ Played' /\ KeptByCommit' /\ run' \in [Plays -> {"idle", "beginning", "aborting", "querying", "rolling"}]
  BY <1>1, <1>5, <1>7, <1>10, TxTurned DEF Early, KeptByCommit
<1>12. Expiries'
  <2>1. ASSUME NEW j \in Tx!Begins
        PROVE  /\ j \in armed' => call'[j].step \in {"ok", "heard"}
               /\ j \in armed' \/ call'[j].step \in Early => call'[Tx!Expiry(j)].step = "unsent"
    <3>1. j \in Tx!Ids /\ Tx!Expiry(j) \in Tx!Ids /\ k # Tx!Expiry(j)
      BY <1>3, IdOf, KindOf
    <3>2. Expiries
      BY <1>1 DEF TxHolds
    <3>3. CASE j = k
      BY <1>5, <1>10, <3>1, <3>2, <3>3 DEF Expiries, Turned, Early
    <3>4. CASE j # k
      BY <1>7, <1>10, <3>1, <3>2, <3>4 DEF Expiries, Turned
    <3>5. QED
      BY <3>3, <3>4
  <2>2. QED
    BY <2>1 DEF Expiries
<1>13. TxTyped'
  <2>1. k \in Tx!Begins
    BY <1>3, KindOf
  <2>2. QED
    BY <1>1, <1>7, <1>9, <1>10, <1>11, <2>1 DEF TxHolds, TxTyped, Turned
<1>14. PoolKept' /\ ConnectsAlone'
  BY <1>1, <1>5, <1>7, <1>9, <1>10 DEF TxHolds, PoolKept, ConnectsAlone, Holding, Turned
<1>15. ClientHeld'
  <2>1. session'[client'] = t /\ txActive' /\ Holding' /\ timeout' \in armed'
    BY <1>5, <1>7, <1>9 DEF Holding
  <2>2. DOMAIN t.queue = {}
    BY <1>8
  <2>3. Queued(t.queue)' /\ Within(t)'
    BY <1>8, <2>2 DEF Queued, Within
  <2>4. QED
    BY <2>1, <2>3 DEF ClientHeld
<1>16. QED
  BY <1>11, <1>12, <1>13, <1>14, <1>15 DEF TxInv, TxHolds

(* The end is the last of its queue: the client goes back to the pool as it came. *)
LEMMA TxEnded == ASSUME TxNames, ~txCrossed, TxInv, NEW c \in Clients, Tx!Ended(c) PROVE TxInv'
<1> USE DEF Tx!studioVars
<1>1. TxHolds /\ session[c].queue # <<>>
  BY DEF TxInv, Tx!Ended, Tx!Answers
<1>2. PICK k \in Tx!Ids : k = Tx!Next1(c)
  BY <1>1, TxFirst
<1>3. Tx!Kind(k) \in Tx!Ends
  BY <1>2 DEF Tx!Ended, Tx!Answers
<1>4. PICK s \in TxSession : s = session[c]
  BY <1>1, TxFirst
<1>5. /\ c = client /\ Holding /\ client # NULL /\ client \in Clients /\ client \notin stranded
      /\ txActive /\ call[k].step = "working" /\ stranded' = stranded
  BY <1>1, <1>2, <1>3, <1>4, TxFirst DEF Holding, Tx!Ends, Tx!Ended
<1>6. Tail(s.queue) = <<>>
  <2>1. Queued(s.queue) /\ s.queue[1] = k /\ 1 \in DOMAIN s.queue
    BY <1>1, <1>2, <1>4, <1>5, TxFirst DEF TxHolds, ClientHeld
  <2>2. Len(s.queue) = 1
    BY <1>3, <2>1 DEF Queued
  <2>3. Tail(s.queue) \in Seq(Tx!Ids) /\ Len(Tail(s.queue)) = 0
    BY <1>1, <1>4, <2>2, TxFirst
  <2>4. \A q \in Seq(Tx!Ids) : Len(q) = 0 => q = <<>>
    OBVIOUS
  <2>5. QED
    BY <2>3, <2>4
<1>7. session' = [session EXCEPT ![c] = Tx!Idle]
  <2>1. [Tx!Idle EXCEPT !.queue = <<>>] = Tx!Idle
    <3>1. [Tx!Idle EXCEPT !.queue = <<>>] =
            [queue |-> <<>>, open |-> Tx!Idle.open, spoiled |-> Tx!Idle.spoiled, pending |-> Tx!Idle.pending]
      BY IdleTyped, QueueSet
    <3>2. Tx!Idle.open = FALSE /\ Tx!Idle.spoiled = FALSE /\ Tx!Idle.pending = {}
      BY DEF Tx!Idle
    <3>3. QED
      BY <3>1, <3>2 DEF Tx!Idle
  <2>2. session' = [session EXCEPT ![c] = [Tx!Idle EXCEPT !.queue = Tail(session[c].queue)]]
    BY DEF Tx!Ended
  <2>3. QED
    BY <1>4, <1>6, <2>1, <2>2
<1>8. PICK ok \in BOOLEAN :
        /\ permanent' = IF Tx!Keeps(c) /\ ok THEN permanent \cup session[c].pending ELSE permanent
        /\ call' = [Tx!Step(c, IF ok /\ client # NULL THEN "ok" ELSE "failed") EXCEPT ![Tx!Next1(c)].covers = session[c].pending]
        /\ IF client = NULL THEN UNCHANGED <<free, client, txActive>> ELSE Tx!Release(ok)
  BY DEF Tx!Ended
<1>9. free' = free \cup {client} /\ client' = NULL /\ txActive' = FALSE /\ run' = run /\ armed' \subseteq armed
  BY <1>5, <1>8 DEF Tx!Release, Tx!Ended
<1>10. PICK step \in {"ok", "failed"} : step = IF ok /\ client # NULL THEN "ok" ELSE "failed"
  OBVIOUS
<1>11. PICK one \in TxCall : /\ call' = [call EXCEPT ![k] = one] /\ one.step = step /\ one.asked = call[k].asked /\ one.covers = s.pending
  <2>1. PICK one : one = [asked |-> call[k].asked, step |-> step, covers |-> s.pending]
    OBVIOUS
  <2>2. PICK half : half = [asked |-> call[k].asked, step |-> step, covers |-> call[k].covers]
    OBVIOUS
  <2>3. call \in [Tx!Ids -> TxCall] /\ call[k] \in TxCall
    BY <1>1 DEF TxHolds, TxTyped
  <2>4. one \in TxCall /\ half \in TxCall
    BY <1>4, <2>1, <2>2, <2>3 DEF TxCall, TxSession
  <2>5. PICK mid : mid = [call EXCEPT ![k].step = step]
    OBVIOUS
  <2>6. mid = [call EXCEPT ![k] = half]
    <3>1. PICK old : old = call[k]
      OBVIOUS
    <3>2. [old EXCEPT !.step = step] = half
      BY <2>2, <2>3, <3>1 DEF TxCall
    <3>3. mid = [call EXCEPT ![k] = [old EXCEPT !.step = step]]
      BY <2>5, <3>1
    <3>4. QED
      BY <3>2, <3>3
  <2>7. mid \in [Tx!Ids -> TxCall] /\ mid[k] = half
    BY <2>3, <2>4, <2>6
  <2>8. call' = [mid EXCEPT ![k].covers = s.pending]
    BY <1>2, <1>4, <1>8, <1>10, <2>5 DEF Tx!Step
  <2>9. call' = [mid EXCEPT ![k] = one]
    <3>1. call' = [mid EXCEPT ![k] = [mid[k] EXCEPT !.covers = s.pending]]
      BY <2>8
    <3>2. [half EXCEPT !.covers = s.pending] = one
      BY <2>1, <2>2, <2>4, CoversSet
    <3>3. QED
      BY <2>7, <3>1, <3>2
  <2>10. call' = [call EXCEPT ![k] = one]
    BY <2>3, <2>6, <2>9
  <2>11. QED
    BY <2>1, <2>4, <2>10
<1>12. Turned(k, step) /\ call'[k].covers = s.pending
  <2>1. call \in [Tx!Ids -> TxCall]
    BY <1>1 DEF TxHolds, TxTyped
  <2>2. QED
    BY <1>11, <2>1 DEF Turned
<1>13. CoversLater' /\ Played' /\ (\A j \in permanent : Tx!Committed(j)') /\ run' \in [Plays -> {"idle", "beginning", "aborting", "querying", "rolling"}]
  BY <1>1, <1>5, <1>9, <1>12, TxTurned DEF Early
<1>14. KeptByCommit'
  <2>1. ASSUME NEW j \in permanent', j \notin permanent PROVE Tx!Committed(j)'
    <3>1. Tx!Keeps(c) /\ j \in s.pending
      BY <1>4, <1>8, <2>1
    <3>2. Tx!Kind(k) = "commit" /\ k \in Presses
      BY <1>2, <3>1, KindOf DEF Tx!Keeps
    <3>3. Tx!Kind(k)' = "commit"
      BY <1>12, <3>2, SameKinds
    <3>4. QED
      BY <1>12, <3>1, <3>2, <3>3 DEF Tx!Committed
  <2>2. QED
    BY <1>13, <2>1 DEF KeptByCommit
<1>15. Expiries'
  BY <1>1, <1>5, <1>9, <1>12, TxExpiriesAfter
<1>16. PoolKept'
  <2>1. /\ free = Clients \ (stranded \cup {client}) /\ stranded \subseteq Clients
        /\ \A d \in Clients : d # client => session[d] = Tx!Idle
    BY <1>1 DEF TxHolds, PoolKept
  <2>2. session \in [Clients -> TxSession]
    BY <1>1 DEF TxHolds, TxTyped
  <2>3. \A d \in Clients : session'[d] = Tx!Idle
    BY <1>5, <1>7, <2>1, <2>2
  <2>4. free' = Clients \ (stranded' \cup {client'}) /\ stranded' \subseteq Clients
    BY <1>5, <1>9, <2>1 DEF TxNames
  <2>5. QED
    BY <2>3, <2>4 DEF PoolKept, Tx!Idle
<1>17. TxTyped'
  <2>1. Tx!Idle \in TxSession
    BY IdleTyped
  <2>2. session' \in [Clients -> TxSession]
    BY <1>1, <1>7, <2>1 DEF TxHolds, TxTyped
  <2>3. QED
    BY <1>1, <1>9, <1>12, <1>13, <2>2 DEF TxHolds, TxTyped, Turned
<1>18. ConnectsAlone' /\ ClientHeld'
  BY <1>1, <1>5, <1>9, <1>12 DEF TxHolds, ConnectsAlone, Holding, Turned, ClientHeld
<1>19. QED
  BY <1>13, <1>14, <1>15, <1>16, <1>17, <1>18 DEF TxInv, TxHolds

(* A BEGIN that fails is its client's only call: nothing is held any more, and the client is stranded. *)
LEMMA TxBreaks == ASSUME TxNames, ~txCrossed, TxInv, NEW c \in Clients, Tx!BeginBreaks(c) PROVE TxInv'
<1> USE DEF Tx!studioVars
<1>1. TxHolds /\ session[c].queue # <<>>
  BY DEF TxInv, Tx!BeginBreaks, Tx!Answers
<1>2. PICK k \in Tx!Ids : k = Tx!Next1(c)
  BY <1>1, TxFirst
<1>3. Tx!Kind(k) = "begin"
  BY <1>2 DEF Tx!BeginBreaks, Tx!Answers
<1>4. PICK s \in TxSession : s = session[c]
  BY <1>1, TxFirst
<1>5. /\ c = client /\ Holding /\ ~txActive /\ ~s.open /\ s.queue = <<k>> /\ call[k].step = "working"
      /\ session \in [Clients -> TxSession]
  BY <1>1, <1>2, <1>3, <1>4, TxFirst DEF Tx!Ends, TxHolds, TxTyped
<1>6. call' = [call EXCEPT ![k].step = "failed"]
  BY <1>2 DEF Tx!BeginBreaks, Tx!Step
<1>7. stranded' = stranded \cup {c} /\ UNCHANGED <<client, txActive, armed, timeout, free, permanent, run, txCrossed>>
  BY DEF Tx!BeginBreaks
<1>8. PICK t \in TxSession : session' = [session EXCEPT ![c] = t] /\ t = [s EXCEPT !.queue = <<>>]
  <2>1. PICK t : t = [queue |-> <<>>, open |-> s.open, spoiled |-> s.spoiled, pending |-> s.pending]
    OBVIOUS
  <2>2. <<>> \in Seq(Tx!Ids) /\ Tail(s.queue) = <<>>
    BY <1>5
  <2>3. t \in TxSession
    BY <2>1, <2>2 DEF TxSession
  <2>4. [s EXCEPT !.queue = <<>>] = t
    BY <2>1, QueueSet
  <2>5. session' = [session EXCEPT ![c] = [session[c] EXCEPT !.queue = Tail(session[c].queue)]]
    BY DEF Tx!BeginBreaks
  <2>6. session' = [session EXCEPT ![c] = [s EXCEPT !.queue = <<>>]]
    BY <1>4, <2>2, <2>5
  <2>7. QED
    BY <2>3, <2>4, <2>6
<1>9. session' \in [Clients -> TxSession] /\ session'[c] = t /\ \A d \in Clients : d # c => session'[d] = session[d]
  BY <1>5, <1>8
<1>10. t = Tx!Idle
  <2>1. Beginning(s)
    BY <1>1, <1>4, <1>5 DEF TxHolds, ClientHeld
  <2>2. s.open = FALSE /\ s.spoiled = FALSE /\ s.pending = {}
    BY <1>4, <2>1 DEF Beginning, TxSession
  <2>3. t = [queue |-> <<>>, open |-> s.open, spoiled |-> s.spoiled, pending |-> s.pending]
    BY <1>8, QueueSet
  <2>4. QED
    BY <2>2, <2>3 DEF Tx!Idle
<1>11. Turned(k, "failed")
  BY <1>1, <1>6, TurnOf DEF TxHolds
<1>12. CoversLater' /\ Played' /\ KeptByCommit' /\ run' \in [Plays -> {"idle", "beginning", "aborting", "querying", "rolling"}]
  BY <1>1, <1>5, <1>7, <1>11, TxTurned DEF Early, KeptByCommit
<1>13. Expiries'
  BY <1>1, <1>5, <1>7, <1>11, TxExpiriesAfter
<1>14. TxTyped'
  BY <1>1, <1>7, <1>9, <1>11, <1>12 DEF TxHolds, TxTyped, Turned
<1>15. PoolKept'
  <2>1. /\ free = Clients \ (stranded \cup {client}) /\ stranded \subseteq Clients
        /\ \A d \in Clients : d # c => session[d] = Tx!Idle
    BY <1>1, <1>5 DEF TxHolds, PoolKept
  <2>2. \A d \in Clients : session'[d] = Tx!Idle
    BY <1>9, <1>10, <2>1
  <2>3. free' = Clients \ (stranded' \cup {client'}) /\ stranded' \subseteq Clients
    BY <1>5, <1>7, <2>1
  <2>4. QED
    BY <2>2, <2>3 DEF PoolKept, Tx!Idle
<1>16. ConnectsAlone' /\ ClientHeld'
  <2>1. ~Holding' /\ ~txActive'
    BY <1>5, <1>7 DEF Holding
  <2>2. \A j \in Tx!Ids : call'[j].step # "connecting"
    BY <1>1, <1>5, <1>11 DEF TxHolds, ConnectsAlone, Turned
  <2>3. QED
    BY <2>1, <2>2 DEF ConnectsAlone, ClientHeld
<1>17. QED
  BY <1>12, <1>13, <1>14, <1>15, <1>16 DEF TxInv, TxHolds

LEMMA TxStep == ASSUME TxNames, TxInv, txCrossed => txCrossed', [Tx!TxNext]_txVars PROVE TxInv'
<1>1. CASE UNCHANGED txVars
  <2>1. (TxTyped => TxTyped') /\ (PoolKept => PoolKept')
    BY <1>1 DEF txVars, TxTyped, PoolKept
  <2>2. ClientHeld => ClientHeld'
    BY <1>1 DEF txVars, ClientHeld, Holding, Queued, EndsIn, Within, Beginning, Tx!Kind
  <2>3. (ConnectsAlone => ConnectsAlone') /\ (Expiries => Expiries') /\ (CoversLater => CoversLater')
    BY <1>1 DEF txVars, ConnectsAlone, Holding, Expiries, CoversLater, Tx!Kind
  <2>4. (Played => Played') /\ (KeptByCommit => KeptByCommit')
    BY <1>1 DEF txVars, Played, KeptByCommit, Tx!Committed, Tx!Kind
  <2>5. txCrossed' = txCrossed
    BY <1>1 DEF txVars
  <2>6. QED
    BY <2>1, <2>2, <2>3, <2>4, <2>5 DEF TxInv, TxHolds
<1>2. CASE txCrossed
  BY <1>2 DEF TxInv
<1>3. CASE ~txCrossed /\ Tx!TxNext
  <2>1. ASSUME NEW c \in Clients, Tx!Engine(c) PROVE TxInv'
    BY <1>3, <2>1, TxBegun, TxBreaks, TxEnded, TxRan DEF Tx!Engine
  <2>2. QED
    BY <1>3, <2>1, TxPressed, TxPlayed, TxAsked, TxExpires DEF Tx!TxNext
<1>4. QED
  BY <1>1, <1>2, <1>3

LEMMA TxStarts == ASSUME TxNames, Tx!TxInit PROVE TxInv
<1>1. TxTyped
  <2>1. Tx!Unused \in TxCall
    BY DEF Tx!Unused, TxCall, Early
  <2>2. Tx!Idle \in TxSession
    BY IdleTyped
  <2>3. QED
    BY <2>1, <2>2 DEF Tx!TxInit, TxTyped
<1>2. PoolKept /\ ClientHeld
  BY DEF Tx!TxInit, PoolKept, ClientHeld, Holding, TxNames
<1>3. ConnectsAlone /\ Expiries /\ CoversLater /\ Played /\ KeptByCommit
  BY IdOf DEF Tx!TxInit, Tx!Unused, ConnectsAlone, Expiries, CoversLater, Played, KeptByCommit
<1>4. QED
  BY <1>1, <1>2, <1>3 DEF TxInv, TxHolds

LEMMA TxKept == ASSUME TxNames, TxInv, [PartsNext]_vars PROVE TxInv'
<1>1. (txCrossed => UNCHANGED txVars) \/ ~[PartsNext]_vars
  BY DEF PartsNext, vars, txVars, servedVars, dataVars, ServedMove, TokensMove, WindowsMove, ProvidersMove, ExportMoves, LeasesMove, SyncMoves,
     DataMove, SeedMoves, TransactionsMove, JobsMove, ProvisioningMoves, TabsMove, StudioMoves, PanelMoves
<1>2. txCrossed => txCrossed'
  BY <1>1 DEF txVars
<1>3. [Tx!TxNext]_txVars
  BY EachPartSteps
<1>4. QED
  BY <1>2, <1>3, TxStep

LEMMA PartsKeepTx == ASSUME TxNames PROVE PartsSpec => []TxInv
<1>1. PartsInit => TxInv
  BY EachPartBegins, TxStarts
<1>2. TxInv /\ [PartsNext]_vars => TxInv'
  BY TxKept
<1>3. QED
  BY <1>1, <1>2, PTL DEF PartsSpec

(* Until calls cross, no client is lost to the pool but by a BEGIN that failed, and an open transaction *)
(* has its timer or its end on the way (providers/sql/postgres.ts).                                     *)
THEOREM NothingLeakedHolds == ASSUME TxNames PROVE PartsSpec => []NothingLeaked
<1>1. TxInv => NothingLeaked
  <2> SUFFICES ASSUME TxInv, ~txCrossed PROVE Tx!ClientsReturned /\ Tx!LocksFreed
    BY DEF NothingLeaked, Tx!ClientsReturned, Tx!LocksFreed
  <2>1. TxHolds
    BY DEF TxInv
  <2>2. Tx!ClientsReturned
    BY <2>1 DEF TxHolds, PoolKept, Tx!ClientsReturned
  <2>3. ASSUME NEW c \in Clients, session[c].open
        PROVE  timeout \in armed \/ \E i \in DOMAIN session[c].queue : Tx!Kind(session[c].queue[i]) \in Tx!Ends
    <3>1. c = client /\ Holding
      BY <2>1, <2>3 DEF TxHolds, PoolKept, Holding, Tx!Idle, TxNames
    <3>2. txActive
      BY <2>1, <2>3, <3>1 DEF TxHolds, ClientHeld, Beginning
    <3>3. QED
      BY <2>1, <3>1, <3>2 DEF TxHolds, ClientHeld, EndsIn
  <2>4. QED
    BY <2>2, <2>3 DEF Tx!LocksFreed
<1>2. QED
  BY <1>1, PartsKeepTx, PTL

(* What a playground run did is never kept, unless calls crossed or the person's own Commit took *)
(* it along (use-query-execution.ts, providers/sql/postgres.ts).                                  *)
THEOREM PlaygroundUndoneHolds == ASSUME TxNames PROVE PartsSpec => []PlaygroundUndone
<1>1. TxInv => PlaygroundUndone
  BY DEF TxInv, TxHolds, KeptByCommit, PlaygroundUndone, Tx!PlaygroundUndone
<1>2. QED
  BY <1>1, PartsKeepTx, PTL

-----------------------------------------------------------------------------
(* Provisioning: while runs do not cross, the one under way has made the accounts its plan is past, and *)
(* an account of a completed run opens with the password that run kept.                                 *)

(* What a run has left to do, from its first grant on. *)
ToKeep == IF vault THEN <<"read", "write", "find", "store">> ELSE <<"find", "store">>
GrantThen(rest) == <<"grants">> \o rest
AgentPlan == <<"agent", "grants">> \o ToKeep
AfterPortal(agent) == GrantThen(IF agent THEN AgentPlan ELSE ToKeep)
Steps == {"portal", "agent", "grants", "read", "write", "find", "store"}

LEMMA Grants ==
  ASSUME NEW rest \in Seq(Steps)
  PROVE  /\ Head(GrantThen(rest)) = "grants" /\ Tail(GrantThen(rest)) = rest
         /\ GrantThen(rest) # <<>> /\ GrantThen(rest) \in Seq(Steps)
<1>1. PICK h \in Steps : h = "grants"
  BY DEF Steps
<1>2. Head(<<h>> \o rest) = h /\ Tail(<<h>> \o rest) = rest /\ <<h>> \o rest # <<>> /\ <<h>> \o rest \in Seq(Steps)
  OBVIOUS
<1>3. QED
  BY <1>1, <1>2 DEF GrantThen

LEMMA PartsOfPlan ==
  \A q \in {<<>>, <<"portal", "grants">>, <<"agent", "grants">>, <<"read", "write">>, <<"find", "store">>,
             <<"read", "write", "find", "store">>, <<"write", "find", "store">>, <<"store">>} : q \in Seq(Steps)
<1>1. <<>> \in Seq(Steps) /\ <<"portal", "grants">> \in Seq(Steps) /\ <<"agent", "grants">> \in Seq(Steps)
  BY DEF Steps
<1>2. <<"read", "write">> \in Seq(Steps) /\ <<"find", "store">> \in Seq(Steps) /\ <<"store">> \in Seq(Steps)
  BY DEF Steps
<1>3. <<"read", "write", "find", "store">> \in Seq(Steps) /\ <<"write", "find", "store">> \in Seq(Steps)
  BY DEF Steps
<1>4. QED
  BY <1>1, <1>2, <1>3

LEMMA PlanOf ==
  ASSUME NEW agent \in BOOLEAN
  PROVE  /\ Accounts!Statements(agent) \o Accounts!Keeping # <<>>
         /\ Accounts!Statements(agent) \o Accounts!Keeping \in Seq(Steps)
         /\ Head(Accounts!Statements(agent) \o Accounts!Keeping) = "portal"
         /\ Tail(Accounts!Statements(agent) \o Accounts!Keeping) = AfterPortal(agent)
<1>1. /\ Accounts!Statements(agent) \o Accounts!Keeping # <<>>
      /\ Head(Accounts!Statements(agent) \o Accounts!Keeping) = "portal"
  BY DEF Accounts!Statements, Accounts!Keeping
<1>2. Tail(Accounts!Statements(agent) \o Accounts!Keeping) = AfterPortal(agent)
  BY DEF Accounts!Statements, Accounts!Keeping, AfterPortal, GrantThen, AgentPlan, ToKeep
<1>3. Accounts!Statements(agent) \in Seq(Steps)
  <2>1. <<"portal", "grants">> \o <<"agent", "grants">> \in Seq(Steps) /\ <<"portal", "grants">> \o <<>> \in Seq(Steps)
    BY PartsOfPlan
  <2>2. QED
    BY <2>1 DEF Accounts!Statements
<1>4. Accounts!Keeping \in Seq(Steps)
  <2>1. <<"read", "write">> \o <<"find", "store">> \in Seq(Steps) /\ <<>> \o <<"find", "store">> \in Seq(Steps)
    BY PartsOfPlan
  <2>2. QED
    BY <2>1 DEF Accounts!Keeping
<1>5. QED
  BY <1>1, <1>2, <1>3, <1>4

LEMMA PlanOfAgent ==
  /\ Head(AgentPlan) = "agent" /\ Tail(AgentPlan) = GrantThen(ToKeep)
  /\ AgentPlan # <<>> /\ AgentPlan \in Seq(Steps) /\ ToKeep \in Seq(Steps)
<1>1. ToKeep \in Seq(Steps)
  BY PartsOfPlan DEF ToKeep
<1>2. Head(AgentPlan) = "agent" /\ AgentPlan # <<>>
  BY DEF AgentPlan, ToKeep
<1>3. Tail(AgentPlan) = GrantThen(ToKeep)
  BY DEF AgentPlan, GrantThen, ToKeep
<1>4. <<"agent", "grants">> \in Seq(Steps)
  BY PartsOfPlan
<1>5. AgentPlan \in Seq(Steps)
  BY <1>1, <1>4 DEF AgentPlan
<1>6. QED
  BY <1>1, <1>2, <1>3, <1>5

LEMMA PlanKept ==
  /\ vault => Head(ToKeep) = "read" /\ Tail(ToKeep) = <<"write", "find", "store">>
  /\ ~vault => ToKeep = <<"find", "store">>
  /\ ToKeep # <<>>
  /\ Head(<<"write", "find", "store">>) = "write" /\ Tail(<<"write", "find", "store">>) = <<"find", "store">>
  /\ Head(<<"find", "store">>) = "find" /\ Tail(<<"find", "store">>) = <<"store">>
  /\ Head(<<"store">>) = "store" /\ <<"find", "store">> # <<>> /\ <<"store">> # <<>>
BY DEF ToKeep

Records == [there: BOOLEAN, url: BOOLEAN, portal: Accounts!Held \cup Paths, agent: Accounts!Held \cup Paths]
ProvisionRun ==
  [outcome: {"idle", "running", "done", "stopped", "failed"}, agent: BOOLEAN, path: Paths, todo: Seq(Steps),
   keys: [Accounts!Accounts -> Accounts!Held], copy: Records \cup {NULL}]
ProvisionTyped ==
  /\ engine \in [Accounts!Accounts -> Accounts!Runs \cup {NULL}] /\ record \in Records
  /\ secret \in [Paths -> [Accounts!Accounts -> Accounts!Held]] /\ provision \in [Accounts!Runs -> ProvisionRun]

MadeBy(r, doing) == \A a \in Accounts!Provisioned(doing.agent) : engine[a] = r
KeptBy(r, doing) == vault => \A a \in Accounts!Provisioned(doing.agent) : secret[doing.path][a] = r
AtPlan(r, doing) ==
  \/ doing.todo # <<>> /\ Head(doing.todo) = "portal" /\ Tail(doing.todo) = AfterPortal(doing.agent)
  \/ doing.todo = AfterPortal(doing.agent) /\ engine["portal"] = r
  \/ doing.agent /\ doing.todo = AgentPlan /\ engine["portal"] = r
  \/ doing.todo = GrantThen(ToKeep) /\ MadeBy(r, doing)
AtKeeping(r, doing) ==
  /\ MadeBy(r, doing)
  /\ \/ doing.todo = ToKeep
     \/ vault /\ doing.todo = <<"write", "find", "store">> /\ doing.keys = secret[doing.path]
     \/ doing.todo = <<"find", "store">> /\ KeptBy(r, doing)
     \/ doing.todo = <<"store">> /\ KeptBy(r, doing) /\ doing.copy \in Records /\ doing.copy.agent = record.agent
RunFits(r, doing) ==
  doing.outcome = "running" => ~Accounts!Clobbers(doing.path, doing.agent) /\ (AtPlan(r, doing) \/ AtKeeping(r, doing))

OneUnderWay == \A r, q \in Accounts!Runs : provision[r].outcome = "running" /\ provision[q].outcome = "running" => r = q
EnginesRun ==
  \A r \in Accounts!Runs : \A a \in Accounts!Accounts :
    engine[a] = r => provision[r].outcome # "idle" /\ a \in Accounts!Provisioned(provision[r].agent)
DoneOpens ==
  \A r \in Accounts!Runs : \A a \in Accounts!Accounts :
    engine[a] = r /\ provision[r].outcome = "done" => Accounts!Password(a) = r

ProvisionHolds ==
  /\ ProvisionTyped /\ OneUnderWay /\ EnginesRun /\ DoneOpens
  /\ \A r \in Accounts!Runs : RunFits(r, provision[r])
ProvisionInv == ~provisionCrossed => ProvisionHolds

(* A step of the run under way, which is alone. *)
LEMMA RunSteps ==
  ASSUME ProvisionHolds, NEW r \in Accounts!Runs, provision[r].outcome = "running", NEW next \in ProvisionRun,
         provision' = [provision EXCEPT ![r] = next], next.agent = provision[r].agent, next.outcome # "idle",
         engine' \in [Accounts!Accounts -> Accounts!Runs \cup {NULL}], record' \in Records,
         secret' \in [Paths -> [Accounts!Accounts -> Accounts!Held]],
         \A a \in Accounts!Accounts : engine'[a] = engine[a] \/ (engine'[a] = r /\ a \in Accounts!Provisioned(provision[r].agent)),
         \A a \in Accounts!Accounts, q \in Accounts!Runs : q # r /\ engine[a] = q /\ engine'[a] = q => Accounts!Password(a)' = Accounts!Password(a),
         \A a \in Accounts!Accounts : next.outcome = "done" /\ engine'[a] = r => Accounts!Password(a)' = r,
         RunFits(r, next)'
  PROVE  ProvisionHolds'
<1>1. provision' \in [Accounts!Runs -> ProvisionRun] /\ provision'[r] = next /\ \A q \in Accounts!Runs : q # r => provision'[q] = provision[q]
  BY DEF ProvisionHolds, ProvisionTyped
<1>2. ProvisionTyped'
  BY <1>1 DEF ProvisionTyped
<1>3. \A q \in Accounts!Runs : q # r => provision'[q].outcome # "running"
  BY <1>1 DEF ProvisionHolds, OneUnderWay
<1>4. OneUnderWay'
  BY <1>3 DEF OneUnderWay
<1>5. EnginesRun'
  <2>1. ASSUME NEW q \in Accounts!Runs, NEW a \in Accounts!Accounts, engine'[a] = q
        PROVE  provision'[q].outcome # "idle" /\ a \in Accounts!Provisioned(provision'[q].agent)
    <3>1. CASE q = r
      BY <1>1, <2>1, <3>1 DEF ProvisionHolds, EnginesRun
    <3>2. CASE q # r
      BY <1>1, <2>1, <3>2 DEF ProvisionHolds, EnginesRun
    <3>3. QED
      BY <3>1, <3>2
  <2>2. QED
    BY <2>1 DEF EnginesRun, Accounts!Provisioned
<1>6. DoneOpens'
  <2>1. ASSUME NEW q \in Accounts!Runs, NEW a \in Accounts!Accounts, engine'[a] = q, provision'[q].outcome = "done"
        PROVE  Accounts!Password(a)' = q
    <3>1. CASE q = r
      BY <1>1, <2>1, <3>1
    <3>2. CASE q # r
      BY <1>1, <2>1, <3>2 DEF ProvisionHolds, DoneOpens
    <3>3. QED
      BY <3>1, <3>2
  <2>2. QED
    BY <2>1 DEF DoneOpens
<1>7. \A q \in Accounts!Runs : RunFits(q, provision[q])'
  <2>1. ASSUME NEW q \in Accounts!Runs, q # r PROVE RunFits(q, provision[q])'
    BY <1>3, <2>1 DEF RunFits
  <2>2. RunFits(r, provision[r])'
    BY <1>1 DEF RunFits, AtPlan, AtKeeping, MadeBy, KeptBy, Accounts!Clobbers
  <2>3. QED
    BY <2>1, <2>2
<1>8. QED
  BY <1>2, <1>4, <1>5, <1>6, <1>7 DEF ProvisionHolds

LEMMA NextOf ==
  ASSUME ProvisionTyped, NEW r \in Accounts!Runs
  PROVE  /\ provision[r] \in ProvisionRun
         /\ provision[r].todo # <<>> => Accounts!GoneOn(r) \in ProvisionRun
         /\ Accounts!GoneOn(r).todo = Tail(provision[r].todo) /\ Accounts!GoneOn(r).outcome = provision[r].outcome
         /\ Accounts!GoneOn(r).agent = provision[r].agent /\ Accounts!GoneOn(r).path = provision[r].path
         /\ Accounts!GoneOn(r).keys = provision[r].keys /\ Accounts!GoneOn(r).copy = provision[r].copy
         /\ \A outcome \in {"done", "stopped", "failed"} :
              /\ Accounts!Ended(r, outcome) \in ProvisionRun /\ Accounts!Ended(r, outcome).outcome = outcome
              /\ Accounts!Ended(r, outcome).agent = provision[r].agent
<1>1. PICK doing \in ProvisionRun : doing = provision[r]
  BY DEF ProvisionTyped
<1>2. PICK rest : rest = Tail(doing.todo)
  OBVIOUS
<1>3. doing.todo # <<>> => rest \in Seq(Steps)
  BY <1>1, <1>2 DEF ProvisionRun
<1>4. PICK gone : gone = [doing EXCEPT !.todo = rest]
  OBVIOUS
<1>5. gone = [outcome |-> doing.outcome, agent |-> doing.agent, path |-> doing.path, todo |-> rest, keys |-> doing.keys, copy |-> doing.copy]
  BY <1>1, <1>4 DEF ProvisionRun
<1>6. doing.todo # <<>> => gone \in ProvisionRun
  BY <1>1, <1>3, <1>5 DEF ProvisionRun
<1>7. Accounts!GoneOn(r) = gone
  BY <1>1, <1>2, <1>4 DEF Accounts!GoneOn
<1>8. ASSUME NEW outcome \in {"done", "stopped", "failed"}
      PROVE  /\ Accounts!Ended(r, outcome) \in ProvisionRun /\ Accounts!Ended(r, outcome).outcome = outcome
             /\ Accounts!Ended(r, outcome).agent = provision[r].agent
  <2>1. PICK end : end = [doing EXCEPT !.outcome = outcome, !.todo = <<>>]
    OBVIOUS
  <2>2. end = [outcome |-> outcome, agent |-> doing.agent, path |-> doing.path, todo |-> <<>>, keys |-> doing.keys, copy |-> doing.copy]
    BY <1>1, <2>1 DEF ProvisionRun
  <2>3. <<>> \in Seq(Steps)
    BY PartsOfPlan
  <2>4. end \in ProvisionRun
    BY <1>1, <2>2, <2>3 DEF ProvisionRun
  <2>5. Accounts!Ended(r, outcome) = end
    BY <1>1, <2>1 DEF Accounts!Ended
  <2>6. QED
    BY <1>1, <2>2, <2>4, <2>5
<1>9. QED
  BY <1>1, <1>2, <1>5, <1>6, <1>7, <1>8

LEMMA HeadsOf ==
  ASSUME ProvisionTyped, NEW r \in Accounts!Runs, provision[r].outcome = "running", RunFits(r, provision[r])
  PROVE  /\ AtPlan(r, provision[r]) => Head(provision[r].todo) \in {"portal", "agent", "grants"}
         /\ AtKeeping(r, provision[r]) => Head(provision[r].todo) \in {"read", "write", "find", "store"}
         /\ provision[r].todo # <<>>
<1>1. PICK doing \in ProvisionRun : doing = provision[r]
  BY NextOf
<1>2. doing.agent \in BOOLEAN
  BY <1>1 DEF ProvisionRun
<1>3. AfterPortal(doing.agent) # <<>> /\ Head(AfterPortal(doing.agent)) = "grants"
  <2>1. (IF doing.agent THEN AgentPlan ELSE ToKeep) \in Seq(Steps)
    BY <1>2, PlanOfAgent
  <2>2. QED
    BY <2>1, Grants DEF AfterPortal
<1>4. AtPlan(r, doing) => Head(doing.todo) \in {"portal", "agent", "grants"} /\ doing.todo # <<>>
  <2>1. GrantThen(ToKeep) # <<>> /\ Head(GrantThen(ToKeep)) = "grants"
    BY PlanOfAgent, Grants
  <2>2. AgentPlan # <<>> /\ Head(AgentPlan) = "agent"
    BY PlanOfAgent
  <2>3. QED
    BY <1>3, <2>1, <2>2 DEF AtPlan
<1>5. AtKeeping(r, doing) => Head(doing.todo) \in {"read", "write", "find", "store"} /\ doing.todo # <<>>
  <2>1. AtKeeping(r, doing) => doing.todo \in {ToKeep, <<"write", "find", "store">>, <<"find", "store">>, <<"store">>}
    BY DEF AtKeeping
  <2>2. Head(ToKeep) \in {"read", "find"}
    BY PlanKept
  <2>3. \A q \in {ToKeep, <<"write", "find", "store">>, <<"find", "store">>, <<"store">>} :
          q # <<>> /\ Head(q) \in {"read", "write", "find", "store"}
    BY <2>2, PlanKept
  <2>4. QED
    BY <2>1, <2>3
<1>6. QED
  BY <1>1, <1>4, <1>5 DEF RunFits

(* An account is made, or granted to. *)
LEMMA StatementFits ==
  ASSUME PlacesApart, ProvisionHolds, NEW r \in Accounts!Runs, Accounts!StatementRan(r) \/ Accounts!StatementRefused(r)
  PROVE  ProvisionHolds'
<1>1. PICK doing \in ProvisionRun : doing = provision[r]
  BY NextOf DEF ProvisionHolds
<1>2. doing.outcome = "running" /\ Head(doing.todo) \in {"portal", "agent", "grants"} /\ UNCHANGED <<vault, secret, record>>
  BY <1>1 DEF Accounts!StatementRan, Accounts!StatementRefused, Accounts!At, Accounts!Accounts
<1>3. RunFits(r, doing) /\ doing.todo # <<>> /\ AtPlan(r, doing) /\ ~Accounts!Clobbers(doing.path, doing.agent)
  <2>1. RunFits(r, doing)
    BY <1>1 DEF ProvisionHolds
  <2>2. QED
    BY <1>1, <1>2, <2>1, HeadsOf DEF ProvisionHolds, RunFits
<1>4. doing.agent \in BOOLEAN /\ "portal" \in Accounts!Provisioned(doing.agent) /\ (doing.agent => "agent" \in Accounts!Provisioned(doing.agent))
  BY <1>1 DEF ProvisionRun, Accounts!Provisioned
<1>5. Head(doing.todo) = "agent" => doing.agent
  BY <1>3, <1>4, Grants, PlanOfAgent DEF AtPlan, AfterPortal
<1>6. engine \in [Accounts!Accounts -> Accounts!Runs \cup {NULL}]
  BY DEF ProvisionHolds, ProvisionTyped
<1>7. engine' = engine \/ (Head(doing.todo) \in Accounts!Accounts /\ engine' = [engine EXCEPT ![Head(doing.todo)] = r])
  BY <1>1 DEF Accounts!StatementRan, Accounts!StatementRefused, Accounts!Answered, Accounts!At
<1>8. engine' \in [Accounts!Accounts -> Accounts!Runs \cup {NULL}]
  BY <1>6, <1>7
<1>9. \A a \in Accounts!Accounts : engine'[a] = engine[a] \/ (engine'[a] = r /\ a \in Accounts!Provisioned(doing.agent))
  BY <1>4, <1>5, <1>6, <1>7 DEF Accounts!Accounts
<1>10. \A a \in Accounts!Accounts : Accounts!Password(a)' = Accounts!Password(a)
  BY <1>2 DEF Accounts!Password
<1>11. record' \in Records /\ secret' \in [Paths -> [Accounts!Accounts -> Accounts!Held]]
  BY <1>2 DEF ProvisionHolds, ProvisionTyped
<1>12. CASE Accounts!StatementRefused(r)
  <2>1. PICK next \in ProvisionRun : next = Accounts!Ended(r, "stopped") /\ next.outcome = "stopped" /\ next.agent = provision[r].agent
    BY NextOf DEF ProvisionHolds
  <2>2. provision' = [provision EXCEPT ![r] = next]
    BY <1>12, <2>1 DEF Accounts!StatementRefused, Accounts!Becomes
  <2>3. RunFits(r, next)'
    BY <2>1 DEF RunFits
  <2>4. QED
    BY <1>1, <1>2, <1>8, <1>9, <1>10, <1>11, <2>1, <2>2, <2>3, RunSteps
<1>13. CASE Accounts!StatementRan(r)
  <2>1. PICK next \in ProvisionRun :
          /\ next = Accounts!GoneOn(r) /\ next.todo = Tail(doing.todo) /\ next.outcome = "running"
          /\ next.agent = doing.agent /\ next.path = doing.path
    BY <1>1, <1>2, <1>3, NextOf DEF ProvisionHolds
  <2>2. provision' = [provision EXCEPT ![r] = next]
    BY <1>13, <2>1 DEF Accounts!StatementRan, Accounts!Becomes
  <2>3. engine' = IF Head(doing.todo) \in Accounts!Accounts THEN [engine EXCEPT ![Head(doing.todo)] = r] ELSE engine
    BY <1>1, <1>2, <1>13 DEF Accounts!StatementRan, Accounts!Answered, Accounts!At
  <2>4. ToKeep' = ToKeep /\ AfterPortal(doing.agent)' = AfterPortal(doing.agent) /\ AgentPlan' = AgentPlan /\ GrantThen(ToKeep)' = GrantThen(ToKeep)
    BY <1>2 DEF ToKeep, AfterPortal, AgentPlan, GrantThen
  <2>5. AtPlan(r, next)' \/ AtKeeping(r, next)'
    <3>1. CASE Head(doing.todo) = "portal" /\ Tail(doing.todo) = AfterPortal(doing.agent)
      <4>1. engine'["portal"] = r
        BY <1>6, <2>3, <3>1 DEF Accounts!Accounts
      <4>2. QED
        BY <2>1, <2>4, <3>1, <4>1 DEF AtPlan
    <3>2. CASE doing.todo = AfterPortal(doing.agent) /\ engine["portal"] = r
      <4>1. Tail(doing.todo) = (IF doing.agent THEN AgentPlan ELSE ToKeep) /\ Head(doing.todo) = "grants"
        BY <1>4, <3>2, Grants, PlanOfAgent DEF AfterPortal
      <4>2. engine' = engine
        BY <2>3, <4>1 DEF Accounts!Accounts
      <4>3. CASE doing.agent
        BY <2>1, <2>4, <3>2, <4>1, <4>2, <4>3 DEF AtPlan
      <4>4. CASE ~doing.agent
        <5>1. MadeBy(r, next)'
          BY <2>1, <3>2, <4>2, <4>4 DEF MadeBy, Accounts!Provisioned
        <5>2. QED
          BY <2>1, <2>4, <4>1, <4>4, <5>1 DEF AtKeeping
      <4>5. QED
        BY <4>3, <4>4
    <3>3. CASE doing.agent /\ doing.todo = AgentPlan /\ engine["portal"] = r
      <4>1. Tail(doing.todo) = GrantThen(ToKeep) /\ Head(doing.todo) = "agent"
        BY <3>3, PlanOfAgent
      <4>2. engine'["agent"] = r /\ engine'["portal"] = r
        BY <1>6, <2>3, <3>3, <4>1 DEF Accounts!Accounts
      <4>3. MadeBy(r, next)'
        BY <4>2 DEF MadeBy, Accounts!Provisioned
      <4>4. QED
        BY <2>1, <2>4, <4>1, <4>3 DEF AtPlan
    <3>4. CASE doing.todo = GrantThen(ToKeep) /\ MadeBy(r, doing)
      <4>1. Tail(doing.todo) = ToKeep /\ Head(doing.todo) = "grants"
        BY <3>4, Grants, PlanOfAgent
      <4>2. engine' = engine
        BY <2>3, <4>1 DEF Accounts!Accounts
      <4>3. MadeBy(r, next)'
        BY <2>1, <3>4, <4>2 DEF MadeBy, Accounts!Provisioned
      <4>4. QED
        BY <2>1, <2>4, <4>1, <4>3 DEF AtKeeping
    <3>5. QED
      BY <1>3, <3>1, <3>2, <3>3, <3>4 DEF AtPlan
  <2>6. ~Accounts!Clobbers(next.path, next.agent)'
    BY <1>2, <1>3, <2>1 DEF Accounts!Clobbers, Accounts!Provisioned
  <2>7. RunFits(r, next)'
    BY <2>5, <2>6 DEF RunFits
  <2>8. QED
    BY <1>1, <1>2, <1>8, <1>9, <1>10, <1>11, <2>1, <2>2, <2>7, RunSteps
<1>14. QED
  BY <1>12, <1>13

(* What was read is kept, and the record found and stored. *)
LEMMA KeepingFits ==
  ASSUME PlacesApart, ProvisionHolds, NEW r \in Accounts!Runs,
         Accounts!ExistingKeys(r) \/ Accounts!WriteSecret(r) \/ Accounts!FindRecord(r) \/ Accounts!StoreRecord(r)
  PROVE  ProvisionHolds'
<1>1. PICK doing \in ProvisionRun : doing = provision[r]
  BY NextOf DEF ProvisionHolds
<1>2. doing.outcome = "running" /\ Head(doing.todo) \in {"read", "write", "find", "store"} /\ UNCHANGED <<vault, engine>>
  BY <1>1 DEF Accounts!ExistingKeys, Accounts!WriteSecret, Accounts!FindRecord, Accounts!StoreRecord, Accounts!At
<1>3. AtKeeping(r, doing) /\ doing.todo # <<>> /\ ~Accounts!Clobbers(doing.path, doing.agent)
  <2>1. RunFits(r, doing)
    BY <1>1 DEF ProvisionHolds
  <2>2. QED
    BY <1>1, <1>2, <2>1, HeadsOf DEF ProvisionHolds, RunFits
<1>4. MadeBy(r, doing)
  BY <1>3 DEF AtKeeping
<1>5. /\ engine \in [Accounts!Accounts -> Accounts!Runs \cup {NULL}] /\ record \in Records
      /\ secret \in [Paths -> [Accounts!Accounts -> Accounts!Held]]
  BY DEF ProvisionHolds, ProvisionTyped
<1>6. /\ engine' \in [Accounts!Accounts -> Accounts!Runs \cup {NULL}]
      /\ \A a \in Accounts!Accounts : engine'[a] = engine[a]
  BY <1>2, <1>5
<1>7. PICK gone \in ProvisionRun :
        /\ gone = Accounts!GoneOn(r) /\ gone.todo = Tail(doing.todo) /\ gone.outcome = "running"
        /\ gone.agent = doing.agent /\ gone.path = doing.path /\ gone.keys = doing.keys /\ gone.copy = doing.copy
  BY <1>1, <1>2, <1>3, NextOf DEF ProvisionHolds
<1>8. PICK failed \in ProvisionRun : failed = Accounts!Ended(r, "failed") /\ failed.outcome = "failed" /\ failed.agent = doing.agent
  BY <1>1, NextOf DEF ProvisionHolds
<1>9. PICK done \in ProvisionRun : done = Accounts!Ended(r, "done") /\ done.outcome = "done" /\ done.agent = doing.agent
  BY <1>1, NextOf DEF ProvisionHolds
<1>10. RunFits(r, failed)' /\ RunFits(r, done)'
  BY <1>8, <1>9 DEF RunFits
<1>11. /\ Head(doing.todo) = "read" => vault /\ doing.todo = ToKeep
       /\ Head(doing.todo) = "write" => vault /\ doing.todo = <<"write", "find", "store">> /\ doing.keys = secret[doing.path]
       /\ Head(doing.todo) = "find" => doing.todo = <<"find", "store">> /\ KeptBy(r, doing)
       /\ Head(doing.todo) = "store" => KeptBy(r, doing) /\ doing.copy \in Records /\ doing.copy.agent = record.agent
  <2>1. CASE doing.todo = ToKeep
    <3>1. CASE vault
      BY <2>1, <3>1, PlanKept
    <3>2. CASE ~vault
      BY <2>1, <3>2, PlanKept DEF KeptBy
    <3>3. QED
      BY <3>1, <3>2
  <2>2. CASE vault /\ doing.todo = <<"write", "find", "store">> /\ doing.keys = secret[doing.path]
    BY <2>2, PlanKept
  <2>3. CASE doing.todo = <<"find", "store">> /\ KeptBy(r, doing)
    BY <2>3, PlanKept
  <2>4. CASE doing.todo = <<"store">> /\ KeptBy(r, doing) /\ doing.copy \in Records /\ doing.copy.agent = record.agent
    BY <2>4, PlanKept
  <2>5. QED
    BY <1>3, <2>1, <2>2, <2>3, <2>4 DEF AtKeeping
<1>12. doing.path \in Paths /\ doing.agent \in BOOLEAN /\ doing.keys \in [Accounts!Accounts -> Accounts!Held]
  BY <1>1 DEF ProvisionRun
<1>13. UNCHANGED record => ~Accounts!Clobbers(doing.path, doing.agent)'
  BY <1>2, <1>3 DEF Accounts!Clobbers, Accounts!Provisioned
<1>14. CASE Accounts!ExistingKeys(r)
  <2>1. UNCHANGED <<record, secret>> /\ \A a \in Accounts!Accounts : Accounts!Password(a)' = Accounts!Password(a)
    BY <1>14 DEF Accounts!ExistingKeys, Accounts!Password
  <2>2. Head(doing.todo) = "read"
    BY <1>1, <1>14 DEF Accounts!ExistingKeys, Accounts!At
  <2>3. record' \in Records /\ secret' \in [Paths -> [Accounts!Accounts -> Accounts!Held]]
    BY <1>5, <2>1
  <2>4. CASE Accounts!Fails(r)
    <3>1. provision' = [provision EXCEPT ![r] = failed]
      BY <1>8, <2>4 DEF Accounts!Fails, Accounts!Becomes
    <3>2. QED
      BY <1>1, <1>2, <1>6, <1>8, <1>10, <2>1, <2>3, <3>1, RunSteps
  <2>5. CASE Accounts!Becomes(r, [Accounts!GoneOn(r) EXCEPT !.keys = secret[provision[r].path]])
    <3>1. PICK next : next = [gone EXCEPT !.keys = secret[doing.path]]
      OBVIOUS
    <3>2. next = [outcome |-> gone.outcome, agent |-> gone.agent, path |-> gone.path, todo |-> gone.todo,
                  keys |-> secret[doing.path], copy |-> gone.copy]
      BY <1>7, <3>1 DEF ProvisionRun
    <3>3. next \in ProvisionRun
      BY <1>5, <1>7, <1>12, <3>2 DEF ProvisionRun
    <3>4. provision' = [provision EXCEPT ![r] = next]
      BY <1>1, <1>7, <2>5, <3>1 DEF Accounts!Becomes
    <3>5. next.todo = <<"write", "find", "store">> /\ vault /\ next.keys = secret[next.path] /\ next.outcome = "running"
      BY <1>7, <1>11, <2>2, <3>2, PlanKept
    <3>6. next.agent = doing.agent /\ next.path = doing.path
      BY <1>7, <3>2
    <3>7. MadeBy(r, next)'
      BY <1>2, <1>4, <3>6 DEF MadeBy, Accounts!Provisioned
    <3>8. AtKeeping(r, next)'
      BY <1>2, <2>1, <3>5, <3>7 DEF AtKeeping
    <3>9. RunFits(r, next)'
      BY <1>13, <2>1, <3>6, <3>8 DEF RunFits
    <3>10. QED
      BY <1>1, <1>2, <1>6, <2>1, <2>3, <3>3, <3>4, <3>5, <3>6, <3>9, RunSteps
  <2>6. QED
    BY <1>14, <2>4, <2>5 DEF Accounts!ExistingKeys
<1>15. CASE Accounts!FindRecord(r)
  <2>1. UNCHANGED <<record, secret>> /\ \A a \in Accounts!Accounts : Accounts!Password(a)' = Accounts!Password(a)
    BY <1>15 DEF Accounts!FindRecord, Accounts!Password
  <2>2. Head(doing.todo) = "find"
    BY <1>1, <1>15 DEF Accounts!FindRecord, Accounts!At
  <2>3. record' \in Records /\ secret' \in [Paths -> [Accounts!Accounts -> Accounts!Held]]
    BY <1>5, <2>1
  <2>4. CASE Accounts!Fails(r)
    <3>1. provision' = [provision EXCEPT ![r] = failed]
      BY <1>8, <2>4 DEF Accounts!Fails, Accounts!Becomes
    <3>2. QED
      BY <1>1, <1>2, <1>6, <1>8, <1>10, <2>1, <2>3, <3>1, RunSteps
  <2>5. CASE Accounts!Becomes(r, [Accounts!GoneOn(r) EXCEPT !.copy = record])
    <3>1. PICK next : next = [gone EXCEPT !.copy = record]
      OBVIOUS
    <3>2. next = [outcome |-> gone.outcome, agent |-> gone.agent, path |-> gone.path, todo |-> gone.todo,
                  keys |-> gone.keys, copy |-> record]
      BY <1>7, <3>1 DEF ProvisionRun
    <3>3. next \in ProvisionRun
      BY <1>5, <1>7, <3>2 DEF ProvisionRun
    <3>4. provision' = [provision EXCEPT ![r] = next]
      BY <1>1, <1>7, <2>5, <3>1 DEF Accounts!Becomes
    <3>5. next.todo = <<"store">> /\ next.copy = record /\ next.outcome = "running"
      BY <1>7, <1>11, <2>2, <3>2, PlanKept
    <3>6. next.agent = doing.agent /\ next.path = doing.path
      BY <1>7, <3>2
    <3>7. MadeBy(r, next)' /\ KeptBy(r, next)'
      BY <1>2, <1>4, <1>11, <2>1, <2>2, <3>6 DEF MadeBy, KeptBy, Accounts!Provisioned
    <3>8. AtKeeping(r, next)'
      BY <1>5, <2>1, <3>5, <3>7 DEF AtKeeping, Records, Accounts!Held
    <3>9. RunFits(r, next)'
      BY <1>13, <2>1, <3>6, <3>8 DEF RunFits
    <3>10. QED
      BY <1>1, <1>2, <1>6, <2>1, <2>3, <3>3, <3>4, <3>5, <3>6, <3>9, RunSteps
  <2>6. QED
    BY <1>15, <2>4, <2>5 DEF Accounts!FindRecord
<1>16. CASE Accounts!WriteSecret(r)
  <2>1. UNCHANGED record
    BY <1>16 DEF Accounts!WriteSecret
  <2>2. Head(doing.todo) = "write"
    BY <1>1, <1>16 DEF Accounts!WriteSecret, Accounts!At
  <2>3. vault /\ doing.todo = <<"write", "find", "store">> /\ doing.keys = secret[doing.path]
    BY <1>11, <2>2
  <2>4. PICK kept : kept = [a \in Accounts!Accounts |-> IF a \in Accounts!Provisioned(doing.agent) THEN r ELSE doing.keys[a]]
    OBVIOUS
  <2>5. kept \in [Accounts!Accounts -> Accounts!Held]
    BY <1>12, <2>4 DEF Accounts!Held
  <2>6. secret' = secret \/ secret' = [secret EXCEPT ![doing.path] = kept]
    BY <1>1, <1>16, <2>4 DEF Accounts!WriteSecret, Accounts!Written
  <2>7. record' \in Records /\ secret' \in [Paths -> [Accounts!Accounts -> Accounts!Held]]
    BY <1>5, <2>1, <2>5, <2>6
  <2>8. \A a \in Accounts!Accounts : Accounts!Password(a)' = Accounts!Password(a)
    <3>1. ASSUME NEW a \in Accounts!Accounts, record[a] = doing.path, secret' = [secret EXCEPT ![doing.path] = kept]
          PROVE  secret'[doing.path][a] = secret[doing.path][a]
      <4>1. a \notin Accounts!Provisioned(doing.agent)
        BY <1>3, <2>3, <3>1 DEF Accounts!Clobbers
      <4>2. kept[a] = doing.keys[a]
        BY <2>4, <4>1
      <4>3. QED
        BY <1>5, <1>12, <2>3, <3>1, <4>2
    <3>2. ASSUME NEW a \in Accounts!Accounts, record[a] \in Paths PROVE secret'[record[a]][a] = secret[record[a]][a]
      BY <1>5, <2>6, <3>1, <3>2
    <3>3. QED
      BY <2>1, <3>2 DEF Accounts!Password
  <2>9. CASE Accounts!Fails(r)
    <3>1. provision' = [provision EXCEPT ![r] = failed]
      BY <1>8, <2>9 DEF Accounts!Fails, Accounts!Becomes
    <3>2. QED
      BY <1>1, <1>2, <1>6, <1>8, <1>10, <2>7, <2>8, <3>1, RunSteps
  <2>10. CASE Accounts!Becomes(r, Accounts!GoneOn(r)) /\ secret' = [secret EXCEPT ![doing.path] = kept]
    <3>1. provision' = [provision EXCEPT ![r] = gone]
      BY <1>7, <2>10 DEF Accounts!Becomes
    <3>2. secret'[doing.path] = kept
      BY <1>5, <1>12, <2>10
    <3>3. MadeBy(r, gone)'
      BY <1>2, <1>4, <1>7 DEF MadeBy, Accounts!Provisioned
    <3>4. KeptBy(r, gone)'
      BY <1>7, <2>4, <3>2 DEF KeptBy, Accounts!Provisioned, Accounts!Accounts
    <3>5. gone.todo = <<"find", "store">>
      BY <1>7, <2>3, PlanKept
    <3>6. AtKeeping(r, gone)'
      BY <3>3, <3>4, <3>5 DEF AtKeeping
    <3>7. RunFits(r, gone)'
      BY <1>7, <1>13, <2>1, <3>6 DEF RunFits
    <3>8. QED
      BY <1>1, <1>2, <1>6, <1>7, <2>7, <2>8, <3>1, <3>7, RunSteps
  <2>11. QED
    BY <1>1, <1>16, <2>4, <2>9, <2>10 DEF Accounts!WriteSecret, Accounts!Written
<1>17. CASE Accounts!StoreRecord(r)
  <2>1. UNCHANGED secret /\ Head(doing.todo) = "store"
    BY <1>1, <1>17 DEF Accounts!StoreRecord, Accounts!At
  <2>2. KeptBy(r, doing) /\ doing.copy \in Records /\ doing.copy.agent = record.agent
    BY <1>11, <2>1
  <2>3. secret' \in [Paths -> [Accounts!Accounts -> Accounts!Held]]
    BY <1>5, <2>1
  <2>4. CASE UNCHANGED record /\ Accounts!Fails(r)
    <3>1. provision' = [provision EXCEPT ![r] = failed]
      BY <1>8, <2>4 DEF Accounts!Fails, Accounts!Becomes
    <3>2. record' \in Records /\ \A a \in Accounts!Accounts : Accounts!Password(a)' = Accounts!Password(a)
      BY <1>5, <2>1, <2>4 DEF Accounts!Password
    <3>3. QED
      BY <1>1, <1>2, <1>6, <1>8, <1>10, <2>3, <3>1, <3>2, RunSteps
  <2>5. CASE /\ Accounts!Becomes(r, Accounts!Ended(r, "done")) \/ Accounts!Fails(r)
             /\ record' = [provision[r].copy EXCEPT !.url = record.url, !.portal = Accounts!Credential(r),
                             !.agent = IF provision[r].agent THEN Accounts!Credential(r) ELSE @]
    <3>1. PICK copy \in Records : copy = doing.copy
      BY <2>2
    <3>2. PICK credential : credential = Accounts!Credential(r)
      OBVIOUS
    <3>3. credential = IF vault THEN doing.path ELSE r
      BY <1>1, <3>2 DEF Accounts!Credential
    <3>4. PICK agent : agent = IF doing.agent THEN credential ELSE record.agent
      OBVIOUS
    <3>5. record' = [copy EXCEPT !.url = record.url, !.portal = credential, !.agent = agent]
      BY <1>1, <2>2, <2>5, <3>1, <3>2, <3>4
    <3>6. record' = [there |-> copy.there, url |-> record.url, portal |-> credential, agent |-> agent]
      BY <3>1, <3>5 DEF Records
    <3>7. credential \in Accounts!Held \cup Paths /\ agent \in Accounts!Held \cup Paths
      BY <1>5, <1>12, <3>3, <3>4 DEF Records, Accounts!Held
    <3>8. record' \in Records
      BY <1>5, <3>1, <3>6, <3>7 DEF Records
    <3>9. \A a \in Accounts!Provisioned(doing.agent) : record'[a] = credential
      BY <3>4, <3>6 DEF Accounts!Provisioned
    <3>10. \A a \in Accounts!Accounts \ Accounts!Provisioned(doing.agent) : record'[a] = record[a]
      BY <3>4, <3>6 DEF Accounts!Provisioned, Accounts!Accounts
    <3>11. \A a \in Accounts!Accounts \ Accounts!Provisioned(doing.agent) : Accounts!Password(a)' = Accounts!Password(a)
      BY <2>1, <3>10 DEF Accounts!Password
    <3>12. \A a \in Accounts!Provisioned(doing.agent) : Accounts!Password(a)' = r
      <4>1. CASE vault
        BY <1>12, <2>1, <2>2, <3>3, <3>9, <4>1 DEF Accounts!Password, KeptBy
      <4>2. CASE ~vault
        BY <3>3, <3>9, <4>2 DEF Accounts!Password, PlacesApart
      <4>3. QED
        BY <4>1, <4>2
    <3>13. \A a \in Accounts!Accounts : engine'[a] = r => Accounts!Password(a)' = r
      BY <1>1, <1>6, <3>12 DEF ProvisionHolds, EnginesRun
    <3>14. \A a \in Accounts!Accounts, q \in Accounts!Runs : q # r /\ engine[a] = q /\ engine'[a] = q => Accounts!Password(a)' = Accounts!Password(a)
      BY <1>4, <3>11 DEF MadeBy
    <3>15. CASE provision' = [provision EXCEPT ![r] = done]
      BY <1>1, <1>2, <1>6, <1>9, <1>10, <2>3, <3>8, <3>13, <3>14, <3>15, RunSteps
    <3>16. CASE provision' = [provision EXCEPT ![r] = failed]
      BY <1>1, <1>2, <1>6, <1>8, <1>10, <2>3, <3>8, <3>13, <3>14, <3>16, RunSteps
    <3>17. provision' = [provision EXCEPT ![r] = done] \/ provision' = [provision EXCEPT ![r] = failed]
      BY <1>8, <1>9, <2>5 DEF Accounts!Becomes, Accounts!Fails
    <3>18. QED
      BY <3>15, <3>16, <3>17
  <2>6. QED
    BY <1>17, <2>4, <2>5 DEF Accounts!StoreRecord
<1>18. QED
  BY <1>14, <1>15, <1>16, <1>17

LEMMA NoRun ==
  ASSUME PlacesApart
  PROVE  /\ Accounts!Idle \in ProvisionRun /\ Accounts!Idle.outcome = "idle"
         /\ Accounts!Idle.keys = Accounts!NoKeys /\ Accounts!Idle.copy = NULL
<1>1. Accounts!NoKeys \in [Accounts!Accounts -> Accounts!Held]
  BY DEF Accounts!NoKeys, Accounts!Held
<1>2. (CHOOSE p \in Paths : TRUE) \in Paths
  BY DEF PlacesApart
<1>3. <<>> \in Seq(Steps)
  BY PartsOfPlan
<1>4. QED
  BY <1>1, <1>2, <1>3 DEF Accounts!Idle, ProvisionRun

LEMMA StartFits ==
  ASSUME PlacesApart, ProvisionHolds, NEW r \in Accounts!Runs, NEW agent \in BOOLEAN, NEW path \in Paths, Accounts!Start(r, agent, path),
         ~provisionCrossed'
  PROVE  ProvisionHolds'
<1>1. PICK steps \in Seq(Steps) :
        /\ steps = Accounts!Statements(agent) \o Accounts!Keeping
        /\ steps # <<>> /\ Head(steps) = "portal" /\ Tail(steps) = AfterPortal(agent)
  BY PlanOf
<1>2. PICK next :
        next = [outcome |-> "running", agent |-> agent, path |-> path, todo |-> steps, keys |-> Accounts!NoKeys, copy |-> NULL]
  OBVIOUS
<1>3. next \in ProvisionRun
  <2>1. Accounts!NoKeys \in [Accounts!Accounts -> Accounts!Held]
    BY DEF Accounts!NoKeys, Accounts!Held
  <2>2. QED
    BY <1>2, <2>1 DEF ProvisionRun
<1>4. provision' = [provision EXCEPT ![r] = next]
  <2>1. PICK one \in ProvisionRun : one = Accounts!Idle /\ one.keys = Accounts!NoKeys /\ one.copy = NULL
    BY NoRun
  <2>2. PICK begun : begun = [one EXCEPT !.outcome = "running", !.agent = agent, !.path = path, !.todo = steps]
    OBVIOUS
  <2>3. begun = [outcome |-> "running", agent |-> agent, path |-> path, todo |-> steps, keys |-> one.keys, copy |-> one.copy]
    BY <2>1, <2>2 DEF ProvisionRun
  <2>4. begun = next
    BY <1>2, <2>1, <2>3
  <2>5. provision' = [provision EXCEPT ![r] = [Accounts!Idle EXCEPT !.outcome = "running", !.agent = agent, !.path = path, !.todo = steps]]
    BY <1>1 DEF Accounts!Start
  <2>6. QED
    BY <2>1, <2>2, <2>4, <2>5
<1>5. UNCHANGED <<vault, engine, secret, record>> /\ provision[r].outcome = "idle" /\ ~Accounts!Clobbers(path, agent)
  BY DEF Accounts!Start
<1>6. \A q \in Accounts!Runs : provision[q].outcome # "running"
  BY DEF Accounts!Start
<1>7. provision' \in [Accounts!Runs -> ProvisionRun] /\ provision'[r] = next /\ \A q \in Accounts!Runs : q # r => provision'[q] = provision[q]
  BY <1>3, <1>4 DEF ProvisionHolds, ProvisionTyped
<1>8. ProvisionTyped'
  BY <1>5, <1>7 DEF ProvisionHolds, ProvisionTyped
<1>9. OneUnderWay'
  BY <1>6, <1>7 DEF OneUnderWay
<1>10. \A a \in Accounts!Accounts : engine'[a] # r /\ engine'[a] = engine[a]
  BY <1>5 DEF ProvisionHolds, EnginesRun
<1>11. EnginesRun'
  <2>1. ASSUME NEW q \in Accounts!Runs, NEW a \in Accounts!Accounts, engine'[a] = q
        PROVE  provision'[q].outcome # "idle" /\ a \in Accounts!Provisioned(provision'[q].agent)
    BY <1>7, <1>10, <2>1 DEF ProvisionHolds, EnginesRun
  <2>2. QED
    BY <2>1 DEF EnginesRun, Accounts!Provisioned
<1>12. DoneOpens'
  <2>1. \A a \in Accounts!Accounts : Accounts!Password(a)' = Accounts!Password(a)
    BY <1>5 DEF Accounts!Password
  <2>2. ASSUME NEW q \in Accounts!Runs, NEW a \in Accounts!Accounts, engine'[a] = q, provision'[q].outcome = "done"
        PROVE  Accounts!Password(a)' = q
    BY <1>7, <1>10, <2>1, <2>2 DEF ProvisionHolds, DoneOpens
  <2>3. QED
    BY <2>2 DEF DoneOpens
<1>13. \A q \in Accounts!Runs : RunFits(q, provision[q])'
  <2>1. ASSUME NEW q \in Accounts!Runs, q # r PROVE RunFits(q, provision[q])'
    BY <1>6, <1>7, <2>1 DEF RunFits
  <2>2. AtPlan(r, next)'
    <3>1. AfterPortal(agent)' = AfterPortal(agent)
      BY <1>5 DEF AfterPortal, GrantThen, AgentPlan, ToKeep
    <3>2. QED
      BY <1>1, <1>2, <3>1 DEF AtPlan
  <2>3. ~Accounts!Clobbers(next.path, next.agent)'
    BY <1>2, <1>5 DEF Accounts!Clobbers, Accounts!Provisioned
  <2>4. RunFits(r, provision[r])'
    BY <1>7, <2>2, <2>3 DEF RunFits, AtPlan
  <2>5. QED
    BY <2>1, <2>4
<1>14. QED
  BY <1>8, <1>9, <1>11, <1>12, <1>13 DEF ProvisionHolds

(* What is left of the record by a deletion, and by a step of another part. *)
LEMMA RecordKeeps ==
  ASSUME ProvisionHolds, UNCHANGED <<vault, engine, secret, provision>>, record' \in Records,
         record'.portal = record.portal, record'.agent = record.agent
  PROVE  ProvisionHolds'
<1>1. ProvisionTyped' /\ OneUnderWay'
  BY DEF ProvisionHolds, ProvisionTyped, OneUnderWay
<1>2. \A a \in Accounts!Accounts : record'[a] = record[a]
  BY DEF Accounts!Accounts
<1>3. \A a \in Accounts!Accounts : Accounts!Password(a)' = Accounts!Password(a)
  BY <1>2 DEF Accounts!Password
<1>4. EnginesRun' /\ DoneOpens'
  <2>1. EnginesRun'
    BY DEF ProvisionHolds, EnginesRun, Accounts!Provisioned
  <2>2. DoneOpens'
    BY <1>3 DEF ProvisionHolds, DoneOpens
  <2>3. QED
    BY <2>1, <2>2
<1>5. ASSUME NEW q \in Accounts!Runs PROVE RunFits(q, provision[q])'
  <2>1. PICK doing : doing = provision[q] /\ doing = provision'[q] /\ RunFits(q, doing)
    BY DEF ProvisionHolds
  <2>2. AtPlan(q, doing) => AtPlan(q, doing)'
    BY DEF AtPlan, AfterPortal, GrantThen, AgentPlan, ToKeep, MadeBy, Accounts!Provisioned
  <2>3. AtKeeping(q, doing) => AtKeeping(q, doing)'
    BY DEF AtKeeping, ToKeep, MadeBy, KeptBy, Accounts!Provisioned, Records, Accounts!Held
  <2>4. ~Accounts!Clobbers(doing.path, doing.agent) => ~Accounts!Clobbers(doing.path, doing.agent)'
    BY <1>2 DEF Accounts!Clobbers, Accounts!Provisioned, Accounts!Accounts
  <2>5. RunFits(q, doing)'
    BY <2>1, <2>2, <2>3, <2>4 DEF RunFits
  <2>6. QED
    BY <2>1, <2>5
<1>6. QED
  BY <1>1, <1>4, <1>5 DEF ProvisionHolds

LEMMA ProvisionStep == ASSUME PlacesApart, ProvisionInv, ~provisionCrossed, Accounts!Next PROVE ProvisionInv'
<1> SUFFICES ASSUME ~provisionCrossed' PROVE ProvisionHolds'
  BY DEF ProvisionInv
<1>1. ProvisionHolds
  BY DEF ProvisionInv
<1>2. ASSUME NEW r \in Accounts!Runs, NEW agent \in BOOLEAN, NEW path \in (IF vault THEN Paths ELSE {Accounts!Idle.path}), Accounts!Start(r, agent, path)
      PROVE  ProvisionHolds'
  <2>1. path \in Paths
    <3>1. (CHOOSE p \in Paths : TRUE) \in Paths
      BY DEF PlacesApart
    <3>2. QED
      BY <3>1 DEF Accounts!Idle
  <2>2. QED
    BY <1>1, <1>2, <2>1, StartFits
<1>3. CASE Accounts!Delete
  <2>1. record \in Records
    BY <1>1 DEF ProvisionHolds, ProvisionTyped
  <2>2. record' \in Records /\ record'.portal = record.portal /\ record'.agent = record.agent
    BY <1>3, <2>1 DEF Accounts!Delete, Records
  <2>3. QED
    BY <1>1, <1>3, <2>2, RecordKeeps DEF Accounts!Delete
<1>4. QED
  BY <1>1, <1>2, <1>3, StatementFits, KeepingFits DEF Accounts!Next

LEMMA ProvisionStarts == ASSUME PlacesApart, Accounts!Init PROVE ProvisionInv
<1>1. Accounts!NoKeys \in [Accounts!Accounts -> Accounts!Held] /\ Accounts!NoKeys \in [Accounts!Accounts -> Accounts!Runs \cup {NULL}]
  BY DEF Accounts!NoKeys, Accounts!Held
<1>2. Accounts!Idle \in ProvisionRun /\ Accounts!Idle.outcome = "idle"
  BY NoRun
<1>3. \A r \in Accounts!Runs : provision[r] = Accounts!Idle
  BY DEF Accounts!Init
<1>4. engine = Accounts!NoKeys /\ provision = [r \in Accounts!Runs |-> Accounts!Idle]
  BY DEF Accounts!Init
<1>5. PICK place \in {0} \cup Paths : \E agent \in {place, NULL} : \E url \in BOOLEAN :
        /\ record = [there |-> TRUE, url |-> url, portal |-> place, agent |-> agent]
        /\ secret = [p \in Paths |-> IF p # place THEN Accounts!NoKeys
                       ELSE [Accounts!NoKeys EXCEPT !.portal = 0, !.agent = IF agent = NULL THEN NULL ELSE 0]]
  BY DEF Accounts!Init, Accounts!App
<1>6. PICK agent \in {place, NULL}, url \in BOOLEAN :
        /\ record = [there |-> TRUE, url |-> url, portal |-> place, agent |-> agent]
        /\ secret = [p \in Paths |-> IF p # place THEN Accounts!NoKeys
                       ELSE [Accounts!NoKeys EXCEPT !.portal = 0, !.agent = IF agent = NULL THEN NULL ELSE 0]]
  BY <1>5
<1>7. record \in Records
  BY <1>6 DEF Records, Accounts!Held, Accounts!App
<1>8. secret \in [Paths -> [Accounts!Accounts -> Accounts!Held]]
  <2>1. PICK keys : keys = [Accounts!NoKeys EXCEPT !.portal = 0, !.agent = IF agent = NULL THEN NULL ELSE 0]
    OBVIOUS
  <2>2. keys \in [Accounts!Accounts -> Accounts!Held]
    BY <2>1 DEF Accounts!NoKeys, Accounts!Held, Accounts!App
  <2>3. QED
    BY <1>1, <1>6, <2>1, <2>2
<1>9. ProvisionTyped
  BY <1>1, <1>2, <1>4, <1>7, <1>8 DEF ProvisionTyped
<1>10. OneUnderWay /\ \A r \in Accounts!Runs : RunFits(r, provision[r])
  BY <1>2, <1>3 DEF OneUnderWay, RunFits
<1>11. EnginesRun /\ DoneOpens
  <2>1. \A a \in Accounts!Accounts : engine[a] = NULL
    BY <1>4 DEF Accounts!NoKeys
  <2>2. QED
    BY <1>2, <1>3, <2>1 DEF EnginesRun, DoneOpens, PlacesApart
<1>12. QED
  BY <1>9, <1>10, <1>11 DEF ProvisionInv, ProvisionHolds

(* While runs do not cross, an account whose password the datasource does not hold was made by a run *)
(* that was not reported as done (provisioning/run.ts).                                               *)
THEOREM LockedOutIsToldHolds == ASSUME PlacesApart PROVE PartsSpec => []LockedOutIsTold
<1>1. PartsInit => ProvisionInv
  BY EachPartBegins, ProvisionStarts
<1>2. ProvisionInv /\ [PartsNext]_vars => ProvisionInv'
  <2> SUFFICES ASSUME ProvisionInv, [PartsNext]_vars PROVE ProvisionInv'
    OBVIOUS
  <2>1. CASE UNCHANGED accountVars
    <3>1. CASE provisionCrossed
      BY <2>1, <3>1 DEF accountVars, ProvisionInv
    <3>2. CASE ~provisionCrossed
      <4>1. ProvisionHolds /\ record' \in Records /\ UNCHANGED <<vault, engine, secret, record, provision>>
        BY <2>1, <3>2 DEF accountVars, ProvisionInv, ProvisionHolds, ProvisionTyped
      <4>2. QED
        BY <4>1, RecordKeeps DEF ProvisionInv
    <3>3. QED
      BY <3>1, <3>2
  <2>2. ~provisionCrossed \/ UNCHANGED accountVars
    BY DEF PartsNext, vars, accountVars, servedVars, dataVars, ServedMove, TokensMove, WindowsMove, ProvidersMove, ExportMoves, LeasesMove,
       SyncMoves, DataMove, SeedMoves, TransactionsMove, JobsMove, ProvisioningMoves, TabsMove, StudioMoves, PanelMoves
  <2>3. QED
    BY <2>1, <2>2, EachPartSteps, ProvisionStep
<1>3. ProvisionInv => LockedOutIsTold
  <2> SUFFICES ASSUME ProvisionInv, ~provisionCrossed PROVE Accounts!LockedOutIsTold
    BY DEF LockedOutIsTold, Accounts!LockedOutIsTold
  <2>1. DoneOpens
    BY DEF ProvisionInv, ProvisionHolds
  <2>2. QED
    BY <2>1 DEF DoneOpens, Accounts!LockedOutIsTold, Accounts!Opens
<1>4. QED
  BY <1>1, <1>2, <1>3, PTL DEF PartsSpec

LEMMA SeedCount == \A S : Seed!Cardinality(S) = Cardinality(S)
BY DEF Seed!Cardinality, Cardinality

-----------------------------------------------------------------------------
(* SeedPlan: every reference of a table is still waited for, or cut; what a table waits for is a    *)
(* reference of its own; and the tables placed so far have theirs before them.                      *)

LEMMA ColumnsPoint == ASSUME SeedTables, schema \in Seed!Schemas
  PROVE \A c \in Seed!Columns : c[1] \in Seed!Tables /\ Seed!To(c) \in Seed!Tables
<1> SUFFICES ASSUME NEW c \in Seed!Columns PROVE c[1] \in Seed!Tables /\ Seed!To(c) \in Seed!Tables
  OBVIOUS
<1>1. schema \in [Seed!Tables -> Seed!BoundedSeq(Seed!Reference, MaxWidth)]
  BY DEF Seed!Schemas
<1>2. c[1] \in Seed!Tables /\ c[2] \in DOMAIN schema[c[1]]
  BY DEF Seed!Columns
<1>3. PICK m \in 0..MaxWidth : schema[c[1]] \in [1..m -> Seed!Reference]
  BY <1>1, <1>2 DEF Seed!BoundedSeq, Seed!SeqOf
<1>4. QED
  BY <1>2, <1>3 DEF Seed!To, Seed!Reference

Waited == \A c \in Seed!Columns : Seed!Outward(c) => Seed!To(c) \in deps[c[1]] \/ Seed!CutFor(c[1], Seed!To(c))
Owned == \A t \in Seed!Tables : \A u \in deps[t] : \E c \in Seed!Columns : c[1] = t /\ Seed!To(c) = u /\ Seed!Outward(c)
Apiece == \A i, j \in DOMAIN order : order[i] = order[j] => i = j
Before == \A c \in Seed!Columns, i \in DOMAIN order : order[i] = c[1] /\ Seed!Outward(c) =>
            Seed!CutFor(c[1], Seed!To(c)) \/ \E j \in DOMAIN order : j < i /\ order[j] = Seed!To(c)
Loops == \A c \in Seed!Columns : ~Seed!Outward(c) => c \in softened

SeedTyped ==
  /\ schema \in Seed!Schemas
  /\ deps \in [Seed!Tables -> SUBSET Seed!Tables] /\ order \in Seq(Seed!Tables)
  /\ rows \in [Seed!Tables -> {"waiting", "none", "some"}]
  /\ failure \in [Seed!Tables -> {"none", "missing", "engine", "stopped"}]
SeedInv ==
  /\ SeedTyped /\ Waited /\ Owned /\ Apiece /\ Before /\ Loops
  /\ Seed!RefusedRightly /\ Seed!MissingExplained
  /\ stage \in {"filling", "done", "failed"} => Seed!Remaining = {}
  /\ stage \in {"ordering", "refused"} => \A t \in Seed!Tables : failure[t] = "none"

(* Numbers have a least one. *)
LEMMA LeastOf == ASSUME NEW S, S \subseteq Nat, S # {} PROVE \E x \in S : \A y \in S : x <= y
<1>1. PICK x \in S : \A y \in S : ~(<<y, x>> \in OpToRel(<, Nat))
  BY NatLessThanWellFounded, WFMin
<1>2. \A y \in S : ~(y < x)
  BY <1>1 DEF OpToRel
<1>3. QED
  BY <1>2

LEMMA FirstIsCuttable == ASSUME SeedTables, Seed!Cuttable # {} PROVE Seed!FirstCut \in Seed!Cuttable
<1>1. \A c \in Seed!Cuttable : c \in Nat \X Nat
  BY DEF Seed!Cuttable, Seed!Columns, Seed!Tables, SeedTables
<1> DEFINE Named == {c[1] : c \in Seed!Cuttable}
<1>b. Named \subseteq Nat /\ Named # {}
  BY <1>1
<1>2. PICK m \in Named : \A n \in Named : m <= n
  <2> HIDE DEF Named
  <2> QED
    BY <1>b, LeastOf
<1> DEFINE Ours == {n \in Nat : \E c \in Seed!Cuttable : c[1] = m /\ c[2] = n}
<1>a. Ours \subseteq Nat /\ Ours # {}
  BY <1>1, <1>2
<1>3. PICK k \in Ours : \A n \in Ours : k <= n
  <2> HIDE DEF Ours
  <2> QED
    BY <1>a, LeastOf
<1>4. PICK c \in Seed!Cuttable : c[1] = m /\ c[2] = k
  OBVIOUS
<1>5. \A d \in Seed!Cuttable : c[1] < d[1] \/ (c[1] = d[1] /\ c[2] <= d[2])
  BY <1>1, <1>2, <1>3, <1>4
<1>6. QED
  BY <1>5 DEF Seed!FirstCut

LEMMA Appended == ASSUME NEW S, NEW s \in Seq(S), NEW t \in Seq(S)
  PROVE  /\ s \o t \in Seq(S)
         /\ \A i \in DOMAIN s : i \in DOMAIN (s \o t) /\ (s \o t)[i] = s[i]
         /\ \A i \in DOMAIN (s \o t) : i \notin DOMAIN s =>
              /\ i - Len(s) \in DOMAIN t /\ (s \o t)[i] = t[i - Len(s)]
              /\ \A j \in DOMAIN s : j < i
OBVIOUS

(* Of the schema and the cuts alone. *)
LEMMA SchemaKept == ASSUME UNCHANGED <<schema, softened>>
  PROVE  /\ UNCHANGED <<Seed!Columns, Seed!Required, Seed!Fillable>>
         /\ \A c : UNCHANGED <<Seed!To(c), Seed!Outward(c), Seed!Nullable(c)>>
         /\ \A t : Seed!Written(t)' = Seed!Written(t)
         /\ \A t, u : Seed!CutFor(t, u)' <=> Seed!CutFor(t, u)
BY DEF Seed!Columns, Seed!Required, Seed!Fillable, Seed!To, Seed!Outward, Seed!Nullable, Seed!Written, Seed!CutFor, Seed!Of

LEMMA CatalogOrder == ASSUME SeedTables, NEW S, S \subseteq Seed!Tables, NEW q \in Seed!InCatalogOrder(S)
  PROVE q \in Seq(S) /\ \A i, j \in DOMAIN q : q[i] = q[j] => i = j
<1>1. Cardinality(S) \in Nat
  <2>1. IsFiniteSet(Seed!Tables)
    BY FS_Interval DEF SeedTables, Seed!Tables
  <2>2. QED
    BY <2>1, FS_Subset, FS_CardinalityType
<1>2. PICK n \in Nat : q \in [1..n -> S]
  BY <1>1, SeedCount DEF Seed!InCatalogOrder
<1>3. \A i, j \in 1..n : i < j => q[i] < q[j]
  BY <1>2 DEF Seed!InCatalogOrder
<1>a. Seed!Tables \subseteq Nat
  BY DEF SeedTables, Seed!Tables
<1>4. \A i \in 1..n : q[i] \in Nat
  BY <1>2, <1>a
<1>5. \A i, j \in 1..n : q[i] = q[j] => i = j
  BY <1>3, <1>4
<1>6. QED
  BY <1>2, <1>5

LEMMA PlaceStep == ASSUME SeedTables, SeedInv, stage = "ordering", Seed!Place, UNCHANGED <<schema, rows, failure>>
  PROVE SeedInv'
<1> USE DEF SeedInv
<1>1. PICK ready \in Seed!InCatalogOrder(Seed!Ready) : order' = order \o ready
  BY DEF Seed!Place
<1>2. /\ UNCHANGED <<schema, deps, softened, stage, rows, failure>> /\ order \in Seq(Seed!Tables)
  BY DEF Seed!Place, SeedTyped
<1>3. Seed!Ready \subseteq Seed!Tables
  BY DEF Seed!Ready, Seed!Remaining
<1>4. ready \in Seq(Seed!Ready) /\ \A i, j \in DOMAIN ready : ready[i] = ready[j] => i = j
  BY <1>3, CatalogOrder
<1>5. ready \in Seq(Seed!Tables)
  BY <1>3, <1>4
<1>6. \A u : u \in Seed!Placed <=> \E i \in DOMAIN order : order[i] = u
  BY <1>2 DEF Seed!Placed, Seed!ToSet
<1>7. \A i \in DOMAIN ready : ready[i] \notin Seed!Placed /\ deps[ready[i]] \subseteq Seed!Placed
  BY <1>4 DEF Seed!Ready, Seed!Remaining
<1>8. /\ order' \in Seq(Seed!Tables)
      /\ \A i \in DOMAIN order : i \in DOMAIN order' /\ order'[i] = order[i]
      /\ \A i \in DOMAIN order' : i \notin DOMAIN order =>
           /\ i - Len(order) \in DOMAIN ready /\ order'[i] = ready[i - Len(order)]
           /\ \A j \in DOMAIN order : j < i
  BY <1>1, <1>2, <1>5, Appended
<1>9. Apiece'
  <2> SUFFICES ASSUME NEW i \in DOMAIN order', NEW j \in DOMAIN order', order'[i] = order'[j] PROVE i = j
    BY DEF Apiece
  <2>1. CASE i \in DOMAIN order /\ j \in DOMAIN order
    BY <1>8, <2>1 DEF Apiece
  <2>2. CASE i \in DOMAIN order /\ j \notin DOMAIN order
    BY <1>6, <1>7, <1>8, <2>2
  <2>3. CASE i \notin DOMAIN order /\ j \in DOMAIN order
    BY <1>6, <1>7, <1>8, <2>3
  <2>4. CASE i \notin DOMAIN order /\ j \notin DOMAIN order
    <3>1. i - Len(order) = j - Len(order)
      BY <1>4, <1>8, <2>4
    <3>2. i \in Nat /\ j \in Nat /\ Len(order) \in Nat
      BY <1>2, <1>8
    <3>3. QED
      BY <3>1, <3>2
  <2>5. QED
    BY <2>1, <2>2, <2>3, <2>4
<1>10. Before'
  <2> SUFFICES ASSUME NEW c \in Seed!Columns, NEW i \in DOMAIN order', order'[i] = c[1], Seed!Outward(c)
               PROVE  Seed!CutFor(c[1], Seed!To(c)) \/ \E j \in DOMAIN order' : j < i /\ order'[j] = Seed!To(c)
    BY <1>2, SchemaKept DEF Before
  <2>1. CASE i \in DOMAIN order
    BY <1>8, <2>1 DEF Before
  <2>2. CASE i \notin DOMAIN order
    <3>1. Seed!To(c) \in deps[c[1]] \/ Seed!CutFor(c[1], Seed!To(c))
      BY DEF Waited
    <3>2. deps[c[1]] \subseteq Seed!Placed
      BY <1>7, <1>8, <2>2
    <3>3. QED
      BY <1>6, <1>8, <2>2, <3>1, <3>2
  <2>3. QED
    BY <2>1, <2>2
<1>11. SeedTyped' /\ Waited' /\ Owned' /\ Loops'
  BY <1>2, <1>8, SchemaKept DEF SeedTyped, Waited, Owned, Loops
<1>12. Seed!RefusedRightly' /\ Seed!MissingExplained'
  BY <1>2 DEF Seed!RefusedRightly, Seed!MissingExplained
<1>13. QED
  BY <1>2, <1>9, <1>10, <1>11, <1>12

LEMMA CutStep == ASSUME SeedTables, SeedInv, stage = "ordering", Seed!Cut, UNCHANGED <<schema, rows, failure>>
  PROVE SeedInv'
<1> USE DEF SeedInv
<1>1. PICK F \in Seed!Columns :
      /\ F[1] \in Seed!Tables
      /\ deps' = [deps EXCEPT ![F[1]] = deps[F[1]] \ {Seed!To(F)}] /\ softened' = softened \cup {F}
      /\ UNCHANGED <<schema, order, stage, rows, failure>>
  BY FirstIsCuttable, ColumnsPoint DEF Seed!Cut, Seed!Cuttable, SeedTyped
<1>2. /\ UNCHANGED Seed!Columns
      /\ \A c : UNCHANGED <<Seed!To(c), Seed!Outward(c)>>
      /\ \A t, u : (Seed!CutFor(t, u) => Seed!CutFor(t, u)') /\ (t = F[1] /\ u = Seed!To(F) => Seed!CutFor(t, u)')
  <2>1. UNCHANGED schema /\ softened' = softened \cup {F}
    BY <1>1
  <2> HIDE DEF SeedInv
  <2>2. QED
    BY <2>1 DEF Seed!Columns, Seed!To, Seed!Outward, Seed!CutFor
<1>3. SeedTyped'
  BY <1>1 DEF SeedTyped
<1>4. Waited'
  <2> SUFFICES ASSUME NEW c \in Seed!Columns, Seed!Outward(c) PROVE Seed!To(c) \in deps'[c[1]] \/ Seed!CutFor(c[1], Seed!To(c))'
    BY <1>2 DEF Waited
  <2>1. CASE Seed!CutFor(c[1], Seed!To(c))
    BY <1>2, <2>1
  <2>2. CASE Seed!To(c) \in deps[c[1]] /\ c[1] = F[1] /\ Seed!To(c) = Seed!To(F)
    BY <1>2, <2>2
  <2>3. CASE Seed!To(c) \in deps[c[1]] /\ ~(c[1] = F[1] /\ Seed!To(c) = Seed!To(F))
    BY <1>1, <2>3, ColumnsPoint DEF SeedTyped
  <2>4. QED
    BY <2>1, <2>2, <2>3 DEF Waited
<1>5. Owned'
  <2>1. \A t \in Seed!Tables : deps'[t] \subseteq deps[t]
    BY <1>1 DEF SeedTyped
  <2>2. QED
    BY <1>2, <2>1 DEF Owned
<1>6. Apiece' /\ Before' /\ Loops'
  BY <1>1, <1>2 DEF Apiece, Before, Loops
<1>7. Seed!RefusedRightly' /\ Seed!MissingExplained'
  BY <1>1 DEF Seed!RefusedRightly, Seed!MissingExplained
<1>8. QED
  BY <1>1, <1>3, <1>4, <1>5, <1>6, <1>7

(* Of the tables that remain, one of the lowest level waits for none that remains. *)
LEMMA StuckUnfillable == ASSUME SeedTables, SeedInv, Seed!Remaining # {}, Seed!Ready = {}, Seed!Cuttable = {}
  PROVE ~Seed!Fillable
<1> USE DEF SeedInv
<1> SUFFICES ASSUME NEW level \in [Seed!Tables -> Seed!Tables],
                    \A c \in Seed!Required : level[Seed!To(c)] < level[c[1]]
             PROVE  FALSE
  BY DEF Seed!Fillable
<1>1. Seed!Remaining \subseteq Seed!Tables
  BY DEF Seed!Remaining
<1>2. Seed!Tables \subseteq Nat
  BY DEF SeedTables, Seed!Tables
<1> DEFINE Levels == {level[t] : t \in Seed!Remaining}
<1>3. Levels \subseteq Nat /\ Levels # {}
  BY <1>1, <1>2
<1>4. PICK low \in Levels : \A l \in Levels : low <= l
  <2> HIDE DEF Levels
  <2> QED
    BY <1>3, LeastOf
<1>5. PICK t \in Seed!Remaining : level[t] = low
  OBVIOUS
<1>6. PICK u \in deps[t] : u \notin Seed!Placed
  BY DEF Seed!Ready
<1>7. PICK c \in Seed!Columns : c[1] = t /\ Seed!To(c) = u /\ Seed!Outward(c)
  BY <1>1 DEF Owned
<1>8. c \in Seed!Required
  BY <1>6, <1>7 DEF Seed!Required, Seed!Cuttable
<1>9. u \in Seed!Remaining
  BY <1>1, <1>6, <1>7, ColumnsPoint DEF Seed!Remaining, SeedTyped
<1>10. level[u] < low /\ low <= level[u] /\ low \in Nat /\ level[u] \in Nat
  BY <1>1, <1>2, <1>4, <1>5, <1>7, <1>8, <1>9
<1>11. QED
  BY <1>10

(* A parent that a table was not cut from has had its turn. *)
LEMMA ParentHadTurn == ASSUME SeedTables, SeedInv, NEW t \in Seed!Tables, Seed!Turn(t), NEW c \in Seed!Written(t)
  PROVE  Seed!To(c) \in Seed!Tables \ {t} /\ (Seed!CutFor(t, Seed!To(c)) \/ rows[Seed!To(c)] # "waiting")
<1> USE DEF SeedInv
<1>1. c \in Seed!Columns /\ c[1] = t /\ Seed!Outward(c)
  BY DEF Seed!Written, Seed!Of, Loops
<1>2. Seed!To(c) \in Seed!Tables \ {t}
  BY <1>1, ColumnsPoint DEF Seed!Outward, SeedTyped
<1>3. /\ order \in Seq(Seed!Tables) /\ t \in Seed!Placed
      /\ \A i \in DOMAIN order : rows[order[i]] = "waiting" => \E k \in 1..i : order[k] = t
  BY DEF Seed!Turn, Seed!Remaining, SeedTyped
<1>4. PICK i \in DOMAIN order : order[i] = t
  BY <1>3 DEF Seed!Placed, Seed!ToSet
<1>5. ASSUME NEW j \in DOMAIN order, j < i, order[j] = Seed!To(c), rows[Seed!To(c)] = "waiting" PROVE FALSE
  <2>1. PICK k \in 1..j : order[k] = t
    BY <1>3, <1>5
  <2>2. k \in DOMAIN order /\ k # i
    BY <1>3, <1>4, <1>5, <2>1
  <2>3. QED
    BY <1>4, <2>1, <2>2 DEF Apiece
<1>6. QED
  BY <1>1, <1>2, <1>4, <1>5 DEF Before

LEMMA TurnStep ==
  ASSUME SeedTables, SeedInv, NEW t \in Seed!Tables, Seed!Turn(t), NEW kept \in {"none", "some"}, NEW why \in {"missing", "engine"},
         rows' = [rows EXCEPT ![t] = kept], failure' = failure \/ failure' = [failure EXCEPT ![t] = why],
         why = "missing" => kept = "none" /\ \E c \in Seed!Written(t) : ~Seed!Nullable(c) /\ Seed!Parentless(c)
  PROVE  SeedInv'
<1> USE DEF SeedInv
<1>1. /\ UNCHANGED <<schema, deps, order, softened, stage>> /\ stage = "filling" /\ rows[t] = "waiting"
      /\ rows \in [Seed!Tables -> {"waiting", "none", "some"}]
      /\ failure \in [Seed!Tables -> {"none", "missing", "engine", "stopped"}]
  BY DEF Seed!Turn, SeedTyped
<1>2. ASSUME NEW u \in Seed!Tables, failure'[u] = "missing"
      PROVE  \E c \in Seed!Written(u) : ~Seed!Nullable(c) /\ (rows'[Seed!To(c)] = "none" \/ Seed!CutFor(u, Seed!To(c)))
  <2>1. CASE failure[u] = "missing"
    <3>1. PICK c \in Seed!Written(u) : ~Seed!Nullable(c) /\ (rows[Seed!To(c)] = "none" \/ Seed!CutFor(u, Seed!To(c)))
      BY <2>1 DEF Seed!MissingExplained
    <3>2. Seed!To(c) \in Seed!Tables
      BY ColumnsPoint DEF Seed!Written, Seed!Of, SeedTyped
    <3>3. rows[Seed!To(c)] = "none" => rows'[Seed!To(c)] = "none"
      BY <1>1, <3>2
    <3>4. QED
      BY <3>1, <3>3
  <2>2. CASE failure[u] # "missing"
    <3>1. u = t /\ why = "missing"
      BY <1>1, <1>2, <2>2
    <3>2. PICK c \in Seed!Written(t) : ~Seed!Nullable(c) /\ Seed!Parentless(c)
      BY <3>1
    <3>3. Seed!To(c) \in Seed!Tables \ {t} /\ (Seed!CutFor(t, Seed!To(c)) \/ rows[Seed!To(c)] # "waiting")
      BY ParentHadTurn
    <3>4. rows[Seed!To(c)] # "waiting" => rows'[Seed!To(c)] = "none"
      BY <1>1, <3>2, <3>3 DEF Seed!Parentless
    <3>5. QED
      BY <3>1, <3>2, <3>3, <3>4
  <2>3. QED
    BY <2>1, <2>2
<1>3. Seed!MissingExplained'
  BY <1>1, <1>2, SchemaKept DEF Seed!MissingExplained
<1>4. SeedTyped'
  BY <1>1 DEF SeedTyped
<1>5. Waited' /\ Owned' /\ Apiece' /\ Before' /\ Loops'
  BY <1>1, SchemaKept DEF Waited, Owned, Apiece, Before, Loops
<1>6. QED
  BY <1>1, <1>3, <1>4, <1>5 DEF Seed!RefusedRightly, Seed!Remaining, Seed!Placed, Seed!ToSet

(* Nothing but the stage, or every table's failure. *)
LEMMA StageStep ==
  ASSUME SeedTables, SeedInv, UNCHANGED <<schema, deps, order, softened, rows>>,
         stage' \in {"refused", "filling", "done", "failed"}, stage' = "refused" => ~Seed!Fillable /\ stage = "ordering",
         stage' # "refused" => Seed!Remaining = {},
         failure' = failure \/ (stage' = "failed" /\ failure' = [t \in Seed!Tables |-> "stopped"])
  PROVE  SeedInv'
<1> USE DEF SeedInv
<1>1. SeedTyped'
  BY DEF SeedTyped
<1>2. Waited' /\ Owned' /\ Apiece' /\ Before' /\ Loops'
  BY SchemaKept DEF Waited, Owned, Apiece, Before, Loops
<1>3. Seed!RefusedRightly'
  BY SchemaKept DEF Seed!RefusedRightly
<1>4. Seed!MissingExplained'
  <2>1. CASE failure' = failure
    BY <2>1, SchemaKept DEF Seed!MissingExplained
  <2>2. CASE failure' = [t \in Seed!Tables |-> "stopped"]
    BY <2>2 DEF Seed!MissingExplained
  <2>3. QED
    BY <2>1, <2>2
<1>5. Seed!Remaining' = Seed!Remaining
  BY DEF Seed!Remaining, Seed!Placed, Seed!ToSet
<1>6. QED
  BY <1>1, <1>2, <1>3, <1>4, <1>5

LEMMA SeedStep == ASSUME SeedTables, SeedInv, Seed!Next PROVE SeedInv'
<1>1. CASE Seed!Round
  <2>1. /\ stage = "ordering" /\ Seed!Remaining # {} /\ UNCHANGED <<schema, rows, failure>>
        /\ Seed!Place \/ Seed!Cut \/ Seed!Refuse
    BY <1>1 DEF Seed!Round
  <2>2. CASE Seed!Refuse
    <3>1. /\ stage' = "refused" /\ UNCHANGED <<deps, order, softened>> /\ ~Seed!Fillable
      BY <2>1, <2>2, StuckUnfillable DEF Seed!Refuse
    <3>2. QED
      BY <2>1, <3>1, StageStep
  <2>3. QED
    BY <2>1, <2>2, PlaceStep, CutStep
<1>2. CASE Seed!Ordered
  BY <1>2, StageStep DEF Seed!Ordered
<1>3. CASE Seed!EmptyingFails
  BY <1>3, StageStep DEF Seed!EmptyingFails, SeedInv
<1>4. CASE Seed!Finish
  BY <1>4, StageStep DEF Seed!Finish, SeedInv
<1>5. ASSUME NEW t \in Seed!Tables, Seed!FillNothing(t) PROVE SeedInv'
  <2>1. Seed!Turn(t) /\ rows' = [rows EXCEPT ![t] = "none"] /\ failure' = failure
    BY <1>5 DEF Seed!FillNothing
  <2>2. QED
    BY <2>1, TurnStep
<1>6. ASSUME NEW t \in Seed!Tables, Seed!FillTable(t) PROVE SeedInv'
  <2>1. PICK kept \in {"none", "some"} :
          /\ Seed!Turn(t) /\ rows' = [rows EXCEPT ![t] = kept]
          /\ failure' = failure \/ failure' = [failure EXCEPT ![t] = "engine"]
    BY <1>6 DEF Seed!FillTable
  <2>2. QED
    BY <2>1, TurnStep
<1>7. ASSUME NEW t \in Seed!Tables, Seed!FillFails(t) PROVE SeedInv'
  <2>1. /\ Seed!Turn(t) /\ rows' = [rows EXCEPT ![t] = "none"] /\ failure' = [failure EXCEPT ![t] = "missing"]
        /\ \E c \in Seed!Written(t) : ~Seed!Nullable(c) /\ Seed!Parentless(c)
    BY <1>7 DEF Seed!FillFails, Seed!Missing
  <2>2. QED
    BY <2>1, TurnStep
<1>8. QED
  BY <1>1, <1>2, <1>3, <1>4, <1>5, <1>6, <1>7 DEF Seed!Next

LEMMA SeedInvariant == ASSUME SeedTables PROVE PartsSpec => []SeedInv
<1>1. PartsInit => SeedInv
  <2> SUFFICES ASSUME Seed!Init PROVE SeedInv
    BY EachPartBegins
  <2>1. /\ schema \in Seed!Schemas /\ order = <<>> /\ stage = "ordering"
        /\ rows = [t \in Seed!Tables |-> "waiting"] /\ failure = [t \in Seed!Tables |-> "none"]
        /\ \A c \in Seed!Columns : ~Seed!Outward(c) => c \in softened
        /\ deps = [t \in Seed!Tables |-> {Seed!To(c) : c \in {c \in Seed!Of(t) : Seed!Outward(c)}}]
    BY DEF Seed!Init
  <2>2. \A c \in Seed!Columns : c[1] \in Seed!Tables /\ Seed!To(c) \in Seed!Tables
    BY <2>1, ColumnsPoint
  <2>3. \A t \in Seed!Tables : \A u : u \in deps[t] <=> \E c \in Seed!Columns : c[1] = t /\ Seed!Outward(c) /\ Seed!To(c) = u
    BY <2>1 DEF Seed!Of
  <2>4. deps \in [Seed!Tables -> SUBSET Seed!Tables]
    <3>1. \A t \in Seed!Tables : deps[t] \subseteq Seed!Tables
      BY <2>2, <2>3
    <3>2. QED
      BY <2>1, <3>1
  <2>5. SeedTyped
    BY <2>1, <2>4 DEF SeedTyped
  <2>6. Waited /\ Owned /\ Apiece /\ Before /\ Loops
    <3>1. DOMAIN order = {}
      BY <2>1
    <3>2. Apiece /\ Before /\ Loops
      BY <2>1, <3>1 DEF Apiece, Before, Loops
    <3>3. Waited /\ Owned
      BY <2>2, <2>3 DEF Waited, Owned
    <3>4. QED
      BY <3>2, <3>3
  <2>7. QED
    BY <2>1, <2>5, <2>6 DEF SeedInv, Seed!RefusedRightly, Seed!MissingExplained
<1>2. SeedInv /\ [PartsNext]_vars => SeedInv'
  <2>1. SeedInv /\ UNCHANGED seedVars => SeedInv'
    <3> SUFFICES ASSUME SeedInv, UNCHANGED <<schema, deps, order, softened, stage, rows, failure>> PROVE SeedInv'
      BY DEF seedVars
    <3>1. SeedTyped' /\ Waited' /\ Owned' /\ Apiece' /\ Before' /\ Loops'
      BY SchemaKept DEF SeedInv, SeedTyped, Waited, Owned, Apiece, Before, Loops
    <3>2. Seed!RefusedRightly' /\ Seed!MissingExplained' /\ UNCHANGED Seed!Remaining
      BY SchemaKept DEF SeedInv, Seed!RefusedRightly, Seed!MissingExplained, Seed!Remaining, Seed!Placed, Seed!ToSet
    <3>3. QED
      BY <3>1, <3>2 DEF SeedInv
  <2>2. QED
    BY <2>1, EachPartSteps, SeedStep
<1>3. QED
  BY <1>1, <1>2, PTL DEF PartsSpec

(* A table is placed after every table it points at, but for those it was cut from, and a schema is *)
(* refused only if no order of its tables could be filled (seed-data/plan.ts: orderTables).          *)
THEOREM OrderedRightlyHolds == ASSUME SeedTables PROVE PartsSpec => []OrderedRightly
<1>1. SeedInv => OrderedRightly
  <2> SUFFICES ASSUME SeedInv PROVE Seed!ParentsFirst
    BY DEF SeedInv, OrderedRightly
  <2> SUFFICES ASSUME NEW c \in Seed!Columns, c[1] \in Seed!Placed, Seed!Outward(c), ~Seed!CutFor(c[1], Seed!To(c))
               PROVE  Seed!To(c) \in Seed!Placed /\ Seed!At(Seed!To(c)) < Seed!At(c[1])
    BY DEF Seed!ParentsFirst
  <2>1. PICK i \in DOMAIN order : order[i] = c[1]
    BY DEF Seed!Placed, Seed!ToSet
  <2>2. PICK j \in DOMAIN order : j < i /\ order[j] = Seed!To(c)
    BY <2>1 DEF SeedInv, Before
  <2>3. \A k \in DOMAIN order : Seed!At(order[k]) = k
    BY DEF Seed!At, SeedInv, Apiece
  <2>4. QED
    BY <2>1, <2>2, <2>3 DEF Seed!Placed, Seed!ToSet
<1>2. QED
  BY <1>1, SeedInvariant, PTL

(* A table reported to lack a parent's row names a required parent that had its turn and kept none, *)
(* or one it was cut from through another column (seed-data/run.ts: fillTable).                       *)
THEOREM MissingExplainedHolds == ASSUME SeedTables PROVE PartsSpec => []MissingExplained
<1>1. SeedInv => MissingExplained
  BY DEF SeedInv, MissingExplained
<1>2. QED
  BY <1>1, SeedInvariant, PTL

-----------------------------------------------------------------------------
(* ServiceTokens, FreezeWindows: what CollectionsProofs shows of each, whichever of the two moves. *)

TokenFacts == INSTANCE CollectionsProofs WITH Values <- {"none", "live", "revoked"},
                                              Ops <- {"create", "revoke", "authenticate", "touch"}
WindowFacts == INSTANCE CollectionsProofs WITH Values <- {"none", "open"}, Ops <- {"create", "delete", "write", "run"}

CollectionsInv ==
  /\ part = "tokens" => TokenFacts!TokensInv
  /\ part = "windows" => WindowFacts!Young

LEMMA CollectionsNamedWell == ASSUME CollectionsNamed PROVE TokenFacts!TokenConstants /\ WindowFacts!FreezeConstants
<1>1. \E r \in Replicas : r # here
  BY DEF CollectionsNamed
<1>2. (CHOOSE r \in Replicas : r # here) \in Replicas
  BY <1>1
<1>3. Home \in [Calls -> Replicas]
  BY <1>2 DEF Home, CollectionsNamed
<1>4. QED
  BY <1>3 DEF CollectionsNamed, TokenFacts!TokenConstants, TokenFacts!CollectionConstants,
              WindowFacts!FreezeConstants, WindowFacts!CollectionConstants

LEMMA TokensAlike == Tokens!TokensNext => TokenFacts!TokensNext
BY DEF Tokens!Puts, TokenFacts!Puts, Tokens!Rests, TokenFacts!Rests, Tokens!Fresh, TokenFacts!Fresh,
         Tokens!Asks, TokenFacts!Asks, Tokens!Begin, TokenFacts!Begin, Tokens!Fetch, TokenFacts!Fetch,
         Tokens!Fill, TokenFacts!Fill, Tokens!Decides, TokenFacts!Decides, Tokens!Leave, TokenFacts!Leave,
         Tokens!Write, TokenFacts!Write, Tokens!Store, TokenFacts!Store, Tokens!Keep, TokenFacts!Keep,
         Tokens!Fails, TokenFacts!Fails, Tokens!Restart, TokenFacts!Restart, Tokens!Waits, TokenFacts!Waits,
         Tokens!Pass, TokenFacts!Pass, Tokens!Passage, TokenFacts!Passage, Tokens!IdleCall,
         TokenFacts!IdleCall, Tokens!Nothing, TokenFacts!Nothing, Tokens!Unused, TokenFacts!Unused,
         Tokens!TokenAsked, TokenFacts!TokenAsked, Tokens!CreateServiceToken, TokenFacts!CreateServiceToken,
         Tokens!RevokeServiceToken, TokenFacts!RevokeServiceToken, Tokens!Admits, TokenFacts!Admits,
         Tokens!Admit, TokenFacts!Admit, Tokens!TurnAway, TokenFacts!TurnAway, Tokens!TouchServiceToken,
         TokenFacts!TouchServiceToken, Tokens!TokensNext, TokenFacts!TokensNext

LEMMA WindowsAlike == Windows!WindowsNext => WindowFacts!WindowsNext
BY DEF Windows!Puts, WindowFacts!Puts, Windows!Rests, WindowFacts!Rests, Windows!Fresh, WindowFacts!Fresh,
         Windows!Asks, WindowFacts!Asks, Windows!Begin, WindowFacts!Begin, Windows!Fetch, WindowFacts!Fetch,
         Windows!Fill, WindowFacts!Fill, Windows!Decides, WindowFacts!Decides, Windows!Leave,
         WindowFacts!Leave, Windows!Write, WindowFacts!Write, Windows!Store, WindowFacts!Store, Windows!Keep,
         WindowFacts!Keep, Windows!Fails, WindowFacts!Fails, Windows!Restart, WindowFacts!Restart,
         Windows!Waits, WindowFacts!Waits, Windows!Pass, WindowFacts!Pass, Windows!Passage,
         WindowFacts!Passage, Windows!IdleCall, WindowFacts!IdleCall, Windows!Nothing, WindowFacts!Nothing,
         Windows!WindowAsked, WindowFacts!WindowAsked, Windows!CreateFreezeWindow,
         WindowFacts!CreateFreezeWindow, Windows!DeleteFreezeWindow, WindowFacts!DeleteFreezeWindow,
         Windows!ActiveFreeze, WindowFacts!ActiveFreeze, Windows!Passes, WindowFacts!Passes, Windows!Refuses,
         WindowFacts!Refuses, Windows!Ran, WindowFacts!Ran, Windows!WindowsNext, WindowFacts!WindowsNext

LEMMA CollectionsBegin == ASSUME CollectionsNamed, PartsInit PROVE CollectionsInv
<1>1. TokenFacts!CollectionInit /\ WindowFacts!CollectionInit
  BY DEF PartsInit, Tokens!CollectionInit, TokenFacts!CollectionInit, WindowFacts!CollectionInit,
         Tokens!Nothing, TokenFacts!Nothing, WindowFacts!Nothing, Tokens!IdleCall, TokenFacts!IdleCall, WindowFacts!IdleCall
<1>2. QED
  BY <1>1, CollectionsNamedWell, TokenFacts!TokensBegin, WindowFacts!YoungInit DEF CollectionsInv, WindowFacts!FreezeConstants

(* A step of the parts leaves the collections alone, or is one of the part that has them. *)
LEMMA CollectionMoves == ASSUME [PartsNext]_vars
  PROVE  /\ part' = part
         /\ \/ part = "tokens" /\ Tokens!TokensNext
            \/ part = "windows" /\ Windows!WindowsNext
            \/ UNCHANGED collectionVars
<1> USE DEF servedVars, dataVars, pageVars
<1>1. CASE UNCHANGED vars
  BY <1>1 DEF vars
<1>2. CASE ServedMove
  BY <1>2 DEF ServedMove, TokensMove, WindowsMove, ProvidersMove, ExportMoves, LeasesMove, SyncMoves
<1>3. CASE DataMove
  BY <1>3 DEF DataMove, SeedMoves, TransactionsMove, JobsMove, ProvisioningMoves
<1>4. CASE TabsMove \/ StudioMoves \/ PanelMoves
  BY <1>4 DEF TabsMove, StudioMoves, PanelMoves
<1>5. QED
  BY <1>1, <1>2, <1>3, <1>4 DEF PartsNext

LEMMA CollectionsStep == ASSUME CollectionsNamed, CollectionsInv, [PartsNext]_vars PROVE CollectionsInv'
<1> USE DEF CollectionsInv
<1>1. part' = part
  BY CollectionMoves
<1>2. CASE part = "tokens" /\ Tokens!TokensNext
  BY <1>1, <1>2, TokensAlike, CollectionsNamedWell, TokenFacts!TokenStep
<1>3. CASE part = "windows" /\ Windows!WindowsNext
  BY <1>1, <1>3, WindowsAlike, CollectionsNamedWell, WindowFacts!FreezeStep
<1>4. CASE UNCHANGED collectionVars
  <2>1. UNCHANGED TokenFacts!collectionVars /\ UNCHANGED WindowFacts!collectionVars
    BY <1>4 DEF collectionVars, TokenFacts!collectionVars, WindowFacts!collectionVars
  <2>2. QED
    BY <1>1, <2>1, TokenFacts!TokensStay, WindowFacts!YoungStays
<1>5. QED
  BY <1>2, <1>3, <1>4, CollectionMoves

RevocationKeeps ==
  \A c \in Calls, t \in Entries : Tokens!Holds(c, t) =>
    /\ ~(Tokens!Admits(c) /\ calls[c].entry = t /\ calls'[c].op = "touch")
    /\ Tokens!Store(c) => stored'[t] = "revoked"

(* A call that began Ttl + Lag after a revocation reached the store, in whatever replica, *)
(* neither admits the token (authenticateServiceToken) nor writes the revocation away     *)
(* (createServiceToken, revokeServiceToken, touchServiceToken).                           *)
THEOREM RevokedStays == PartsSpec => RevocationHolds
<1>1. PartsInit => CollectionsInv
  BY PartsAssumption, CollectionsBegin
<1>2. CollectionsInv /\ [PartsNext]_vars => CollectionsInv'
  BY PartsAssumption, CollectionsStep
<1>3. CollectionsInv /\ [PartsNext]_vars => [RevocationKeeps]_collectionVars
  <2> SUFFICES ASSUME CollectionsInv, [PartsNext]_vars, ~UNCHANGED collectionVars,
                      NEW c \in Calls, NEW t \in Entries, Tokens!Holds(c, t)
               PROVE  /\ ~(Tokens!Admits(c) /\ calls[c].entry = t)
                      /\ Tokens!Store(c) => stored'[t] = "revoked"
    BY DEF RevocationKeeps
  <2>1. TokenFacts!Holds(c, t) /\ stored[t] = "revoked"
    BY DEF Tokens!Holds, TokenFacts!Holds
  <2>2. CASE part = "tokens"
    <3>1. ~(TokenFacts!Admits(c) /\ calls[c].entry = t) /\ (TokenFacts!Store(c) => stored'[t] = "revoked")
      BY <2>1, <2>2, PartsAssumption, CollectionsNamedWell, TokenFacts!RevocationKept DEF CollectionsInv
    <3>2. QED
      BY <3>1 DEF Tokens!Admits, TokenFacts!Admits, Tokens!Decides, TokenFacts!Decides, Tokens!Store, TokenFacts!Store,
                  Tokens!Puts, TokenFacts!Puts
  <2>3. CASE part = "windows"
    BY <2>1, <2>3 DEF CollectionsInv, WindowFacts!Young, WindowFacts!CollectionTypeOK, WindowFacts!List
  <2>4. QED
    BY <2>2, <2>3, CollectionMoves
<1>4. QED
  BY <1>1, <1>2, <1>3, PTL DEF PartsSpec, RevocationHolds, Tokens!RevocationHolds, RevocationKeeps, collectionVars, Tokens!collectionVars

FreezeKeeps ==
  \A c \in Calls, w \in Entries :
    stored[w] = "open" /\ landed[w] + Ttl + Lag <= calls[c].begun => ~(calls[c].op = "write" /\ calls'[c].op = "run")

(* A write that asked Ttl + Lag after a window reached the store, in whatever replica,  *)
(* does not pass the gate while the window is there (activeFreeze, assertWriteAllowed). *)
THEOREM FreezeStays == PartsSpec => FreezeSeen
<1>1. PartsInit => CollectionsInv
  BY PartsAssumption, CollectionsBegin
<1>2. CollectionsInv /\ [PartsNext]_vars => CollectionsInv'
  BY PartsAssumption, CollectionsStep
<1>3. CollectionsInv /\ [PartsNext]_vars => [FreezeKeeps]_collectionVars
  <2> SUFFICES ASSUME CollectionsInv, [PartsNext]_vars, ~UNCHANGED collectionVars,
                      NEW c \in Calls, NEW w \in Entries,
                      stored[w] = "open", landed[w] + Ttl + Lag <= calls[c].begun, calls[c].op = "write"
               PROVE  calls'[c].op # "run"
    BY DEF FreezeKeeps
  <2>1. CASE part = "windows" /\ Windows!WindowsNext
    BY <2>1, PartsAssumption, CollectionsNamedWell, WindowsAlike, WindowFacts!FreezeKept DEF CollectionsInv
  <2>2. CASE part = "tokens"
    BY <2>2 DEF CollectionsInv, TokenFacts!TokensInv, TokenFacts!Young, TokenFacts!CollectionTypeOK, TokenFacts!List
  <2>3. QED
    BY <2>1, <2>2, CollectionMoves
<1>4. QED
  BY <1>1, <1>2, <1>3, PTL DEF PartsSpec, FreezeSeen, Windows!FreezeSeen, FreezeKeeps, collectionVars, Windows!collectionVars
=============================================================================
