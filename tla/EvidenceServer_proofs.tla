------------------------ MODULE EvidenceServer_proofs ------------------------
(***************************************************************************)
(* Whatever a process lists is sealed evidence, and stays so: a process    *)
(* only registers what Evident accepts, and no step of any process takes   *)
(* evidence back. ServerInv adds what each process works on, who holds     *)
(* which request lock, and where the request of an owner is; from it the   *)
(* processes implement RequestLifecycle, and no guard of that abstract     *)
(* specification ever holds up an owner.                                   *)
(***************************************************************************)
EXTENDS EvidenceServer, TLAPS

-----------------------------------------------------------------------------
(* The inductive invariant.                                                *)

\* TypeOK in its parts: the life-cycle, the processes, and the locks.
LifecycleTypes ==
  /\ phase \in [Request -> Phase]
  /\ bytes \in [Request -> Digest \cup {NoDigest}]
  /\ executions \in [Request -> Nat]
  /\ result \in [Request -> Result \cup {NoResult}]

ServerTypes ==
  /\ legacy \in [RunId -> {"absent", "directory", "recorded"}]
  /\ owner \in [Request -> Server \cup {Nobody}]
  /\ at \in [Server -> Label]
  /\ on \in [Server -> Id \cup {Nothing}]
  /\ todo \in [Server -> SUBSET Id] /\ resources \in [Server -> SUBSET Id]
  /\ crashes \in Nat /\ failures \in Nat

LockOK ==
  \A r \in Request, s \in Server : owner[r] = s <=> at[s] \in Owning /\ on[s] = r

\* What a process works on is of the kind that its tool is about.
WorkOK ==
  \A s \in Server :
    /\ at[s] \in {"submit", "get"} \cup Owning => on[s] \in Request
    /\ at[s] = "record" => on[s] \in RunId
    /\ at[s] = "project" => on[s] \in Id

\* A request is executed once, after it was started, and committed after that.
HistoryOK ==
  \A r \in Request :
    /\ phase[r] \in {"absent", "pending", "rejected"} => executions[r] = 0
    /\ executions[r] \in {0, 1}
    /\ executions[r] = 0 => result[r] = NoResult
    /\ phase[r] = "completed" => result[r] # NoResult

\* The owner of a request lock finds its request where its own steps left it,
\* except that another process may have sealed what it committed.
OwnerGoesOn(s) ==
  LET r == on[s]
  IN  /\ at[s] = "own" => phase[r] = "pending"
      /\ at[s] = "execute" => phase[r] = "started" /\ executions[r] = 0
      /\ at[s] = "commit" =>
           phase[r] = "started" /\ executions[r] = 1 /\ result[r] = NoResult
      /\ at[s] = "seal" =>
           phase[r] \in {"started", "completed"} /\ result[r] # NoResult

OwnersGoOn == \A s \in Server : OwnerGoesOn(s)

ServerInv ==
  /\ LifecycleTypes /\ ServerTypes /\ LockOK
  /\ WorkOK /\ HistoryOK /\ OwnersGoOn /\ RegisteredIsSealed

-----------------------------------------------------------------------------
(* The life-cycle of a request.                                            *)

\* The steps of the abstract specification that are about one request.
LifecycleStep(r) ==
  \/ \E d \in Digest : ClaimRequest(r, d)
  \/ \E o \in Result : Commit(r, o)
  \/ RejectRequest(r) \/ StartRequest(r) \/ ExecuteOnce(r)
  \/ LoseOwner(r) \/ Complete(r)

\* A request that this step is not about.
Untouched(q) ==
  phase'[q] = phase[q] /\ executions'[q] = executions[q] /\ result'[q] = result[q]

\* What is sealed or recorded stays so.
EvidenceStays ==
  /\ \A r \in Request :
       phase[r] = "completed" /\ result[r] # NoResult =>
         phase'[r] = "completed" /\ result'[r] # NoResult
  /\ \A u \in RunId : legacy[u] = "recorded" => legacy'[u] = "recorded"

\* A step of the life-cycle keeps its types and its history, touches one
\* request, and takes back nothing that is sealed.
LEMMA LifecycleKeeps ==
  ASSUME LifecycleTypes, HistoryOK, NEW r \in Request, LifecycleStep(r)
  PROVE  /\ LifecycleTypes' /\ HistoryOK'
         /\ \A q \in Request : q # r => Untouched(q)
         /\ \A q \in Request : phase[q] = "completed" /\ result[q] # NoResult =>
              phase'[q] = "completed" /\ result'[q] # NoResult
<1> DEFINE Kept ==
      /\ LifecycleTypes' /\ HistoryOK'
      /\ \A q \in Request : q # r => Untouched(q)
      /\ \A q \in Request : phase[q] = "completed" /\ result[q] # NoResult =>
           phase'[q] = "completed" /\ result'[q] # NoResult
<1>1. ASSUME NEW d \in Digest, ClaimRequest(r, d) PROVE Kept
  BY <1>1 DEF ClaimRequest, Advance, LifecycleTypes, Phase, HistoryOK, Untouched
<1>2. ASSUME NEW o \in Result, Commit(r, o) PROVE Kept
  BY <1>2, ServerConstants DEF Commit, LifecycleTypes, Phase, HistoryOK, Untouched
<1>3. ASSUME RejectRequest(r) \/ StartRequest(r) PROVE Kept
  BY <1>3 DEF RejectRequest, StartRequest, Advance, LifecycleTypes, Phase, HistoryOK, Untouched
<1>4. ASSUME ExecuteOnce(r) PROVE Kept
  BY <1>4 DEF ExecuteOnce, LifecycleTypes, Phase, HistoryOK, Untouched
<1>5. ASSUME LoseOwner(r) \/ Complete(r) PROVE Kept
  BY <1>5 DEF LoseOwner, Complete, Advance, LifecycleTypes, Phase, HistoryOK, Untouched
<1> QED BY <1>1, <1>2, <1>3, <1>4, <1>5 DEF LifecycleStep

\* A step that leaves the life-cycle alone.
LEMMA LifecycleStays ==
  ASSUME LifecycleTypes, HistoryOK, UNCHANGED lifecycle
  PROVE  /\ LifecycleTypes' /\ HistoryOK'
         /\ \A q \in Request : Untouched(q)
BY DEF lifecycle, LifecycleTypes, HistoryOK, Untouched

\* A process registers what is sealed evidence now, and drops what it likes.
LEMMA RegisteredStays ==
  ASSUME ServerTypes, RegisteredIsSealed, EvidenceStays,
         \A s \in Server : \A id \in resources'[s] :
           id \in resources[s] \/ (id \in Id /\ Evident(id))
  PROVE  RegisteredIsSealed'
<1> SUFFICES ASSUME NEW s \in Server, NEW id \in resources'[s]
             PROVE  \/ id \in Request /\ phase'[id] = "completed" /\ result'[id] # NoResult
                    \/ id \in RunId /\ legacy'[id] = "recorded"
  BY DEF RegisteredIsSealed
<1>1. \/ id \in Request /\ phase[id] = "completed" /\ result[id] # NoResult
      \/ id \in RunId /\ legacy[id] = "recorded"
  BY DEF RegisteredIsSealed, Evident, Id
<1> QED BY <1>1 DEF EvidenceStays

\* Whatever one process does to a request that another one owns, the owner can
\* go on: the lock keeps everything away from it but the seal.
LEMMA OthersGoOn ==
  ASSUME LifecycleTypes, ServerTypes, LockOK, WorkOK, HistoryOK, OwnersGoOn, NEW s \in Server, NEW r \in Request,
         \A t \in Server : t # s => at'[t] = at[t] /\ on'[t] = on[t],
         \A q \in Request : q # r => Untouched(q),
         \/ Untouched(r) \/ Complete(r)
         \/ owner[r] = s \/ owner[r] = Nobody \/ phase[r] = "absent",
         NEW t \in Server, t # s
  PROVE  OwnerGoesOn(t)'
<1>1. CASE at[t] \notin Owning
  BY <1>1 DEF Owning, OwnerGoesOn
<1>2. CASE at[t] \in Owning
  <2>1. on[t] \in Request /\ owner[on[t]] = t
    BY <1>2 DEF WorkOK, LockOK
  <2>2. OwnerGoesOn(t)
    BY DEF OwnersGoOn
  <2>3. CASE Untouched(on[t])
    BY <2>1, <2>2, <2>3 DEF OwnerGoesOn, Untouched
  <2>4. CASE on[t] = r /\ Complete(r)
    <3>1. /\ result[r] # NoResult /\ phase[r] \in {"started", "recovery_required"}
          /\ phase'[r] = "completed" /\ result'[r] = result[r]
      BY <2>4 DEF Complete, Advance, LifecycleTypes
    <3>2. at[t] = "seal"
      BY <1>2, <2>1, <2>2, <2>4, <3>1 DEF OwnerGoesOn, Owning, HistoryOK
    <3> QED BY <2>4, <3>1, <3>2 DEF OwnerGoesOn
  <2>5. CASE on[t] = r /\ owner[r] \in {s, Nobody}
    BY <2>1, <2>5, ServerConstants
  <2>6. CASE on[t] = r /\ phase[r] = "absent"
    BY <1>2, <2>2, <2>6 DEF OwnerGoesOn, Owning
  <2> QED BY <2>1, <2>3, <2>4, <2>5, <2>6
<1> QED BY <1>1, <1>2

-----------------------------------------------------------------------------
(* One lemma per action, or per group that touches the same variables.     *)

\* Startup touches no request, and registers only what is evident.
LEMMA StartupPreserves ==
  ASSUME ServerInv, NEW s \in Server, Startup(s)
  PROVE  ServerInv'
<1>1. UNCHANGED <<lifecycle, legacy, owner, on, crashes, failures>>
  BY DEF Startup, Boot, ListRequests, PublishInitial, Serve
<1>2. LifecycleTypes' /\ HistoryOK' /\ \A q \in Request : Untouched(q)
  BY <1>1, LifecycleStays DEF ServerInv
<1>3. /\ at'[s] \in {"down", "idle"} \cup Starting /\ at[s] \in {"down"} \cup Starting
      /\ at' = [at EXCEPT ![s] = at'[s]]
  BY DEF ServerInv, ServerTypes, Startup, Boot, ListRequests, PublishInitial, Serve, Move, Starting
<1>4. /\ at' \in [Server -> Label] /\ todo' \in [Server -> SUBSET Id]
      /\ resources' \in [Server -> SUBSET Id]
      /\ \A t \in Server : \A id \in resources'[t] :
           id \in resources[t] \/ (id \in Id /\ Evident(id))
  <2>1. CASE Boot(s) \/ ListRequests(s) \/ Serve(s)
    BY <2>1 DEF ServerInv, ServerTypes, Boot, ListRequests, Serve, Move, Label, Starting, Listing, Id
  <2>2. CASE PublishInitial(s)
    <3>1. PICK id \in todo[s] :
            \/ /\ Evident(id)
               /\ todo' = [todo EXCEPT ![s] = @ \ {id}]
               /\ resources' = [resources EXCEPT ![s] = @ \cup {id}]
               /\ UNCHANGED at
            \/ /\ todo' = [todo EXCEPT ![s] = {}]
               /\ resources' = [resources EXCEPT ![s] = {}]
               /\ Move(s, "down")
      BY <2>2 DEF PublishInitial
    <3> QED BY <3>1 DEF ServerInv, ServerTypes, Move, Label
  <2> QED BY <2>1, <2>2 DEF Startup
<1>5. ServerTypes'
  BY <1>1, <1>4 DEF ServerInv, ServerTypes
<1>6. LockOK' /\ WorkOK' /\ OwnersGoOn'
  BY <1>1, <1>2, <1>3
     DEF ServerInv, ServerTypes, LockOK, WorkOK, OwnersGoOn, OwnerGoesOn, Untouched, Owning, Starting
<1>7. RegisteredIsSealed'
  BY <1>1, <1>4, RegisteredStays DEF ServerInv, EvidenceStays, lifecycle
<1> QED BY <1>2, <1>5, <1>6, <1>7 DEF ServerInv

\* So do a tool call that begins, the historical simulate, and the projections.
LEMMA ToolPreserves ==
  ASSUME ServerInv, NEW s \in Server,
         \/ \E r \in Request : SubmitTool(s, r) \/ RequestGetTool(s, r)
         \/ \E u \in RunId : Simulate(s, u) \/ RunGetTool(s, u)
         \/ RecordRun(s) \/ Project(s) \/ ProjectionFails(s)
  PROVE  ServerInv'
<1>1. UNCHANGED <<lifecycle, owner, todo, crashes>>
  BY DEF SubmitTool, RequestGetTool, CallRequest, Simulate, RunGetTool, RecordRun, Project,
         ProjectionFails
<1>2. LifecycleTypes' /\ HistoryOK' /\ \A q \in Request : Untouched(q)
  BY <1>1, LifecycleStays DEF ServerInv
<1>3. /\ at[s] \notin Owning /\ at' = [at EXCEPT ![s] = at'[s]]
      /\ at'[s] \in {"idle", "submit", "get", "record", "project"}
      /\ on' = [on EXCEPT ![s] = on'[s]] /\ on'[s] \in Id \cup {Nothing}
      /\ at'[s] \in {"submit", "get"} => on'[s] \in Request
      /\ at'[s] = "record" => on'[s] \in RunId
      /\ at'[s] = "project" => on'[s] \in Id
  BY DEF ServerInv, ServerTypes, WorkOK, SubmitTool, RequestGetTool, CallRequest, Simulate, RunGetTool,
         RecordRun, Project, ProjectionFails, Finish, Move, Owning, Id
<1>4. /\ legacy' \in [RunId -> {"absent", "directory", "recorded"}] /\ failures' \in Nat
      /\ \A u \in RunId : legacy[u] = "recorded" => legacy'[u] = "recorded"
  BY ServerConstants
     DEF ServerInv, ServerTypes, WorkOK, SubmitTool, RequestGetTool, CallRequest, Simulate, RunGetTool,
         RecordRun, Project, ProjectionFails
<1>5. /\ resources' \in [Server -> SUBSET Id]
      /\ \A t \in Server : \A id \in resources'[t] :
           id \in resources[t] \/ (id \in Id /\ Evident(id))
  BY DEF ServerInv, ServerTypes, WorkOK, SubmitTool, RequestGetTool, CallRequest, Simulate, RunGetTool,
         RecordRun, Project, ProjectionFails
<1>6. ServerTypes'
  BY <1>1, <1>3, <1>4, <1>5 DEF ServerInv, ServerTypes, Label
<1>7. LockOK' /\ WorkOK' /\ OwnersGoOn'
  <2>1. LockOK'
    BY <1>1, <1>2, <1>3 DEF ServerInv, ServerTypes, LockOK, Untouched, Owning
  <2>2. WorkOK'
    BY <1>1, <1>2, <1>3 DEF ServerInv, ServerTypes, WorkOK, Untouched, Owning
  <2>3. ASSUME NEW t \in Server PROVE OwnerGoesOn(t)'
    <3>1. CASE t = s
      BY <1>3, <3>1 DEF ServerInv, ServerTypes, OwnerGoesOn, Owning
    <3>2. CASE t # s
      <4>1. OwnerGoesOn(t) /\ at'[t] = at[t] /\ on'[t] = on[t]
        BY <1>3, <3>2 DEF ServerInv, ServerTypes, OwnersGoOn
      <4> QED BY <1>1, <4>1 DEF OwnerGoesOn, lifecycle
    <3> QED BY <3>1, <3>2
  <2> QED BY <2>1, <2>2, <2>3 DEF OwnersGoOn
<1>8. RegisteredIsSealed'
  BY <1>1, <1>4, <1>5, RegisteredStays DEF ServerInv, EvidenceStays, lifecycle
<1> QED BY <1>2, <1>6, <1>7, <1>8 DEF ServerInv

\* A call that throws and a process that dies give their locks back.
LEMMA LossPreserves ==
  ASSUME ServerInv, NEW s \in Server, CallFails(s) \/ Crash(s)
  PROVE  ServerInv'
<1>1. UNCHANGED <<lifecycle, legacy>> /\ Unlock(s)
  BY DEF CallFails, Crash, Abandon
<1>2. LifecycleTypes' /\ HistoryOK' /\ \A q \in Request : Untouched(q)
  BY <1>1, LifecycleStays DEF ServerInv
<1>3. /\ at' = [at EXCEPT ![s] = at'[s]] /\ at'[s] \in {"idle", "down"}
      /\ on' = [on EXCEPT ![s] = Nothing]
  BY DEF ServerInv, ServerTypes, CallFails, Crash, Abandon, Finish, Move
<1>4. ServerTypes'
  <2>1. crashes' \in Nat /\ failures' \in Nat
    BY ServerConstants DEF ServerInv, ServerTypes, CallFails, Crash
  <2>2. todo' \in [Server -> SUBSET Id] /\ resources' \in [Server -> SUBSET Id]
    BY DEF ServerInv, ServerTypes, CallFails, Crash
  <2> QED BY <1>1, <1>3, <2>1, <2>2 DEF ServerInv, ServerTypes, Unlock, Label
<1>5. LockOK'
  BY <1>1, <1>3, ServerConstants DEF ServerInv, ServerTypes, LockOK, Unlock, Owning
<1>6. WorkOK' /\ OwnersGoOn'
  BY <1>2, <1>3 DEF ServerInv, ServerTypes, WorkOK, OwnersGoOn, OwnerGoesOn, Untouched, Owning
<1>7. RegisteredIsSealed'
  <2>1. \A t \in Server : resources'[t] \subseteq resources[t]
    BY DEF ServerInv, ServerTypes, CallFails, Crash
  <2> QED BY <1>1, <2>1, RegisteredStays DEF ServerInv, EvidenceStays, lifecycle
<1> QED BY <1>2, <1>4, <1>5, <1>6, <1>7 DEF ServerInv

\* A call about a request moves one process, takes at most one step of the
\* life-cycle of its request, and only when the lock lets it.
LEMMA RequestStepPreserves ==
  ASSUME ServerInv, NEW s \in Server, NEW r \in Request,
         UNCHANGED <<legacy, todo, resources, crashes, failures>>,
         LifecycleStep(r) \/ UNCHANGED lifecycle,
         \/ UNCHANGED lifecycle \/ Complete(r)
         \/ owner[r] = s \/ owner[r] = Nobody \/ phase[r] = "absent",
         at' = [at EXCEPT ![s] = at'[s]],
         at'[s] \in {"idle", "submit", "get", "project"} \cup Owning,
         on' = [on EXCEPT ![s] = on'[s]],
         on'[s] \in {r, Nothing}, at'[s] # "idle" => on'[s] = r,
         owner' \in [Request -> Server \cup {Nobody}], LockOK', OwnerGoesOn(s)'
  PROVE  ServerInv'
<1>1. /\ LifecycleTypes' /\ HistoryOK'
      /\ \A q \in Request : q # r => Untouched(q)
      /\ UNCHANGED lifecycle => Untouched(r)
      /\ \A q \in Request : phase[q] = "completed" /\ result[q] # NoResult =>
           phase'[q] = "completed" /\ result'[q] # NoResult
  <2>1. CASE LifecycleStep(r)
    BY <2>1, LifecycleKeeps DEF ServerInv, lifecycle, Untouched
  <2>2. CASE UNCHANGED lifecycle
    BY <2>2, LifecycleStays DEF ServerInv, Untouched
  <2> QED BY <2>1, <2>2
<1>2. ServerTypes'
  BY DEF ServerInv, ServerTypes, Owning, Label, Id
<1>3. WorkOK'
  BY DEF ServerInv, ServerTypes, WorkOK, Owning, Id
<1>4. OwnersGoOn'
  <2>1. ASSUME NEW t \in Server, t # s PROVE OwnerGoesOn(t)'
    <3>1. \A u \in Server : u # s => at'[u] = at[u] /\ on'[u] = on[u]
      BY DEF ServerInv, ServerTypes
    <3>2. \/ Untouched(r) \/ Complete(r)
          \/ owner[r] = s \/ owner[r] = Nobody \/ phase[r] = "absent"
      BY <1>1
    <3> QED BY <1>1, <2>1, <3>1, <3>2, OthersGoOn DEF ServerInv
  <2> QED BY <2>1 DEF OwnersGoOn
<1>5. RegisteredIsSealed'
  BY <1>1, RegisteredStays DEF ServerInv, EvidenceStays
<1> QED BY <1>1, <1>2, <1>3, <1>4, <1>5 DEF ServerInv

\* submit claims a request that nobody owns.
LEMMA ClaimPreserves ==
  ASSUME ServerInv, NEW s \in Server, Claim(s)
  PROVE  ServerInv' /\ on[s] \in Request /\ LifecycleStep(on[s])
<1> DEFINE r == on[s]
<1>1. r \in Request /\ at[s] = "submit" /\ UNCHANGED <<legacy, owner, server, crashes, failures>>
  BY DEF Claim, ServerInv, WorkOK
<1>2. PICK d \in Digest : ClaimRequest(r, d)
  BY DEF Claim
<1>3. LifecycleStep(r) /\ phase[r] = "absent"
  BY <1>2 DEF LifecycleStep, ClaimRequest, Advance
<1>4. UNCHANGED <<at, on, todo, resources>>
  BY <1>1 DEF server
<1>5. LockOK' /\ OwnerGoesOn(s)'
  BY <1>1, <1>4 DEF ServerInv, LockOK, OwnerGoesOn
<1>6. at' = [at EXCEPT ![s] = at'[s]] /\ on' = [on EXCEPT ![s] = on'[s]]
  BY <1>4 DEF ServerInv, ServerTypes
<1>7. owner' \in [Request -> Server \cup {Nobody}]
  BY <1>1 DEF ServerInv, ServerTypes
<1> QED BY <1>1, <1>3, <1>4, <1>5, <1>6, <1>7, RequestStepPreserves

\* A call that found the request claimed: it answers, seals what is committed,
\* marks a lost owner, or takes the lock.
LEMMA ResolvePreserves ==
  ASSUME ServerInv, NEW s \in Server, Resolve(s)
  PROVE  /\ ServerInv' /\ on[s] \in Request
         /\ LifecycleStep(on[s]) \/ UNCHANGED lifecycle
<1> DEFINE r == on[s]
<1>1. /\ r \in Request /\ at[s] \in {"submit", "get"} /\ at[s] \notin Owning
      /\ UNCHANGED <<legacy, todo, resources, crashes, failures>>
  BY DEF Resolve, ServerInv, WorkOK, Owning
<1> DEFINE Answered(label) ==
      /\ UNCHANGED owner /\ at' = [at EXCEPT ![s] = label]
      /\ \/ label = "project" /\ on' = on
         \/ label = "idle" /\ on' = [on EXCEPT ![s] = Nothing]
    Locked ==
      /\ owner[r] = Nobody /\ phase[r] = "pending" /\ UNCHANGED <<lifecycle, on>>
      /\ owner' = [owner EXCEPT ![r] = s] /\ at' = [at EXCEPT ![s] = "own"]
<1>2. \/ Answered("project") /\ (UNCHANGED lifecycle \/ Complete(r))
      \/ Answered("idle") /\ (UNCHANGED lifecycle \/ (LoseOwner(r) /\ owner[r] = Nobody))
      \/ Locked
  BY DEF Resolve, AnswerCompleted, Finish, Move
<1>3. ASSUME NEW label \in {"project", "idle"}, Answered(label),
             UNCHANGED lifecycle \/ Complete(r) \/ (LoseOwner(r) /\ owner[r] = Nobody)
      PROVE  ServerInv' /\ (LifecycleStep(r) \/ UNCHANGED lifecycle)
  <2>1. /\ at' = [at EXCEPT ![s] = at'[s]] /\ at'[s] = label
        /\ on' = [on EXCEPT ![s] = on'[s]] /\ on'[s] \in {r, Nothing}
        /\ label = "project" => on'[s] = r
        /\ owner' \in [Request -> Server \cup {Nobody}]
    BY <1>3 DEF ServerInv, ServerTypes
  <2>2. LockOK' /\ OwnerGoesOn(s)'
    <3>1. \A t \in Server : t # s => at'[t] = at[t] /\ on'[t] = on[t]
      BY <2>1 DEF ServerInv, ServerTypes
    <3> QED BY <1>1, <1>3, <2>1, <3>1 DEF ServerInv, LockOK, OwnerGoesOn, Owning
  <2>3. LifecycleStep(r) \/ UNCHANGED lifecycle
    BY <1>3 DEF LifecycleStep
  <2> QED BY <1>1, <1>3, <2>1, <2>2, <2>3, RequestStepPreserves
<1>4. CASE Locked
  <2>1. /\ at' = [at EXCEPT ![s] = at'[s]] /\ at'[s] = "own"
        /\ on' = [on EXCEPT ![s] = on'[s]] /\ on'[s] = r
        /\ owner' \in [Request -> Server \cup {Nobody}]
        /\ UNCHANGED lifecycle /\ owner[r] = Nobody
    BY <1>1, <1>4 DEF ServerInv, ServerTypes
  <2>2. LockOK'
    BY <1>1, <1>4, ServerConstants DEF ServerInv, ServerTypes, LockOK, Owning
  <2>3. OwnerGoesOn(s)'
    BY <1>4, <2>1 DEF OwnerGoesOn, lifecycle
  <2>4. "own" \in Owning
    BY DEF Owning
  <2> HIDE DEF Locked
  <2> QED BY <1>1, <2>1, <2>2, <2>3, <2>4, RequestStepPreserves
<1> HIDE DEF Answered, Locked
<1> QED BY <1>1, <1>2, <1>3, <1>4

\* submit under the request lock.
LEMMA OwnPreserves ==
  ASSUME ServerInv, NEW s \in Server, Own(s)
  PROVE  /\ ServerInv' /\ on[s] \in Request
         /\ LifecycleStep(on[s]) \/ UNCHANGED lifecycle
<1> DEFINE r == on[s]
<1>1. /\ r \in Request /\ at[s] \in Owning /\ owner[r] = s
      /\ UNCHANGED <<legacy, todo, resources, crashes, failures>>
  BY DEF Own, ServerInv, WorkOK, LockOK, Owning
<1>2. LifecycleTypes /\ ServerTypes /\ LockOK
  BY DEF ServerInv
<1> DEFINE Released(label) ==
      /\ Unlock(s) /\ at' = [at EXCEPT ![s] = label] /\ label \in {"idle", "project"}
      /\ \/ label = "project" /\ on' = on
         \/ label = "idle" /\ on' = [on EXCEPT ![s] = Nothing]
    Kept(label) ==
      at' = [at EXCEPT ![s] = label] /\ UNCHANGED <<on, owner>>
<1>3. \/ RejectRequest(r) /\ Released("idle")
      \/ (Complete(r) \/ UNCHANGED lifecycle) /\ Released("project")
      \/ StartRequest(r) /\ Kept("execute") /\ at[s] = "own"
      \/ ExecuteOnce(r) /\ Kept("commit") /\ at[s] = "execute"
      \/ (\E o \in Result : Commit(r, o)) /\ Kept("seal") /\ at[s] = "commit"
  BY DEF Own, AnswerCompleted, Finish, Move
<1>4. ASSUME NEW label, Released(label), LifecycleStep(r) \/ UNCHANGED lifecycle
      PROVE  ServerInv'
  <2>1. /\ at' = [at EXCEPT ![s] = at'[s]] /\ at'[s] = label
        /\ on' = [on EXCEPT ![s] = on'[s]] /\ on'[s] \in {r, Nothing}
        /\ label # "idle" => on'[s] = r
    BY <1>2, <1>4 DEF ServerTypes
  <2>2. owner' \in [Request -> Server \cup {Nobody}] /\ LockOK'
    BY <1>2, <1>4, <2>1, ServerConstants DEF ServerTypes, LockOK, Unlock, Owning
  <2>3. OwnerGoesOn(s)'
    BY <1>4, <2>1 DEF OwnerGoesOn
  <2> QED BY <1>1, <1>4, <2>1, <2>2, <2>3, RequestStepPreserves
<1>5. ASSUME NEW label \in Owning, Kept(label), LifecycleStep(r), OwnerGoesOn(s)'
      PROVE  ServerInv'
  <2>1. /\ at' = [at EXCEPT ![s] = at'[s]] /\ at'[s] = label
        /\ on' = [on EXCEPT ![s] = on'[s]] /\ on'[s] = r
    BY <1>2, <1>5 DEF ServerTypes
  <2>2. owner' \in [Request -> Server \cup {Nobody}] /\ LockOK'
    BY <1>1, <1>2, <1>5, <2>1 DEF ServerTypes, LockOK
  <2>3. label # "idle"
    BY DEF Owning
  <2> QED BY <1>1, <1>5, <2>1, <2>2, <2>3, RequestStepPreserves
<1>6. CASE RejectRequest(r) /\ Released("idle")
  BY <1>1, <1>4, <1>6 DEF LifecycleStep
<1>7. CASE (Complete(r) \/ UNCHANGED lifecycle) /\ Released("project")
  BY <1>1, <1>4, <1>7 DEF LifecycleStep
<1>8. CASE StartRequest(r) /\ Kept("execute") /\ at[s] = "own"
  <2>1. OwnerGoesOn(s)'
    BY <1>1, <1>2, <1>8
       DEF ServerInv, HistoryOK, OwnerGoesOn, StartRequest, Advance, LifecycleTypes, ServerTypes
  <2> QED BY <1>1, <1>5, <1>8, <2>1 DEF LifecycleStep, Owning
<1>9. CASE ExecuteOnce(r) /\ Kept("commit") /\ at[s] = "execute"
  <2>1. OwnerGoesOn(s)'
    BY <1>1, <1>2, <1>9
       DEF ServerInv, HistoryOK, OwnersGoOn, OwnerGoesOn, ExecuteOnce, LifecycleTypes, ServerTypes
  <2> QED BY <1>1, <1>5, <1>9, <2>1 DEF LifecycleStep, Owning
<1>10. CASE (\E o \in Result : Commit(r, o)) /\ Kept("seal") /\ at[s] = "commit"
  <2>1. OwnerGoesOn(s)'
    BY <1>1, <1>2, <1>10, ServerConstants
       DEF ServerInv, OwnersGoOn, OwnerGoesOn, Commit, LifecycleTypes, ServerTypes
  <2> QED BY <1>1, <1>5, <1>10, <2>1 DEF LifecycleStep, Owning
<1> HIDE DEF Released, Kept
<1> QED BY <1>1, <1>3, <1>6, <1>7, <1>8, <1>9, <1>10 DEF LifecycleStep

-----------------------------------------------------------------------------
(* The theorems.                                                           *)

\* No process is up, and nothing is on disk.
LEMMA InitServer == Init => ServerInv
<1> SUFFICES ASSUME Init PROVE ServerInv
  OBVIOUS
<1>1. LifecycleTypes /\ HistoryOK
  BY DEF Init, LifecycleInit, LifecycleTypes, HistoryOK, Phase
<1>2. ServerTypes
  BY DEF Init, ServerTypes, Label
<1>3. LockOK /\ WorkOK /\ OwnersGoOn
  BY ServerConstants DEF Init, LockOK, WorkOK, OwnersGoOn, OwnerGoesOn, Owning
<1>4. RegisteredIsSealed
  BY DEF Init, RegisteredIsSealed
<1> QED BY <1>1, <1>2, <1>3, <1>4 DEF ServerInv

\* Every step keeps the invariant, and is one of the life-cycle of a request,
\* or none that RequestLifecycle can see.
LEMMA NextServer ==
  ASSUME ServerInv, [Next]_vars
  PROVE  ServerInv' /\ [LifecycleNext]_lifecycle
<1>1. CASE UNCHANGED vars
  <2>1. UNCHANGED <<legacy, owner, at, on, todo, resources, crashes, failures>>
    BY <1>1 DEF vars, server
  <2>2. UNCHANGED lifecycle /\ LifecycleTypes' /\ HistoryOK' /\ \A q \in Request : Untouched(q)
    BY <1>1, LifecycleStays DEF vars, ServerInv
  <2>3. ServerTypes' /\ LockOK' /\ WorkOK' /\ OwnersGoOn'
    BY <2>1, <2>2
       DEF ServerInv, ServerTypes, LockOK, WorkOK, OwnersGoOn, OwnerGoesOn, Untouched, Owning
  <2>4. RegisteredIsSealed'
    BY <2>1, <2>2, RegisteredStays DEF ServerInv, EvidenceStays, lifecycle
  <2> QED BY <2>2, <2>3, <2>4 DEF ServerInv
<1>2. ASSUME NEW s \in Server, NEW r \in Request, LifecycleStep(r) PROVE LifecycleNext
  BY <1>2 DEF LifecycleStep, LifecycleNext
<1>3. ASSUME NEW s \in Server, Startup(s) PROVE ServerInv' /\ UNCHANGED lifecycle
  BY <1>3, StartupPreserves DEF Startup, Boot, ListRequests, PublishInitial, Serve
<1>4. ASSUME NEW s \in Server,
             \/ \E r \in Request : SubmitTool(s, r) \/ RequestGetTool(s, r)
             \/ \E u \in RunId : Simulate(s, u) \/ RunGetTool(s, u)
             \/ RecordRun(s) \/ Project(s) \/ ProjectionFails(s)
      PROVE  ServerInv' /\ UNCHANGED lifecycle
  <2>1. ServerInv'
    BY <1>4, ToolPreserves
  <2>2. UNCHANGED lifecycle
    BY <1>4 DEF SubmitTool, RequestGetTool, CallRequest, Simulate, RunGetTool, RecordRun,
            Project, ProjectionFails
  <2> QED BY <2>1, <2>2
<1>5. ASSUME NEW s \in Server, CallFails(s) \/ Crash(s) PROVE ServerInv' /\ UNCHANGED lifecycle
  BY <1>5, LossPreserves DEF CallFails, Crash
<1>6. ASSUME NEW s \in Server, Claim(s) \/ Resolve(s) \/ Own(s)
      PROVE  ServerInv' /\ [LifecycleNext]_lifecycle
  BY <1>2, <1>6, ClaimPreserves, ResolvePreserves, OwnPreserves
<1> QED BY <1>1, <1>3, <1>4, <1>5, <1>6 DEF Next, Call

\* The inductive invariant holds of every behaviour.
THEOREM ServerInvariant == Spec => []ServerInv
<1> QED BY InitServer, NextServer, PTL DEF Spec

\* Types, and the discipline of the request locks: a process holds one exactly
\* while it owns the request it works on.
THEOREM ServerTypesHold == Spec => []TypeOK
<1>1. ServerInv => TypeOK
  BY DEF ServerInv, LifecycleTypes, ServerTypes, LockOK, TypeOK
<1> QED BY <1>1, ServerInvariant, PTL

\* Whatever processes start, die and interleave, none lists a resource of a
\* run that is not sealed or recorded evidence.
THEOREM ListedIsSealed == Spec => []RegisteredIsSealed
<1>1. ServerInv => RegisteredIsSealed
  BY DEF ServerInv
<1> QED BY <1>1, ServerInvariant, PTL

\* An owner finds its request as its own steps left it, whatever readbacks and
\* other submits do meanwhile: no guard of the life-cycle holds it up.
THEOREM LocksProtectOwners == Spec => []OwnersGoOn
<1>1. ServerInv => OwnersGoOn
  BY DEF ServerInv
<1> QED BY <1>1, ServerInvariant, PTL

\* Several processes with startups, deaths and projections still implement the
\* life-cycle of every request.
THEOREM ServersImplementLifecycle == Spec => LifecycleSpec
<1>1. Init => LifecycleInit
  BY DEF Init
<1> QED BY <1>1, NextServer, ServerInvariant, PTL DEF Spec, LifecycleSpec

=============================================================================
