---------------------------- MODULE EvidenceServer ----------------------------
(***************************************************************************)
(* Provider processes over one store: startup, which publishes every       *)
(* recorded run as MCP resources before any tool can be called, the tool   *)
(* calls, one at a time in each process, and the projection of a committed *)
(* run into the resources of the process that answers.                     *)
(* The 2.1 requests are those of RequestLifecycle, which the detailed      *)
(* protocol of ResumableRequests implements: here each of its steps is     *)
(* taken by a process, with a request lock that a death gives back.        *)
(***************************************************************************)
EXTENDS RequestLifecycle

CONSTANTS
  Server,      \* provider processes
  RunId,       \* run ids of the historical simulate
  Nobody,      \* the request lock is free
  Nothing,     \* the process works on nothing
  MaxCrashes,  \* bound: deaths
  MaxFailures  \* bound: calls and projections that throw

ASSUME ServerConstants ==
  /\ Nobody \notin Server
  /\ Request \cap RunId = {} /\ Nothing \notin Request \cup RunId
  /\ NoResult \notin Result /\ NoDigest \notin Digest
  /\ MaxCrashes \in Nat /\ MaxFailures \in Nat

VARIABLES
  legacy,     \* [RunId -> "absent" | "directory" | "recorded"], 2.0 runs on disk
  owner,      \* [Request -> Server or Nobody], who holds the request lock
  at,         \* [Server -> Label], where each process is
  on,         \* [Server -> the request or run it works on, or Nothing]
  todo,       \* [Server -> the runs its startup has still to publish]
  resources,  \* [Server -> the runs whose resources it has registered]
  crashes, failures

server == <<at, on, todo, resources>>
vars   == <<lifecycle, legacy, owner, server, crashes, failures>>

Id == Request \cup RunId

Starting == {"runs", "requests"}
Owning   == {"own", "execute", "commit", "seal"}
Label    == {"down", "idle", "submit", "get", "record", "project"} \cup Starting \cup Owning

Up(s) == at[s] \notin {"down"} \cup Starting

Move(s, label) == at' = [at EXCEPT ![s] = label]

\* The call answers, or throws, and the next one may come.
Finish(s) ==
  /\ Move(s, "idle")
  /\ on' = [on EXCEPT ![s] = Nothing]

\* The finally block of submit gives the request lock back.
Unlock(s) == owner' = [r \in Request |-> IF owner[r] = s THEN Nobody ELSE owner[r]]

\* A plausible slip: a committed run.json is taken for sealed evidence.
EvidentLedger(id) == IF id \in Request THEN result[id] # NoResult ELSE legacy[id] = "recorded"

\* getCompletedEvidence, or readPersistedRun, of the run accepts it.
Evident(id) ==
  IF id \in Request THEN phase[id] = "completed" /\ result[id] # NoResult
                    ELSE legacy[id] = "recorded"

Init ==
  /\ LifecycleInit
  /\ legacy = [u \in RunId |-> "absent"]
  /\ owner = [r \in Request |-> Nobody]
  /\ at = [s \in Server |-> "down"]
  /\ on = [s \in Server |-> Nothing]
  /\ todo = [s \in Server |-> {}]
  /\ resources = [s \in Server |-> {}]
  /\ crashes = 0 /\ failures = 0

-----------------------------------------------------------------------------
(* Startup.                                                                *)

\* A plausible slip: a run directory without run.json is listed as well, and
\* fails when it is read.
StrictListing == {u \in RunId : legacy[u] # "absent"}

\* listPersistedRuns skips a directory whose run.json is not there (yet).
Listing == {u \in RunId : legacy[u] = "recorded"}

\* createModelicaServer: the historical runs come first.
Boot(s) ==
  /\ at[s] = "down"
  /\ todo' = [todo EXCEPT ![s] = Listing]
  /\ Move(s, "runs")
  /\ UNCHANGED <<lifecycle, legacy, owner, on, resources, crashes, failures>>

\* Then every request that has a run.json (listRunRecords).
ListRequests(s) ==
  /\ at[s] = "runs" /\ todo[s] = {}
  /\ todo' = [todo EXCEPT ![s] = {r \in Request : result[r] # NoResult}]
  /\ Move(s, "requests")
  /\ UNCHANGED <<lifecycle, legacy, owner, on, resources, crashes, failures>>

\* Publish one of them, or fail the startup: nothing catches what it throws.
PublishInitial(s) ==
  /\ at[s] \in Starting
  /\ \E id \in todo[s] :
       \/ /\ Evident(id)
          /\ todo' = [todo EXCEPT ![s] = @ \ {id}]
          /\ resources' = [resources EXCEPT ![s] = @ \cup {id}]
          /\ UNCHANGED at
       \/ /\ ~ Evident(id)
          /\ todo' = [todo EXCEPT ![s] = {}]
          /\ resources' = [resources EXCEPT ![s] = {}]
          /\ Move(s, "down")
  /\ UNCHANGED <<lifecycle, legacy, owner, on, crashes, failures>>

\* The transport starts: tools can be called.
Serve(s) ==
  /\ at[s] = "requests" /\ todo[s] = {}
  /\ Move(s, "idle")
  /\ UNCHANGED <<lifecycle, legacy, owner, on, todo, resources, crashes, failures>>

-----------------------------------------------------------------------------
(* Tool calls, one at a time in a process.                                 *)

\* modelica_simulation_submit (label "submit") or modelica_simulation_request_get.
CallRequest(s, r, label) ==
  /\ at[s] = "idle"
  /\ Move(s, label)
  /\ on' = [on EXCEPT ![s] = r]
  /\ UNCHANGED <<lifecycle, legacy, owner, todo, resources, crashes, failures>>

SubmitTool(s, r) == CallRequest(s, r, "submit")

RequestGetTool(s, r) == phase[r] # "absent" /\ CallRequest(s, r, "get")

\* submit claims a request that nobody has claimed.
Claim(s) ==
  /\ at[s] = "submit"
  /\ \E d \in Digest : ClaimRequest(on[s], d)
  /\ UNCHANGED <<legacy, owner, server, crashes, failures>>

\* A plausible slip: only a submit that executed the run projects it.
AnswerWithoutHook(s) == Finish(s)

\* A completed answer goes to the projection hook of the client first.
AnswerCompleted(s) == Move(s, "project") /\ UNCHANGED on

\* What submit without the lock, and request_get, do with a claimed request:
\* answer, reconcile a committed result, mark the owner lost, or take over.
Resolve(s) ==
  LET r == on[s]
  IN  /\ at[s] \in {"submit", "get"} /\ phase[r] # "absent"
      /\ \/ /\ phase[r] = "completed"
            /\ AnswerCompleted(s)
            /\ UNCHANGED <<lifecycle, owner>>
         \/ /\ Complete(r)
            /\ AnswerCompleted(s)
            /\ UNCHANGED owner
         \/ /\ phase[r] # "completed" /\ result[r] = NoResult
            /\ \/ owner[r] # Nobody
               \/ phase[r] \in {"rejected", "recovery_required"}
               \/ at[s] = "get" /\ phase[r] = "pending"
            /\ Finish(s)
            /\ UNCHANGED <<lifecycle, owner>>
         \/ /\ owner[r] = Nobody /\ result[r] = NoResult
            /\ LoseOwner(r)
            /\ Finish(s)
            /\ UNCHANGED owner
         \/ /\ at[s] = "submit" /\ phase[r] = "pending" /\ owner[r] = Nobody
            /\ owner' = [owner EXCEPT ![r] = s]
            /\ Move(s, "own")
            /\ UNCHANGED <<lifecycle, on>>
      /\ UNCHANGED <<legacy, todo, resources, crashes, failures>>

\* submit under the request lock: reject, or start and execute, commit, seal.
Own(s) ==
  /\ \/ at[s] = "own" /\ RejectRequest(on[s]) /\ Finish(s) /\ Unlock(s)
     \/ /\ at[s] = "own" /\ StartRequest(on[s])
        /\ Move(s, "execute") /\ UNCHANGED <<on, owner>>
     \/ /\ at[s] = "execute" /\ ExecuteOnce(on[s])
        /\ Move(s, "commit") /\ UNCHANGED <<on, owner>>
     \/ /\ at[s] = "commit" /\ \E o \in Result : Commit(on[s], o)
        /\ Move(s, "seal") /\ UNCHANGED <<on, owner>>
     \/ /\ at[s] = "seal"
        /\ \/ Complete(on[s])
           \/ phase[on[s]] = "completed" /\ UNCHANGED lifecycle
        /\ AnswerCompleted(s) /\ Unlock(s)
  /\ UNCHANGED <<legacy, todo, resources, crashes, failures>>

\* A plausible slip: the lock is released on the successful path only.
AbandonLocked(s) == Finish(s) /\ UNCHANGED owner

Abandon(s) == Finish(s) /\ Unlock(s)

\* The call throws: what it wrote stays, its lock is given back.
CallFails(s) ==
  /\ at[s] \in Owning \cup {"submit", "get", "record"}
  /\ failures < MaxFailures /\ failures' = failures + 1
  /\ Abandon(s)
  /\ UNCHANGED <<lifecycle, legacy, todo, resources, crashes>>

\* The historical simulate: its run directory, later its run.json.
Simulate(s, u) ==
  /\ at[s] = "idle" /\ legacy[u] = "absent"
  /\ legacy' = [legacy EXCEPT ![u] = "directory"]
  /\ Move(s, "record")
  /\ on' = [on EXCEPT ![s] = u]
  /\ UNCHANGED <<lifecycle, owner, todo, resources, crashes, failures>>

RecordRun(s) ==
  /\ at[s] = "record"
  /\ legacy' = [legacy EXCEPT ![on[s]] = "recorded"]
  /\ Move(s, "project")
  /\ UNCHANGED <<lifecycle, owner, on, todo, resources, crashes, failures>>

\* modelica_run_get of a persisted run projects it again.
RunGetTool(s, u) ==
  /\ at[s] = "idle" /\ legacy[u] = "recorded"
  /\ Move(s, "project")
  /\ on' = [on EXCEPT ![s] = u]
  /\ UNCHANGED <<lifecycle, legacy, owner, todo, resources, crashes, failures>>

\* The hook registers the resources of the run in one batch.
Project(s) ==
  /\ at[s] = "project" /\ Evident(on[s])
  /\ resources' = [resources EXCEPT ![s] = @ \cup {on[s]}]
  /\ Finish(s)
  /\ UNCHANGED <<lifecycle, legacy, owner, todo, crashes, failures>>

\* The projection throws: it is logged, the answer stays the durable one.
ProjectionFails(s) ==
  /\ at[s] = "project"
  /\ failures < MaxFailures /\ failures' = failures + 1
  /\ Finish(s)
  /\ UNCHANGED <<lifecycle, legacy, owner, todo, resources, crashes>>

\* The process dies; its registrations die with it and its locks come back.
Crash(s) ==
  /\ at[s] # "down"
  /\ crashes < MaxCrashes /\ crashes' = crashes + 1
  /\ Move(s, "down")
  /\ on' = [on EXCEPT ![s] = Nothing]
  /\ todo' = [todo EXCEPT ![s] = {}]
  /\ resources' = [resources EXCEPT ![s] = {}]
  /\ Unlock(s)
  /\ UNCHANGED <<lifecycle, legacy, failures>>

-----------------------------------------------------------------------------
Startup(s) == Boot(s) \/ ListRequests(s) \/ PublishInitial(s) \/ Serve(s)

Call(s) == Claim(s) \/ Resolve(s) \/ Own(s) \/ RecordRun(s) \/ Project(s)

Next ==
  \E s \in Server :
    \/ Startup(s) \/ Call(s)
    \/ \E r \in Request : SubmitTool(s, r) \/ RequestGetTool(s, r)
    \/ \E u \in RunId : Simulate(s, u) \/ RunGetTool(s, u)
    \/ CallFails(s) \/ ProjectionFails(s) \/ Crash(s)

Spec == Init /\ [][Next]_vars

\* A process that is down is started again, a startup and a call go on. Nobody
\* has to call a tool.
FairSpec == Spec /\ \A s \in Server : WF_vars(Startup(s)) /\ WF_vars(Call(s))

\* Clients poll request_get of every request, whatever else they call.
PollingSpec ==
  FairSpec /\ \A s \in Server, r \in Request : SF_vars(RequestGetTool(s, r))

-----------------------------------------------------------------------------
(* Types, and the discipline of the request lock: a process holds the lock *)
(* exactly while it owns the request it works on.                          *)
TypeOK ==
  /\ phase \in [Request -> Phase]
  /\ bytes \in [Request -> Digest \cup {NoDigest}]
  /\ executions \in [Request -> Nat]
  /\ result \in [Request -> Result \cup {NoResult}]
  /\ legacy \in [RunId -> {"absent", "directory", "recorded"}]
  /\ owner \in [Request -> Server \cup {Nobody}]
  /\ at \in [Server -> Label]
  /\ on \in [Server -> Id \cup {Nothing}]
  /\ todo \in [Server -> SUBSET Id] /\ resources \in [Server -> SUBSET Id]
  /\ crashes \in Nat /\ failures \in Nat
  /\ \A r \in Request, s \in Server :
       owner[r] = s <=> at[s] \in Owning /\ on[s] = r

\* A client never lists a resource of a run that is not sealed evidence, also
\* when a process starts while another one is between run.json and the seal.
RegisteredIsSealed ==
  \A s \in Server : \A id \in resources[s] :
    \/ id \in Request /\ phase[id] = "completed" /\ result[id] # NoResult
    \/ id \in RunId /\ legacy[id] = "recorded"

\* Once no committed run waits for its seal, a process that is down comes up:
\* a historical run directory without a run.json does not keep it from that.
\* The ledgers of historical runs are taken as readable here; which of them a
\* startup refuses is what HistoricalRun looks at (ListingIsFaithful).
StartsWhenSealed ==
  <>[](\A r \in Request : result[r] # NoResult => phase[r] = "completed")
    => \A s \in Server : at[s] = "down" ~> Up(s)

\* A projection that failed is made good: a process that is asked for a sealed
\* request again and again ends up listing its resources, unless it dies.
ProjectionRecovers ==
  \A s \in Server, r \in Request :
    Up(s) /\ Evident(r) ~> r \in resources[s] \/ ~ Up(s)

\* "Readback ... can ... reconcile a committed run.json": for readback to serve
\* a client at all, a process that died can be started again.
RestartSucceeds == \A s \in Server : at[s] = "down" ~> Up(s)

=============================================================================
