---------------------- MODULE DurablePublication_proofs ----------------------
(***************************************************************************)
(* What a power loss cannot undo: the start of OpenModelica, an accepted   *)
(* request id, and the run record of an execution that was answered. The   *)
(* inductive invariant DurableInv says what every call knows, at each      *)
(* label, of the disk and not only of what it sees. Whatever number of     *)
(* calls, requests, power losses and faults there is, a step of one call   *)
(* leaves what the others know alone, because it either holds the request  *)
(* lock or only moves the claim forward (Undisturbed).                     *)
(***************************************************************************)
EXTENDS DurablePublication, TLAPS

-----------------------------------------------------------------------------
(* The inductive invariant.                                                *)

\* The labels a call passes with its request lock in hand; "reconcile" may also
\* be reached without it.
Holding ==
  {"recheck", "promote", "mkdir", "start", "execute", "artifacts", "ledger", "seal",
   "sealed", "recover", "recovered"}

\* What the call published last, when its directory may still be unsynced.
Awaited(label) ==
  CASE label \in {"lock", "mkdir", "execute", "sealed", "reconciled", "recovered"} -> "claim"
    [] label = "start"  -> "directory"
    [] label = "ledger" -> "artifacts"
    [] label = "seal"   -> "ledger"
    [] OTHER            -> "nothing"

\* The claim on the disk is one from which no submit starts OpenModelica again.
StartedForGood(r) == disk[<<r, "claim">>] \subseteq Started

LedgerForGood(r) == disk[<<r, "ledger">>] = {"whole"}

\* Where a call works, what it has to sync, and the lock it holds.
PlaceOK(c) ==
  /\ pc[c] = "idle" <=> on[c] = Nothing
  /\ unsynced[c] # Nothing => unsynced[c] = <<on[c], Awaited(pc[c])>>
  /\ pc[c] \in Holding => lock[on[c]] = c

\* A call works on a claimed request; what submit goes on from is durable.
ClaimOK(c) ==
  /\ pc[c] # "idle" => Claim(on[c]) # "none"
  /\ pc[c] # "idle" /\ asked[c] = "submit" /\ (pc[c] = "lock" => unsynced[c] = Nothing) =>
       "none" \notin disk[<<on[c], "claim">>]

\* The start of OpenModelica, as the call that holds the request lock knows it.
StartOK(c) ==
  /\ pc[c] \in {"promote", "mkdir", "start", "execute"} => launches[on[c]] = 0
  /\ pc[c] = "execute" => Claim(on[c]) \in Started
  /\ At(c, "execute") => StartedForGood(on[c])
  /\ pc[c] \in {"artifacts", "ledger", "seal", "sealed"} => launches[on[c]] = 1

\* run.json, as the call that published it knows it.
LedgerOK(c) ==
  /\ pc[c] = "seal" => now[<<on[c], "ledger">>] = "whole"
  /\ At(c, "seal") \/ pc[c] = "sealed" => LedgerForGood(on[c])

CallOK(c) == PlaceOK(c) /\ ClaimOK(c) /\ StartOK(c) /\ LedgerOK(c)

\* What is settled of a request, whoever works on it.
RequestOK(r) ==
  /\ launches[r] <= 1
  /\ launches[r] = 1 => StartedForGood(r)
  /\ "accepted" \in answered[r] => "none" \notin disk[<<r, "claim">>]
  /\ "executed" \in answered[r] => launches[r] = 1 /\ LedgerForGood(r)

DurableInv ==
  /\ TypeOK
  /\ \A c \in Call : CallOK(c)
  /\ \A r \in Request : RequestOK(r)

-----------------------------------------------------------------------------
(* A step of one call, as the others and the settled facts meet it.        *)

StoreTypes ==
  /\ now \in [Entry -> Content]
  /\ disk \in [Entry -> SUBSET Content]
  /\ \A e \in Entry : now[e] \in disk[e]

CallTypes ==
  /\ pc \in [Call -> Label]
  /\ on \in [Call -> Request \cup {Nothing}]
  /\ asked \in [Call -> {"submit", "get"}]
  /\ unsynced \in [Call -> Entry \cup {Nothing}]
  /\ lock \in [Request -> Call \cup {Nobody}]
  /\ \A r \in Request : lock[r] # Nobody => on[lock[r]] = r

HistoryTypes ==
  /\ launches \in [Request -> Nat]
  /\ answered \in [Request -> SUBSET Answer]

\* The step of d takes no lock away from another call, nor does it execute for
\* a request whose lock another call holds.
OthersKept(d) ==
  /\ \A c \in Call \ {d} :
       pc'[c] = pc[c] /\ on'[c] = on[c] /\ asked'[c] = asked[c] /\ unsynced'[c] = unsynced[c]
  /\ \A r \in Request :
       lock[r] \notin {d, Nobody} => lock'[r] = lock[r] /\ launches'[r] = launches[r]

\* It takes no claim or run.json back, neither from sight nor from the disk;
\* only a call that holds the request lock, and that before OpenModelica was
\* started, leaves the claim in a state from which it may be started.
FilesKept(d) ==
  \A r \in Request :
    /\ Claim(r) # "none" => now'[<<r, "claim">>] # "none"
    /\ "none" \notin disk[<<r, "claim">>] => "none" \notin disk'[<<r, "claim">>]
    /\ now[<<r, "ledger">>] = "whole" => now'[<<r, "ledger">>] = "whole"
    /\ LedgerForGood(r) => disk'[<<r, "ledger">>] = {"whole"}
    /\ lock[r] # d \/ launches[r] = 1 =>
         /\ Claim(r) \in Started => now'[<<r, "claim">>] \in Started
         /\ StartedForGood(r) => disk'[<<r, "claim">>] \subseteq Started

\* TypeOK in three parts: the store, the calls, what is only history.
LEMMA TypesSplit == TypeOK <=> StoreTypes /\ CallTypes /\ HistoryTypes
BY DEF TypeOK, StoreTypes, CallTypes, HistoryTypes

\* The names of a request are entries, and no two requests share one.
LEMMA EntriesOf ==
  ASSUME NEW r \in Request
  PROVE  /\ <<r, "claim">> \in Entry /\ <<r, "directory">> \in Entry
         /\ <<r, "artifacts">> \in Entry /\ <<r, "ledger">> \in Entry
         /\ \A s \in Request, part \in {"claim", "directory", "artifacts", "ledger"} :
              /\ <<s, part>> = <<r, "claim">> <=> s = r /\ part = "claim"
              /\ <<s, part>> = <<r, "ledger">> <=> s = r /\ part = "ledger"
BY DEF Entry

\* syncDirectory brings the disk up to what a process sees, for the entry it is
\* called for and its siblings, and adds nothing elsewhere.
LEMMA SyncedStore ==
  ASSUME StoreTypes, NEW d \in Call, NEW e \in Entry,
         disk' = Synced(e), now' = now
  PROVE  /\ StoreTypes'
         /\ FilesKept(d)
         /\ disk'[e] = {now[e]}
<1>1. \A f \in Entry : disk'[f] = {now[f]} \/ disk'[f] = disk[f]
  BY DEF Synced
<1>2. disk' \in [Entry -> SUBSET Content]
  BY DEF Synced, StoreTypes
<1>3. StoreTypes'
  BY <1>1, <1>2 DEF StoreTypes
<1>4. disk'[e] = {now[e]}
  BY DEF Synced, Siblings
<1>5. FilesKept(d)
  <2> SUFFICES ASSUME NEW r \in Request
               PROVE  /\ Claim(r) # "none" => now'[<<r, "claim">>] # "none"
                      /\ "none" \notin disk[<<r, "claim">>] =>
                           "none" \notin disk'[<<r, "claim">>]
                      /\ now[<<r, "ledger">>] = "whole" => now'[<<r, "ledger">>] = "whole"
                      /\ LedgerForGood(r) => disk'[<<r, "ledger">>] = {"whole"}
                      /\ Claim(r) \in Started => now'[<<r, "claim">>] \in Started
                      /\ StartedForGood(r) => disk'[<<r, "claim">>] \subseteq Started
    BY DEF FilesKept
  <2>1. <<r, "claim">> \in Entry /\ <<r, "ledger">> \in Entry
    BY EntriesOf
  <2>2. now[<<r, "claim">>] \in disk[<<r, "claim">>] /\ now[<<r, "ledger">>] \in disk[<<r, "ledger">>]
    BY <2>1 DEF StoreTypes
  <2> QED BY <1>1, <2>1, <2>2 DEF Claim, LedgerForGood, StartedForGood
<1> QED BY <1>3, <1>4, <1>5

\* A publication takes nothing back: a claim becomes one that was started, or
\* it is published first, or under the request lock before OpenModelica starts.
TakesNothingBack(d, e, v) ==
  /\ v # "none"
  /\ e[2] = "claim" =>
       v \in Started \/ Claim(e[1]) = "none" \/ (lock[e[1]] = d /\ launches[e[1]] # 1)
  /\ e[2] = "ledger" => v = "whole"

LEMMA PublishedStore ==
  ASSUME StoreTypes, NEW d \in Call, NEW e \in Entry, NEW v \in Content,
         Publish(d, e, v), TakesNothingBack(d, e, v)
  PROVE  /\ StoreTypes'
         /\ FilesKept(d)
         /\ now'[e] = v
<1>1. PICK r \in Request, part \in {"claim", "directory", "artifacts", "ledger"} :
        e = <<r, part>> /\ e[1] = r /\ e[2] = part
  BY DEF Entry
<1>2. /\ now' = [now EXCEPT ![e] = v]
      /\ disk' = [disk EXCEPT ![e] = @ \cup {v}]
  BY DEF Publish
<1>3. \A f \in Entry :
        /\ now'[f] = IF f = e THEN v ELSE now[f]
        /\ disk'[f] = IF f = e THEN disk[f] \cup {v} ELSE disk[f]
  BY <1>2 DEF StoreTypes
<1>4. now' \in [Entry -> Content] /\ disk' \in [Entry -> SUBSET Content]
  BY <1>2 DEF StoreTypes
<1>5. StoreTypes'
  BY <1>3, <1>4 DEF StoreTypes
<1>6. FilesKept(d)
  <2> SUFFICES ASSUME NEW s \in Request
               PROVE  /\ Claim(s) # "none" => now'[<<s, "claim">>] # "none"
                      /\ "none" \notin disk[<<s, "claim">>] =>
                           "none" \notin disk'[<<s, "claim">>]
                      /\ now[<<s, "ledger">>] = "whole" => now'[<<s, "ledger">>] = "whole"
                      /\ LedgerForGood(s) => disk'[<<s, "ledger">>] = {"whole"}
                      /\ lock[s] # d \/ launches[s] = 1 =>
                           /\ Claim(s) \in Started => now'[<<s, "claim">>] \in Started
                           /\ StartedForGood(s) => disk'[<<s, "claim">>] \subseteq Started
    BY DEF FilesKept
  <2>1. <<s, "claim">> \in Entry /\ <<s, "ledger">> \in Entry
    BY EntriesOf
  <2>2. /\ <<s, "claim">> = e <=> s = r /\ part = "claim"
        /\ <<s, "ledger">> = e <=> s = r /\ part = "ledger"
    BY <1>1, EntriesOf
  <2>3. now[<<s, "claim">>] \in disk[<<s, "claim">>]
    BY <2>1 DEF StoreTypes
  <2>4. "none" \notin Started
    BY DEF Started
  <2>5. now[<<s, "ledger">>] = "whole" => now'[<<s, "ledger">>] = "whole"
    BY <1>1, <1>3, <2>1, <2>2 DEF TakesNothingBack
  <2>6. LedgerForGood(s) => disk'[<<s, "ledger">>] = {"whole"}
    BY <1>1, <1>3, <2>1, <2>2 DEF LedgerForGood, TakesNothingBack
  <2>7. CASE s = r /\ part = "claim"
    <3>1. now'[<<s, "claim">>] = v /\ disk'[<<s, "claim">>] = disk[<<s, "claim">>] \cup {v}
      BY <1>3, <2>1, <2>2, <2>7
    <3> QED BY <1>1, <3>1, <2>3, <2>4, <2>5, <2>6, <2>7 DEF Claim, StartedForGood, TakesNothingBack
  <2>8. CASE ~ (s = r /\ part = "claim")
    <3>1. now'[<<s, "claim">>] = now[<<s, "claim">>] /\ disk'[<<s, "claim">>] = disk[<<s, "claim">>]
      BY <1>3, <2>1, <2>2, <2>8
    <3> QED BY <3>1, <2>5, <2>6 DEF Claim, StartedForGood
  <2> QED BY <2>7, <2>8
<1> QED BY <1>3, <1>5, <1>6

\* A step that touches no file.
LEMMA SameStore ==
  ASSUME StoreTypes, NEW d \in Call, now' = now, disk' = disk
  PROVE  StoreTypes' /\ FilesKept(d)
BY DEF StoreTypes, FilesKept, Claim, StartedForGood, LedgerForGood

-----------------------------------------------------------------------------
(* What is left to show for the step of a call: its own place, the types of *)
(* the calls, and what it tells.                                            *)

\* What the other calls know stays true.
LEMMA OthersStayOK ==
  ASSUME DurableInv, NEW d \in Call, OthersKept(d), FilesKept(d),
         NEW c \in Call, c # d
  PROVE  CallOK(c)'
<1>1. CallOK(c) /\ CallTypes /\ StoreTypes /\ HistoryTypes
  BY TypesSplit DEF DurableInv
<1>2. pc'[c] = pc[c] /\ on'[c] = on[c] /\ asked'[c] = asked[c] /\ unsynced'[c] = unsynced[c]
  BY DEF OthersKept
<1>3. CASE pc[c] = "idle"
  BY <1>1, <1>2, <1>3
    DEF CallOK, PlaceOK, ClaimOK, StartOK, LedgerOK, At, Holding
<1>4. CASE pc[c] # "idle"
  <2> PICK r : r = on[c]
    OBVIOUS
  <2>1. r \in Request /\ on'[c] = r
    BY <1>1, <1>2, <1>4 DEF CallOK, PlaceOK, CallTypes
  <2>2. /\ Claim(r) # "none" => now'[<<r, "claim">>] # "none"
        /\ "none" \notin disk[<<r, "claim">>] => "none" \notin disk'[<<r, "claim">>]
        /\ now[<<r, "ledger">>] = "whole" => now'[<<r, "ledger">>] = "whole"
        /\ LedgerForGood(r) => disk'[<<r, "ledger">>] = {"whole"}
        /\ lock[r] # d =>
             /\ Claim(r) \in Started => now'[<<r, "claim">>] \in Started
             /\ StartedForGood(r) => disk'[<<r, "claim">>] \subseteq Started
    BY <2>1 DEF FilesKept
  <2>3. PlaceOK(c)'
    <3>1. unsynced[c] # Nothing => unsynced'[c] = <<on'[c], Awaited(pc'[c])>>
      BY <1>1, <1>2 DEF CallOK, PlaceOK
    <3>2. pc[c] \in Holding => lock'[r] = c
      BY <1>1, <2>1, PublicationConstants DEF CallOK, PlaceOK, OthersKept
    <3> QED BY <1>1, <1>2, <2>1, <3>1, <3>2 DEF CallOK, PlaceOK, Awaited
  <2>4. ClaimOK(c)'
    BY <1>1, <1>2, <1>4, <2>1, <2>2 DEF CallOK, ClaimOK, Claim
  <2>5. pc[c] \in Holding => lock[r] = c /\ lock[r] # d /\ launches'[r] = launches[r]
    BY <1>1, <2>1, PublicationConstants DEF CallOK, PlaceOK, OthersKept
  <2>6. StartOK(c)'
    <3>1. {"promote", "mkdir", "start", "execute", "artifacts", "ledger", "seal", "sealed"}
            \subseteq Holding
      BY DEF Holding
    <3> QED BY <1>1, <1>2, <2>1, <2>2, <2>5, <3>1 DEF CallOK, StartOK, Claim, At, StartedForGood
  <2>7. LedgerOK(c)'
    BY <1>1, <1>2, <2>1, <2>2 DEF CallOK, LedgerOK, At, LedgerForGood
  <2> QED BY <2>3, <2>4, <2>6, <2>7 DEF CallOK
<1> QED BY <1>3, <1>4

\* What is settled of a request stays settled, when the step neither starts
\* OpenModelica nor answers.
LEMMA RequestsStayOK ==
  ASSUME DurableInv, NEW d \in Call, FilesKept(d), HistoryTypes,
         launches' = launches, answered' = answered
  PROVE  \A r \in Request : RequestOK(r)'
<1> SUFFICES ASSUME NEW r \in Request PROVE RequestOK(r)'
  OBVIOUS
<1>1. RequestOK(r)
  BY DEF DurableInv
<1>2. StoreTypes
  BY TypesSplit DEF DurableInv
<1>3. /\ "none" \notin disk[<<r, "claim">>] => "none" \notin disk'[<<r, "claim">>]
      /\ LedgerForGood(r) => disk'[<<r, "ledger">>] = {"whole"}
      /\ launches[r] = 1 => (StartedForGood(r) => disk'[<<r, "claim">>] \subseteq Started)
      /\ launches[r] = 1 /\ StartedForGood(r) => StartedForGood(r)'
  <2>1. <<r, "claim">> \in Entry /\ now[<<r, "claim">>] \in disk[<<r, "claim">>]
    BY <1>2, EntriesOf DEF StoreTypes
  <2> QED BY <2>1 DEF FilesKept, StartedForGood, Claim
<1> QED BY <1>1, <1>3 DEF RequestOK, LedgerForGood, StartedForGood

\* The step of a call that answers nobody and starts nothing.
LEMMA QuietStep ==
  ASSUME DurableInv, NEW d \in Call, OthersKept(d), FilesKept(d),
         StoreTypes', CallTypes', CallOK(d)',
         launches' = launches, answered' = answered
  PROVE  DurableInv'
<1>1. HistoryTypes /\ HistoryTypes'
  BY TypesSplit DEF DurableInv, HistoryTypes
<1>2. \A c \in Call : CallOK(c)'
  <2> TAKE c \in Call
  <2>1. CASE c = d
    BY <2>1
  <2>2. CASE c # d
    BY <2>2, OthersStayOK
  <2> QED BY <2>1, <2>2
<1>3. \A r \in Request : RequestOK(r)'
  BY <1>1, RequestsStayOK
<1>4. TypeOK'
  BY <1>1 DEF TypeOK, StoreTypes, CallTypes, HistoryTypes
<1> QED BY <1>2, <1>3, <1>4 DEF DurableInv

\* A call moves on with its request and its locks.
LEMMA Moved ==
  ASSUME CallTypes, NEW d \in Call, NEW label \in Label, Goto(d, label),
         UNCHANGED <<on, asked, lock, launches>>,
         unsynced' \in [Call -> Entry \cup {Nothing}],
         \A c \in Call \ {d} : unsynced'[c] = unsynced[c]
  PROVE  /\ CallTypes'
         /\ OthersKept(d)
         /\ pc'[d] = label /\ on'[d] = on[d] /\ asked'[d] = asked[d]
<1>1. /\ pc' \in [Call -> Label] /\ pc'[d] = label
      /\ \A c \in Call \ {d} : pc'[c] = pc[c]
  BY DEF Goto, CallTypes
<1>2. CallTypes'
  BY <1>1 DEF CallTypes
<1>3. OthersKept(d)
  BY <1>1 DEF OthersKept
<1> QED BY <1>1, <1>2, <1>3

\* What the invariant says of a call that works on a request.
LEMMA Working ==
  ASSUME DurableInv, NEW d \in Call, pc[d] # "idle"
  PROVE  /\ on[d] \in Request /\ CallOK(d) /\ RequestOK(on[d])
         /\ StoreTypes /\ CallTypes /\ HistoryTypes
         /\ pc[d] \in Holding => lock[on[d]] = d
BY TypesSplit DEF DurableInv, CallOK, PlaceOK, CallTypes

\* A call publishes under a name of its request and goes on.
LEMMA PublishAndMove ==
  ASSUME DurableInv, NEW d \in Call, pc[d] # "idle",
         NEW part \in {"claim", "directory", "artifacts", "ledger"}, NEW v \in Content,
         NEW label \in Label, v # "none", Publish(d, <<on[d], part>>, v), Goto(d, label),
         UNCHANGED <<on, asked, lock, launches>>,
         part = "claim" =>
           v \in Started \/ (pc[d] \in Holding /\ launches[on[d]] # 1),
         part = "ledger" => v = "whole"
  PROVE  /\ StoreTypes' /\ CallTypes' /\ OthersKept(d) /\ FilesKept(d)
         /\ pc'[d] = label /\ on'[d] = on[d] /\ asked'[d] = asked[d]
         /\ unsynced'[d] = <<on[d], part>> /\ unsynced'[d] # Nothing
         /\ now'[<<on[d], part>>] = v
<1>r. PICK r : r = on[d]
  OBVIOUS
<1>1. /\ r \in Request /\ StoreTypes /\ CallTypes
      /\ pc[d] \in Holding => lock[r] = d
  BY <1>r, Working
<1>2. <<r, part>> \in Entry
  BY <1>1 DEF Entry
<1>3. Publish(d, <<r, part>>, v)
  BY <1>r
<1>4. StoreTypes' /\ FilesKept(d) /\ now'[<<r, part>>] = v
  <2>1. TakesNothingBack(d, <<r, part>>, v)
    BY <1>r, <1>1 DEF TakesNothingBack
  <2> QED BY <1>1, <1>2, <1>3, <2>1, PublishedStore
<1>5. /\ unsynced' \in [Call -> Entry \cup {Nothing}] /\ unsynced'[d] = <<r, part>>
      /\ \A c \in Call \ {d} : unsynced'[c] = unsynced[c]
  BY <1>1, <1>2, <1>3 DEF Publish, CallTypes
<1>6. /\ CallTypes' /\ OthersKept(d)
      /\ pc'[d] = label /\ on'[d] = on[d] /\ asked'[d] = asked[d]
  BY <1>1, <1>5, Moved
<1>7. unsynced'[d] # Nothing
  BY <1>2, <1>5, NothingIsNoEntry
<1> QED BY <1>r, <1>4, <1>5, <1>6, <1>7

\* A call goes on without touching a file.
LEMMA OnlyMove ==
  ASSUME DurableInv, NEW d \in Call, NEW label \in Label, Goto(d, label),
         UNCHANGED <<now, disk, on, asked, unsynced, lock, launches>>
  PROVE  /\ StoreTypes' /\ CallTypes' /\ OthersKept(d) /\ FilesKept(d)
         /\ pc'[d] = label /\ on'[d] = on[d] /\ asked'[d] = asked[d]
<1>1. StoreTypes /\ CallTypes
  BY TypesSplit DEF DurableInv
<1>2. unsynced' \in [Call -> Entry \cup {Nothing}]
  BY <1>1 DEF CallTypes
<1>3. /\ CallTypes' /\ OthersKept(d)
      /\ pc'[d] = label /\ on'[d] = on[d] /\ asked'[d] = asked[d]
  BY <1>1, <1>2, Moved
<1> QED BY <1>1, <1>3, SameStore

\* A call gives its request and its request lock back.
LEMMA Returned ==
  ASSUME DurableInv, NEW d \in Call, Return(d), UNCHANGED <<asked, launches>>,
         unsynced' \in [Call -> Entry \cup {Nothing}], unsynced'[d] = Nothing,
         \A c \in Call \ {d} : unsynced'[c] = unsynced[c]
  PROVE  CallTypes' /\ OthersKept(d) /\ CallOK(d)'
<1>1. CallTypes
  BY TypesSplit DEF DurableInv
<1>2. /\ pc' \in [Call -> Label] /\ pc'[d] = "idle"
      /\ \A c \in Call \ {d} : pc'[c] = pc[c]
  BY <1>1 DEF Return, Goto, CallTypes, Label
<1>3. /\ on' \in [Call -> Request \cup {Nothing}] /\ on'[d] = Nothing
      /\ \A c \in Call \ {d} : on'[c] = on[c]
  BY <1>1 DEF Return, CallTypes
<1>4. /\ lock' \in [Request -> Call \cup {Nobody}]
      /\ \A r \in Request : lock'[r] = IF lock[r] = d THEN Nobody ELSE lock[r]
  BY <1>1 DEF Return, CallTypes
<1>5. \A r \in Request : lock'[r] # Nobody => on'[lock'[r]] = r
  <2> SUFFICES ASSUME NEW r \in Request, lock'[r] # Nobody PROVE on'[lock'[r]] = r
    OBVIOUS
  <2>1. lock'[r] = lock[r] /\ lock[r] # d /\ lock[r] \in Call /\ on[lock[r]] = r
    BY <1>1, <1>4 DEF CallTypes
  <2> QED BY <1>3, <2>1
<1>6. CallTypes'
  BY <1>1, <1>2, <1>3, <1>4, <1>5 DEF CallTypes
<1>7. OthersKept(d)
  BY <1>2, <1>3, <1>4 DEF OthersKept
<1>8. CallOK(d)'
  BY <1>2, <1>3 DEF CallOK, PlaceOK, ClaimOK, StartOK, LedgerOK, At, Holding
<1> QED BY <1>6, <1>7, <1>8

\* A call returns, or dies, and tells nothing.
LEMMA ReturnStep ==
  ASSUME DurableInv, NEW d \in Call, Return(d),
         UNCHANGED <<now, disk, asked, launches, answered>>,
         unsynced' \in [Call -> Entry \cup {Nothing}], unsynced'[d] = Nothing,
         \A c \in Call \ {d} : unsynced'[c] = unsynced[c]
  PROVE  DurableInv'
<1>1. StoreTypes
  BY TypesSplit DEF DurableInv
<1>2. StoreTypes' /\ FilesKept(d)
  BY <1>1, SameStore
<1>3. CallTypes' /\ OthersKept(d) /\ CallOK(d)'
  BY Returned
<1> QED BY <1>2, <1>3, QuietStep

-----------------------------------------------------------------------------
(* The steps of a call, one by one.                                        *)

\* The file each label waits for, spelled out.
LEMMA AwaitedAt ==
  /\ \A label \in {"lock", "mkdir", "execute", "sealed", "reconciled", "recovered"} :
       Awaited(label) = "claim"
  /\ Awaited("start") = "directory"
  /\ Awaited("ledger") = "artifacts"
  /\ Awaited("seal") = "ledger"
  /\ \A label \in {"idle", "recheck", "promote", "artifacts", "status", "reconcile", "recover"} :
       Awaited(label) = "nothing"
BY DEF Awaited

\* syncDirectory turns what the call published into what it can rely on.
LEMMA SyncDirectoryStep ==
  ASSUME DurableInv, NEW d \in Call, SyncDirectory(d)
  PROVE  DurableInv'
<1>1. CallTypes /\ StoreTypes /\ CallOK(d)
  BY TypesSplit DEF DurableInv
<1> PICK e : e = unsynced[d]
  OBVIOUS
<1>2. e \in Entry /\ e = <<on[d], Awaited(pc[d])>>
  BY <1>1 DEF SyncDirectory, CallTypes, CallOK, PlaceOK
<1>3. pc[d] \notin {"idle", "recheck", "promote", "artifacts", "status", "reconcile", "recover"}
  BY <1>2, AwaitedAt DEF Entry
<1>4. on[d] \in Request /\ Claim(on[d]) # "none"
  BY <1>1, <1>3 DEF CallTypes, CallOK, PlaceOK, ClaimOK
<1>5. disk' = Synced(e) /\ now' = now
  BY DEF SyncDirectory, DirectorySynced
<1>6. StoreTypes' /\ FilesKept(d) /\ disk'[e] = {now[e]}
  BY <1>1, <1>2, <1>5, SyncedStore
<1>7. /\ unsynced' \in [Call -> Entry \cup {Nothing}] /\ unsynced'[d] = Nothing
      /\ \A c \in Call \ {d} : unsynced'[c] = unsynced[c]
  BY <1>1 DEF SyncDirectory, CallTypes
<1>8. UNCHANGED <<now, pc, on, asked, lock, launches, answered>>
  BY DEF SyncDirectory
<1>9. CallTypes' /\ OthersKept(d)
  BY <1>1, <1>7, <1>8 DEF CallTypes, OthersKept
<1>10. CallOK(d)'
  <2> PICK r : r = on[d]
    OBVIOUS
  <2>1. r \in Request /\ on'[d] = r /\ e = <<r, Awaited(pc[d])>> /\ pc'[d] = pc[d]
    BY <1>2, <1>4, <1>8
  <2>2. PlaceOK(d)'
    BY <1>1, <1>7, <1>8 DEF CallOK, PlaceOK
  <2>3. ClaimOK(d)'
    <3>1. "none" \notin disk[<<r, "claim">>] => "none" \notin disk'[<<r, "claim">>]
      BY <1>6, <2>1 DEF FilesKept
    <3>2. pc[d] = "lock" => disk'[<<r, "claim">>] = {Claim(r)}
      BY <1>6, <2>1, AwaitedAt DEF Claim
    <3> QED BY <1>1, <1>4, <1>8, <2>1, <3>1, <3>2 DEF CallOK, ClaimOK, Claim
  <2>4. StartOK(d)'
    <3>1. pc[d] = "execute" => disk'[<<r, "claim">>] = {Claim(r)}
      BY <1>6, <2>1, AwaitedAt DEF Claim
    <3> QED BY <1>1, <1>8, <2>1, <3>1 DEF CallOK, StartOK, Claim, At, StartedForGood
  <2>5. LedgerOK(d)'
    <3>1. pc[d] = "seal" => disk'[<<r, "ledger">>] = {now[<<r, "ledger">>]}
      BY <1>6, <2>1, AwaitedAt
    <3>2. LedgerForGood(r) => disk'[<<r, "ledger">>] = {"whole"}
      BY <1>6, <2>1 DEF FilesKept
    <3> QED BY <1>1, <1>8, <2>1, <3>1, <3>2 DEF CallOK, LedgerOK, At, LedgerForGood
  <2> QED BY <2>2, <2>3, <2>4, <2>5 DEF CallOK
<1> QED BY <1>6, <1>8, <1>9, <1>10, QuietStep

\* An idle call holds no request lock.
LEMMA IdleHoldsNothing ==
  ASSUME DurableInv, NEW d \in Call, pc[d] = "idle"
  PROVE  \A r \in Request : lock[r] # d
<1>1. on[d] = Nothing /\ CallTypes
  BY TypesSplit DEF DurableInv, CallOK, PlaceOK
<1> QED BY <1>1, PublicationConstants DEF CallTypes

\* A call takes on a request: its place and the types of the calls.
LEMMA Entered ==
  ASSUME DurableInv, NEW d \in Call, NEW r \in Request, pc[d] = "idle",
         NEW label \in Label, NEW how \in {"submit", "get"}, Goto(d, label),
         on' = [on EXCEPT ![d] = r], asked' = [asked EXCEPT ![d] = how],
         UNCHANGED <<lock, launches>>,
         unsynced' \in [Call -> Entry \cup {Nothing}],
         \A c \in Call \ {d} : unsynced'[c] = unsynced[c]
  PROVE  /\ CallTypes' /\ OthersKept(d)
         /\ pc'[d] = label /\ on'[d] = r /\ asked'[d] = how
<1>1. CallTypes
  BY TypesSplit DEF DurableInv
<1>2. /\ pc' \in [Call -> Label] /\ pc'[d] = label
      /\ \A c \in Call \ {d} : pc'[c] = pc[c]
  BY <1>1 DEF Goto, CallTypes
<1>3. /\ on' \in [Call -> Request \cup {Nothing}] /\ on'[d] = r
      /\ \A c \in Call \ {d} : on'[c] = on[c]
  BY <1>1 DEF CallTypes
<1>4. /\ asked' \in [Call -> {"submit", "get"}] /\ asked'[d] = how
      /\ \A c \in Call \ {d} : asked'[c] = asked[c]
  BY <1>1 DEF CallTypes
<1>5. \A s \in Request : lock'[s] # Nobody => on'[lock'[s]] = s
  BY <1>1, <1>3, IdleHoldsNothing DEF CallTypes
<1>6. CallTypes'
  BY <1>1, <1>2, <1>3, <1>4, <1>5 DEF CallTypes
<1>7. OthersKept(d)
  BY <1>2, <1>3, <1>4 DEF OthersKept
<1> QED BY <1>2, <1>3, <1>4, <1>6, <1>7

\* submit: a new claim has still to be synced, one that is there is synced now.
LEMMA SubmitStep ==
  ASSUME DurableInv, NEW d \in Call, NEW r \in Request, Submit(d, r)
  PROVE  DurableInv'
<1>1. CallTypes /\ StoreTypes /\ <<r, "claim">> \in Entry
  BY TypesSplit, EntriesOf DEF DurableInv
<1>2. /\ pc[d] = "idle" /\ unsynced[d] = Nothing /\ Goto(d, "lock")
      /\ on' = [on EXCEPT ![d] = r] /\ asked' = [asked EXCEPT ![d] = "submit"]
      /\ UNCHANGED <<lock, launches, answered>>
  BY DEF Submit, At
<1>3. /\ unsynced' \in [Call -> Entry \cup {Nothing}]
      /\ \A c \in Call \ {d} : unsynced'[c] = unsynced[c]
      /\ unsynced'[d] \in {Nothing, <<r, "claim">>}
  BY <1>1, <1>2 DEF Submit, Publish, CallTypes
<1>4. /\ CallTypes' /\ OthersKept(d)
      /\ pc'[d] = "lock" /\ on'[d] = r /\ asked'[d] = "submit"
  BY <1>2, <1>3, Entered DEF Label
<1>5. /\ StoreTypes' /\ FilesKept(d) /\ now'[<<r, "claim">>] # "none"
      /\ unsynced'[d] = Nothing => "none" \notin disk'[<<r, "claim">>]
  <2>1. CASE Claim(r) = "none" /\ Publish(d, <<r, "claim">>, "claimed")
    <3>1. "claimed" \in Content
      BY DEF Content
    <3>2. TakesNothingBack(d, <<r, "claim">>, "claimed")
      BY <2>1 DEF TakesNothingBack
    <3>3. StoreTypes' /\ FilesKept(d) /\ now'[<<r, "claim">>] = "claimed"
      BY <1>1, <2>1, <3>1, <3>2, PublishedStore
    <3>4. unsynced'[d] = <<r, "claim">>
      BY <1>1, <2>1 DEF Publish, CallTypes
    <3> QED BY <1>1, <3>3, <3>4, NothingIsNoEntry
  <2>2. CASE Claim(r) # "none" /\ disk' = Confirmed(r) /\ UNCHANGED <<now, unsynced>>
    <3>1. StoreTypes' /\ FilesKept(d) /\ disk'[<<r, "claim">>] = {now[<<r, "claim">>]}
      BY <1>1, <2>2, SyncedStore DEF Confirmed
    <3> QED BY <2>2, <3>1 DEF Claim
  <2> QED BY <2>1, <2>2 DEF Submit
<1>6. CallOK(d)'
  <2>1. PlaceOK(d)'
    BY <1>3, <1>4, PublicationConstants, AwaitedAt DEF PlaceOK, Holding
  <2>2. ClaimOK(d)'
    BY <1>4, <1>5 DEF ClaimOK, Claim
  <2> QED BY <1>4, <2>1, <2>2 DEF CallOK, StartOK, LedgerOK, At
<1> QED BY <1>2, <1>4, <1>5, <1>6, QuietStep

\* request_get of a request that has a claim.
LEMMA GetStep ==
  ASSUME DurableInv, NEW d \in Call, NEW r \in Request, Get(d, r)
  PROVE  DurableInv'
<1>1. CallTypes /\ StoreTypes
  BY TypesSplit DEF DurableInv
<1>2. /\ pc[d] = "idle" /\ unsynced[d] = Nothing /\ Goto(d, "status") /\ Claim(r) # "none"
      /\ on' = [on EXCEPT ![d] = r] /\ asked' = [asked EXCEPT ![d] = "get"]
      /\ UNCHANGED <<now, disk, unsynced, lock, launches, answered>>
  BY DEF Get, At
<1>3. unsynced' \in [Call -> Entry \cup {Nothing}]
  BY <1>1, <1>2 DEF CallTypes
<1>4. /\ CallTypes' /\ OthersKept(d)
      /\ pc'[d] = "status" /\ on'[d] = r /\ asked'[d] = "get"
  BY <1>2, <1>3, Entered DEF Label
<1>5. StoreTypes' /\ FilesKept(d)
  BY <1>1, <1>2, SameStore
<1>6. CallOK(d)'
  <2>1. PlaceOK(d)'
    BY <1>2, <1>4, PublicationConstants DEF PlaceOK, Holding
  <2>2. ClaimOK(d)'
    BY <1>2, <1>4 DEF ClaimOK, Claim
  <2> QED BY <1>4, <2>1, <2>2 DEF CallOK, StartOK, LedgerOK, At
<1> QED BY <1>2, <1>4, <1>5, <1>6, QuietStep

\* The step of a call that only goes on, from what it knew before.
LEMMA OnlyMoveStep ==
  ASSUME DurableInv, NEW d \in Call, NEW label \in Label, pc[d] # "idle", label # "idle",
         Goto(d, label), unsynced[d] = Nothing,
         UNCHANGED <<now, disk, on, asked, unsynced, lock, launches, answered>>,
         label \in Holding => lock[on[d]] = d,
         pc[d] # "lock" \/ asked[d] # "submit" \/ "none" \notin disk[<<on[d], "claim">>],
         StartOK(d)', LedgerOK(d)'
  PROVE  DurableInv'
<1>1. CallOK(d)
  BY DEF DurableInv
<1>2. /\ StoreTypes' /\ CallTypes' /\ OthersKept(d) /\ FilesKept(d)
      /\ pc'[d] = label /\ on'[d] = on[d] /\ asked'[d] = asked[d]
  BY OnlyMove
<1>3. PlaceOK(d)'
  BY <1>1, <1>2 DEF CallOK, PlaceOK
<1>4. ClaimOK(d)'
  BY <1>1, <1>2 DEF CallOK, ClaimOK, Claim
<1> QED BY <1>2, <1>3, <1>4, QuietStep DEF CallOK

\* The request lock is free, and the call takes it.
LEMMA LockTakenStep ==
  ASSUME DurableInv, NEW d \in Call, pc[d] \in {"lock", "status"}, unsynced[d] = Nothing,
         lock[on[d]] = Nobody, lock' = [lock EXCEPT ![on[d]] = d], Goto(d, "recheck"),
         UNCHANGED <<now, disk, on, asked, unsynced, launches, answered>>
  PROVE  DurableInv'
<1> PICK r : r = on[d]
  OBVIOUS
<1>1. CallTypes /\ StoreTypes /\ CallOK(d) /\ r \in Request
  BY Working
<1>2. /\ pc' \in [Call -> Label] /\ pc'[d] = "recheck"
      /\ \A c \in Call \ {d} : pc'[c] = pc[c]
  BY <1>1 DEF Goto, CallTypes, Label
<1>3. /\ lock' \in [Request -> Call \cup {Nobody}] /\ lock'[r] = d
      /\ \A s \in Request \ {r} : lock'[s] = lock[s]
  BY <1>1 DEF CallTypes
<1>4. \A s \in Request : lock'[s] # Nobody => on'[lock'[s]] = s
  BY <1>1, <1>3 DEF CallTypes
<1>5. CallTypes'
  BY <1>1, <1>2, <1>3, <1>4 DEF CallTypes
<1>6. OthersKept(d)
  BY <1>1, <1>2, <1>3 DEF OthersKept
<1>7. StoreTypes' /\ FilesKept(d)
  BY <1>1, SameStore
<1>8. CallOK(d)'
  <2>1. PlaceOK(d)'
    BY <1>1, <1>2, <1>3, PublicationConstants DEF PlaceOK, CallOK
  <2>2. ClaimOK(d)'
    BY <1>1, <1>2 DEF ClaimOK, CallOK, Claim
  <2> QED BY <1>2, <2>1, <2>2 DEF CallOK, StartOK, LedgerOK, At
<1> QED BY <1>5, <1>6, <1>7, <1>8, QuietStep

\* The request lock is taken by nobody else, or the call goes to status.
LEMMA AcquireLockStep ==
  ASSUME DurableInv, NEW d \in Call, AcquireLock(d)
  PROVE  DurableInv'
<1>1. /\ pc[d] = "lock" /\ unsynced[d] = Nothing
      /\ UNCHANGED <<now, disk, on, asked, unsynced, launches, answered>>
  BY DEF AcquireLock, At
<1>2. CASE lock[on[d]] = Nobody /\ lock' = [lock EXCEPT ![on[d]] = d] /\ Goto(d, "recheck")
  BY <1>1, <1>2, LockTakenStep
<1>3. CASE lock[on[d]] # Nobody /\ Goto(d, "status") /\ UNCHANGED lock
  <2>1. CallTypes /\ CallOK(d)
    BY TypesSplit DEF DurableInv
  <2>2. pc'[d] = "status"
    BY <1>3, <2>1 DEF Goto, CallTypes
  <2>3. StartOK(d)' /\ LedgerOK(d)'
    BY <2>2 DEF StartOK, LedgerOK, At
  <2>4. asked[d] # "submit" \/ "none" \notin disk[<<on[d], "claim">>]
    BY <1>1, <2>1 DEF CallOK, ClaimOK
  <2>5. "status" \in Label /\ "status" \notin Holding
    BY DEF Label, Holding
  <2> QED BY <1>1, <1>3, <2>3, <2>4, <2>5, OnlyMoveStep
<1> QED BY <1>2, <1>3 DEF AcquireLock

\* Only an unstarted claim without run.json is promoted, and OpenModelica was
\* not started for it: a start leaves a started claim.
LEMMA RecheckStep ==
  ASSUME DurableInv, NEW d \in Call, Recheck(d)
  PROVE  DurableInv'
<1> PICK r : r = on[d]
  OBVIOUS
<1>1. pc[d] = "recheck" /\ unsynced[d] = Nothing
  BY DEF Recheck, At
<1>2. /\ CallTypes /\ StoreTypes /\ CallOK(d) /\ RequestOK(r) /\ HistoryTypes /\ r \in Request
      /\ lock[r] = d
  BY <1>1, Working DEF Holding
<1>3. UNCHANGED <<now, disk, asked, unsynced, launches, answered>>
  BY DEF Recheck
<1>4. CASE Return(d)
  <2>1. unsynced' \in [Call -> Entry \cup {Nothing}] /\ unsynced'[d] = Nothing
    BY <1>1, <1>2, <1>3 DEF CallTypes
  <2> QED BY <1>3, <1>4, <2>1, ReturnStep
<1>5. ASSUME NEW label \in {"reconcile", "promote", "recover", "recovered"},
             Goto(d, label), UNCHANGED <<on, lock>>,
             label = "promote" => Claim(r) \in {"claimed", "promoting"}
      PROVE  DurableInv'
  <2>1. label \in Label /\ label # "idle"
    BY DEF Label
  <2>2. pc'[d] = label
    BY <1>2, <1>5, <2>1 DEF Goto, CallTypes
  <2>3. label = "promote" => launches[r] = 0
    <3>1. Claim(r) \in disk[<<r, "claim">>]
      BY <1>2, EntriesOf DEF StoreTypes, Claim
    <3>2. Claim(r) \in Started => ~ Claim(r) \in {"claimed", "promoting"}
      BY DEF Started
    <3>3. label = "promote" => launches[r] # 1
      BY <1>2, <1>5, <3>1, <3>2 DEF RequestOK, StartedForGood
    <3>4. launches[r] \in Nat /\ launches[r] <= 1
      BY <1>2 DEF HistoryTypes, RequestOK
    <3> QED BY <3>3, <3>4
  <2>4. StartOK(d)' /\ LedgerOK(d)'
    BY <1>3, <1>5, <2>2, <2>3 DEF StartOK, LedgerOK, At
  <2> QED BY <1>1, <1>2, <1>3, <1>5, <2>1, <2>4, OnlyMoveStep
<1>6. \/ Return(d)
      \/ \E label \in {"reconcile", "promote", "recover", "recovered"} :
           /\ Goto(d, label) /\ UNCHANGED <<on, lock>>
           /\ label = "promote" => Claim(r) \in {"claimed", "promoting"}
  <2>1. CASE now[<<r, "ledger">>] = "whole"
    BY <2>1 DEF Recheck
  <2>2. CASE now[<<r, "ledger">>] # "whole"
    <3>1. CASE Claim(r) \in {"claimed", "promoting"}
      BY <2>2, <3>1 DEF Recheck
    <3>2. CASE Claim(r) = "running"
      BY <2>2, <3>2 DEF Recheck
    <3>3. CASE Claim(r) = "recovery_required"
      BY <2>2, <3>3 DEF Recheck
    <3>4. CASE Claim(r) \notin {"claimed", "promoting", "running", "recovery_required"}
      BY <2>2, <3>4 DEF Recheck
    <3> QED BY <3>1, <3>2, <3>3, <3>4
  <2> QED BY <2>1, <2>2
<1> QED BY <1>4, <1>5, <1>6

\* promoteRequest begins: the caller holds the lock, OpenModelica never ran.
LEMMA PublishRunStep ==
  ASSUME DurableInv, NEW d \in Call, PublishRun(d)
  PROVE  DurableInv'
<1>1. /\ pc[d] = "promote" /\ Publish(d, <<on[d], "claim">>, "promoting") /\ Goto(d, "mkdir")
      /\ UNCHANGED <<on, asked, lock, launches, answered>>
  BY DEF PublishRun, At, TheClaim
<1>2. on[d] \in Request /\ CallOK(d) /\ lock[on[d]] = d /\ launches[on[d]] = 0
  BY <1>1, Working DEF Holding, CallOK, StartOK
<1>3. /\ "promoting" \in Content /\ "promoting" # "none" /\ "mkdir" \in Label
      /\ pc[d] # "idle" /\ pc[d] \in Holding /\ launches[on[d]] # 1
  BY <1>1, <1>2 DEF Content, Label, Holding
<1>4. /\ StoreTypes' /\ CallTypes' /\ OthersKept(d) /\ FilesKept(d)
      /\ pc'[d] = "mkdir" /\ on'[d] = on[d] /\ asked'[d] = asked[d]
      /\ unsynced'[d] = <<on[d], "claim">> /\ now'[<<on[d], "claim">>] = "promoting"
  BY <1>1, <1>2, <1>3, PublishAndMove
<1>5. PlaceOK(d)'
  BY <1>1, <1>2, <1>4, AwaitedAt, PublicationConstants DEF PlaceOK
<1>6. ClaimOK(d)'
  BY <1>1, <1>2, <1>4 DEF ClaimOK, CallOK, FilesKept, Claim
<1>7. StartOK(d)' /\ LedgerOK(d)'
  BY <1>1, <1>2, <1>4 DEF StartOK, LedgerOK, At
<1> QED BY <1>1, <1>4, <1>5, <1>6, <1>7, QuietStep DEF CallOK

\* The run directory is made under the claim, before the start record.
LEMMA MakeRunDirectoryStep ==
  ASSUME DurableInv, NEW d \in Call, MakeRunDirectory(d)
  PROVE  DurableInv'
<1>1. /\ pc[d] = "mkdir" /\ unsynced[d] = Nothing /\ Goto(d, "start")
      /\ UNCHANGED <<on, asked, lock, launches, answered>>
  BY DEF MakeRunDirectory, At
<1>2. on[d] \in Request /\ CallOK(d) /\ lock[on[d]] = d /\ launches[on[d]] = 0 /\ CallTypes
  BY <1>1, Working DEF Holding, CallOK, StartOK
<1>3. "whole" \in Content /\ "start" \in Label /\ pc[d] \in Holding
  BY <1>1 DEF Content, Label, Holding
<1>4. CASE Publish(d, <<on[d], "directory">>, "whole")
  <2>1. /\ StoreTypes' /\ CallTypes' /\ OthersKept(d) /\ FilesKept(d)
        /\ pc'[d] = "start" /\ on'[d] = on[d] /\ asked'[d] = asked[d]
        /\ unsynced'[d] = <<on[d], "directory">>
    BY <1>1, <1>2, <1>3, <1>4, PublishAndMove
  <2>2. PlaceOK(d)'
    BY <1>1, <1>2, <2>1, AwaitedAt, PublicationConstants DEF PlaceOK
  <2>3. ClaimOK(d)'
    BY <1>1, <1>2, <2>1 DEF ClaimOK, CallOK, FilesKept, Claim
  <2>4. StartOK(d)' /\ LedgerOK(d)'
    BY <1>1, <1>2, <2>1 DEF StartOK, LedgerOK, At
  <2> QED BY <1>1, <2>1, <2>2, <2>3, <2>4, QuietStep DEF CallOK
<1>5. CASE UNCHANGED <<now, disk, unsynced>>
  <2>1. pc'[d] = "start"
    BY <1>1, <1>2 DEF Goto, CallTypes
  <2>2. StartOK(d)' /\ LedgerOK(d)'
    BY <1>1, <1>2, <2>1 DEF StartOK, LedgerOK, At
  <2> QED BY <1>1, <1>2, <1>3, <1>5, <2>2, OnlyMoveStep
<1> QED BY <1>4, <1>5 DEF MakeRunDirectory

\* promoteRequest ends: the running claim, which OpenModelica waits for.
LEMMA StartRunStep ==
  ASSUME DurableInv, NEW d \in Call, StartRun(d)
  PROVE  DurableInv'
<1>1. /\ pc[d] = "start" /\ Publish(d, <<on[d], "claim">>, "running") /\ Goto(d, "execute")
      /\ UNCHANGED <<on, asked, lock, launches, answered>>
  BY DEF StartRun, At, TheClaim
<1>2. on[d] \in Request /\ CallOK(d) /\ lock[on[d]] = d /\ launches[on[d]] = 0
  BY <1>1, Working DEF Holding, CallOK, StartOK
<1>3. "running" \in Content /\ "running" \in Started /\ "execute" \in Label
  BY DEF Content, Started, Label
<1>4. /\ StoreTypes' /\ CallTypes' /\ OthersKept(d) /\ FilesKept(d)
      /\ pc'[d] = "execute" /\ on'[d] = on[d] /\ asked'[d] = asked[d]
      /\ unsynced'[d] = <<on[d], "claim">> /\ unsynced'[d] # Nothing
      /\ now'[<<on[d], "claim">>] = "running"
  BY <1>1, <1>2, <1>3, PublishAndMove
<1>5. PlaceOK(d)'
  BY <1>1, <1>2, <1>4, AwaitedAt, PublicationConstants DEF PlaceOK
<1>6. ClaimOK(d)'
  BY <1>1, <1>2, <1>4 DEF ClaimOK, CallOK, FilesKept, Claim
<1>7. StartOK(d)' /\ LedgerOK(d)'
  BY <1>1, <1>2, <1>3, <1>4 DEF StartOK, LedgerOK, At, Claim
<1> QED BY <1>1, <1>4, <1>5, <1>6, <1>7, QuietStep DEF CallOK

\* OpenModelica starts: for the first time, and on a claim that is on the disk.
LEMMA ExecuteStep ==
  ASSUME DurableInv, NEW d \in Call, Execute(d)
  PROVE  DurableInv'
<1> PICK r : r = on[d]
  OBVIOUS
<1>1. /\ pc[d] = "execute" /\ unsynced[d] = Nothing /\ Goto(d, "artifacts")
      /\ launches' = [launches EXCEPT ![r] = @ + 1]
      /\ UNCHANGED <<now, disk, on, asked, unsynced, lock, answered>>
  BY DEF Execute, At
<1>2. /\ r \in Request /\ CallOK(d) /\ lock[r] = d /\ launches[r] = 0 /\ StartedForGood(r)
      /\ CallTypes /\ StoreTypes /\ HistoryTypes
  BY <1>1, Working DEF Holding, CallOK, StartOK, At
<1>3. /\ launches' \in [Request -> Nat] /\ launches'[r] = 1
      /\ \A s \in Request \ {r} : launches'[s] = launches[s]
  BY <1>1, <1>2 DEF HistoryTypes
<1>4. /\ pc' \in [Call -> Label] /\ pc'[d] = "artifacts"
      /\ \A c \in Call \ {d} : pc'[c] = pc[c]
  BY <1>1, <1>2 DEF Goto, CallTypes, Label
<1>5. CallTypes' /\ StoreTypes' /\ HistoryTypes' /\ FilesKept(d)
  <2>1. CallTypes'
    BY <1>1, <1>2, <1>4 DEF CallTypes
  <2>2. StoreTypes' /\ FilesKept(d)
    BY <1>1, <1>2, SameStore
  <2>3. HistoryTypes'
    BY <1>1, <1>2, <1>3 DEF HistoryTypes
  <2> QED BY <2>1, <2>2, <2>3
<1>6. OthersKept(d)
  BY <1>1, <1>2, <1>3, <1>4 DEF OthersKept
<1>7. CallOK(d)'
  <2>1. PlaceOK(d)'
    BY <1>1, <1>2, <1>4 DEF PlaceOK, CallOK
  <2>2. ClaimOK(d)'
    BY <1>1, <1>2, <1>4 DEF ClaimOK, CallOK, Claim
  <2>3. StartOK(d)' /\ LedgerOK(d)'
    BY <1>1, <1>3, <1>4 DEF StartOK, LedgerOK, At
  <2> QED BY <2>1, <2>2, <2>3 DEF CallOK
<1>8. \A c \in Call : CallOK(c)'
  BY <1>5, <1>6, <1>7, OthersStayOK
<1>9. \A s \in Request : RequestOK(s)'
  <2> SUFFICES ASSUME NEW s \in Request PROVE RequestOK(s)'
    OBVIOUS
  <2>1. RequestOK(s)
    BY DEF DurableInv
  <2>2. CASE s = r
    BY <1>1, <1>2, <1>3, <2>1, <2>2 DEF RequestOK, StartedForGood, LedgerForGood
  <2>3. CASE s # r
    BY <1>1, <1>3, <2>1, <2>3 DEF RequestOK, StartedForGood, LedgerForGood
  <2> QED BY <2>2, <2>3
<1> QED BY <1>5, <1>8, <1>9 DEF DurableInv, TypeOK, StoreTypes, CallTypes, HistoryTypes

\* The artifacts follow an execution; the ledger waits for them.
LEMMA WriteArtifactsStep ==
  ASSUME DurableInv, NEW d \in Call, WriteArtifacts(d)
  PROVE  DurableInv'
<1>1. /\ pc[d] = "artifacts" /\ Publish(d, <<on[d], "artifacts">>, "whole") /\ Goto(d, "ledger")
      /\ UNCHANGED <<on, asked, lock, launches, answered>>
  BY DEF WriteArtifacts, At
<1>2. on[d] \in Request /\ CallOK(d) /\ lock[on[d]] = d /\ launches[on[d]] = 1
  BY <1>1, Working DEF Holding, CallOK, StartOK
<1>3. "whole" \in Content /\ "ledger" \in Label
  BY DEF Content, Label
<1>4. /\ StoreTypes' /\ CallTypes' /\ OthersKept(d) /\ FilesKept(d)
      /\ pc'[d] = "ledger" /\ on'[d] = on[d] /\ asked'[d] = asked[d]
      /\ unsynced'[d] = <<on[d], "artifacts">>
  BY <1>1, <1>2, <1>3, PublishAndMove
<1>5. PlaceOK(d)'
  BY <1>1, <1>2, <1>4, AwaitedAt, PublicationConstants DEF PlaceOK
<1>6. ClaimOK(d)'
  BY <1>1, <1>2, <1>4 DEF ClaimOK, CallOK, FilesKept, Claim
<1>7. StartOK(d)' /\ LedgerOK(d)'
  BY <1>1, <1>2, <1>4 DEF StartOK, LedgerOK, At
<1> QED BY <1>1, <1>4, <1>5, <1>6, <1>7, QuietStep DEF CallOK

\* run.json is published; only its sync makes it the record of the run.
LEMMA WriteRunRecordStep ==
  ASSUME DurableInv, NEW d \in Call, WriteRunRecord(d)
  PROVE  DurableInv'
<1>1. /\ pc[d] = "ledger" /\ Publish(d, <<on[d], "ledger">>, "whole") /\ Goto(d, "seal")
      /\ UNCHANGED <<on, asked, lock, launches, answered>>
  BY DEF WriteRunRecord, At
<1>2. on[d] \in Request /\ CallOK(d) /\ lock[on[d]] = d /\ launches[on[d]] = 1
  BY <1>1, Working DEF Holding, CallOK, StartOK
<1>3. "whole" \in Content /\ "seal" \in Label
  BY DEF Content, Label
<1>4. /\ StoreTypes' /\ CallTypes' /\ OthersKept(d) /\ FilesKept(d)
      /\ pc'[d] = "seal" /\ on'[d] = on[d] /\ asked'[d] = asked[d]
      /\ unsynced'[d] = <<on[d], "ledger">> /\ unsynced'[d] # Nothing
      /\ now'[<<on[d], "ledger">>] = "whole"
  BY <1>1, <1>2, <1>3, PublishAndMove
<1>5. PlaceOK(d)'
  BY <1>1, <1>2, <1>4, AwaitedAt, PublicationConstants DEF PlaceOK
<1>6. ClaimOK(d)'
  BY <1>1, <1>2, <1>4 DEF ClaimOK, CallOK, FilesKept, Claim
<1>7. StartOK(d)' /\ LedgerOK(d)'
  BY <1>1, <1>2, <1>4 DEF StartOK, LedgerOK, At
<1> QED BY <1>1, <1>4, <1>5, <1>6, <1>7, QuietStep DEF CallOK

\* A completed claim takes the place of a started one, with or without the lock.
LEMMA SealStep ==
  ASSUME DurableInv, NEW d \in Call,
         NEW from \in {"seal", "reconcile"}, NEW to \in {"sealed", "reconciled"},
         from = "seal" <=> to = "sealed", Seal(d, from, to)
  PROVE  DurableInv'
<1>1. /\ pc[d] = from /\ unsynced[d] = Nothing /\ Goto(d, to)
      /\ UNCHANGED <<on, asked, lock, launches, answered>>
  BY DEF Seal, At
<1>2. /\ on[d] \in Request /\ CallOK(d) /\ CallTypes
      /\ to \in Holding => lock[on[d]] = d
  BY <1>1, Working DEF Holding
<1>3. to = "sealed" => launches[on[d]] = 1 /\ LedgerForGood(on[d])
  BY <1>1, <1>2 DEF CallOK, StartOK, LedgerOK, At
<1>4. "completed" \in Content /\ "completed" \in Started /\ to \in Label
  BY DEF Content, Started, Label
<1>5. CASE Publish(d, <<on[d], "claim">>, "completed")
  <2>1. pc[d] # "idle" /\ pc[d] # "lock"
    BY <1>1
  <2>2. /\ StoreTypes' /\ CallTypes' /\ OthersKept(d) /\ FilesKept(d)
        /\ pc'[d] = to /\ on'[d] = on[d] /\ asked'[d] = asked[d]
        /\ unsynced'[d] = <<on[d], "claim">>
    BY <1>1, <1>4, <1>5, <2>1, PublishAndMove
  <2>3. PlaceOK(d)'
    BY <1>1, <1>2, <2>2, AwaitedAt, PublicationConstants DEF PlaceOK
  <2>4. ClaimOK(d)'
    BY <1>1, <1>2, <2>1, <2>2 DEF ClaimOK, CallOK, FilesKept, Claim
  <2>5. StartOK(d)' /\ LedgerOK(d)'
    BY <1>1, <1>2, <1>3, <2>2 DEF StartOK, LedgerOK, At, FilesKept, LedgerForGood
  <2> QED BY <1>1, <2>2, <2>3, <2>4, <2>5, QuietStep DEF CallOK
<1>6. CASE UNCHANGED <<now, disk, unsynced>>
  <2>1. pc'[d] = to
    BY <1>1, <1>2, <1>4 DEF Goto, CallTypes
  <2>2. StartOK(d)' /\ LedgerOK(d)'
    BY <1>1, <1>3, <1>6, <2>1 DEF StartOK, LedgerOK, At, LedgerForGood
  <2> QED BY <1>1, <1>2, <1>4, <1>6, <2>2, OnlyMoveStep
<1> QED BY <1>5, <1>6 DEF Seal, TheClaim

\* recoveryResult: the verdict over a started claim is a started claim.
LEMMA RecoverStep ==
  ASSUME DurableInv, NEW d \in Call, Recover(d)
  PROVE  DurableInv'
<1>1. /\ pc[d] = "recover" /\ Publish(d, <<on[d], "claim">>, "recovery_required")
      /\ Goto(d, "recovered")
      /\ UNCHANGED <<on, asked, lock, launches, answered>>
  BY DEF Recover, At, TheClaim
<1>2. on[d] \in Request /\ CallOK(d) /\ lock[on[d]] = d
  BY <1>1, Working DEF Holding
<1>3. /\ "recovery_required" \in Content /\ "recovery_required" \in Started
      /\ "recovered" \in Label
  BY DEF Content, Started, Label
<1>4. /\ StoreTypes' /\ CallTypes' /\ OthersKept(d) /\ FilesKept(d)
      /\ pc'[d] = "recovered" /\ on'[d] = on[d] /\ asked'[d] = asked[d]
      /\ unsynced'[d] = <<on[d], "claim">>
  BY <1>1, <1>3, PublishAndMove
<1>5. PlaceOK(d)'
  BY <1>1, <1>2, <1>4, AwaitedAt, PublicationConstants DEF PlaceOK
<1>6. ClaimOK(d)'
  BY <1>1, <1>2, <1>4 DEF ClaimOK, CallOK, FilesKept, Claim
<1>7. StartOK(d)' /\ LedgerOK(d)'
  BY <1>4 DEF StartOK, LedgerOK, At
<1> QED BY <1>1, <1>4, <1>5, <1>6, <1>7, QuietStep DEF CallOK

\* A call answers: accepted, because its claim is durable; executed, because it
\* sealed what it ran.
LEMMA TellStep ==
  ASSUME DurableInv, NEW d \in Call, NEW answers \in SUBSET {"completed", "executed"},
         pc[d] \notin {"idle", "lock"}, unsynced[d] = Nothing,
         Tell(d, answers), Return(d), UNCHANGED <<now, disk, asked, unsynced, launches>>,
         "executed" \in answers => launches[on[d]] = 1 /\ LedgerForGood(on[d])
  PROVE  DurableInv'
<1> PICK r : r = on[d]
  OBVIOUS
<1>1. /\ r \in Request /\ CallOK(d) /\ CallTypes /\ StoreTypes /\ HistoryTypes
  BY Working
<1>2. StoreTypes' /\ FilesKept(d)
  BY <1>1, SameStore
<1>3. CallTypes' /\ OthersKept(d) /\ CallOK(d)'
  <2>1. unsynced' \in [Call -> Entry \cup {Nothing}]
    BY <1>1 DEF CallTypes
  <2> QED BY <2>1, Returned
<1>4. \A c \in Call : CallOK(c)'
  BY <1>2, <1>3, OthersStayOK
<1> PICK extra : extra = IF asked[d] = "submit" THEN {"accepted"} ELSE {}
  OBVIOUS
<1>5. answered' = [answered EXCEPT ![r] = answered[r] \cup answers \cup extra]
  BY <1>1 DEF Tell, HistoryTypes
<1>6. answers \cup extra \subseteq Answer
  BY DEF Answer
<1>7. /\ answered' \in [Request -> SUBSET Answer]
      /\ answered'[r] = answered[r] \cup answers \cup extra
      /\ \A s \in Request \ {r} : answered'[s] = answered[s]
  BY <1>1, <1>5, <1>6 DEF HistoryTypes
<1>8. "accepted" \in extra => "none" \notin disk[<<r, "claim">>]
  BY <1>1 DEF CallOK, ClaimOK
<1>9. \A s \in Request : RequestOK(s)'
  <2> SUFFICES ASSUME NEW s \in Request PROVE RequestOK(s)'
    OBVIOUS
  <2>1. RequestOK(s)
    BY DEF DurableInv
  <2>2. CASE s = r
    <3>1. "accepted" \in answered'[s] => "none" \notin disk[<<s, "claim">>]
      BY <1>7, <1>8, <2>1, <2>2 DEF RequestOK
    <3>2. "executed" \in answered'[s] => launches[s] = 1 /\ LedgerForGood(s)
      BY <1>7, <2>1, <2>2 DEF RequestOK
    <3> QED BY <2>1, <3>1, <3>2 DEF RequestOK, StartedForGood, LedgerForGood
  <2>3. CASE s # r
    BY <1>7, <2>1, <2>3 DEF RequestOK, StartedForGood, LedgerForGood
  <2> QED BY <2>2, <2>3
<1> QED BY <1>1, <1>2, <1>3, <1>4, <1>7, <1>9
      DEF DurableInv, TypeOK, StoreTypes, CallTypes, HistoryTypes

\* The completed answer is told of a ledger that is there for good.
LEMMA CompleteStep ==
  ASSUME DurableInv, NEW d \in Call, Complete(d)
  PROVE  DurableInv'
<1>1. pc[d] = "sealed" /\ unsynced[d] = Nothing
  BY DEF Complete, At
<1>2. launches[on[d]] = 1 /\ LedgerForGood(on[d])
  BY <1>1 DEF DurableInv, CallOK, StartOK, LedgerOK
<1>3. {"completed", "executed"} \in SUBSET {"completed", "executed"}
  OBVIOUS
<1>4. /\ Tell(d, {"completed", "executed"}) /\ Return(d)
      /\ UNCHANGED <<now, disk, asked, unsynced, launches>>
  BY DEF Complete
<1> QED BY <1>1, <1>2, <1>3, <1>4, TellStep

\* A reconciliation that answers tells of a completed request, not of an execution.
LEMMA ReconciledStep ==
  ASSUME DurableInv, NEW d \in Call, Reconciled(d)
  PROVE  DurableInv'
<1>1. pc[d] = "reconciled" /\ unsynced[d] = Nothing
  BY DEF Reconciled, At
<1>2. {"completed"} \in SUBSET {"completed", "executed"} /\ "executed" \notin {"completed"}
  OBVIOUS
<1>3. /\ Tell(d, {"completed"}) /\ Return(d)
      /\ UNCHANGED <<now, disk, asked, unsynced, launches>>
  BY DEF Reconciled
<1> QED BY <1>1, <1>2, <1>3, TellStep

\* A recovery tells nothing as completed.
LEMMA RecoveredStep ==
  ASSUME DurableInv, NEW d \in Call, Recovered(d)
  PROVE  DurableInv'
<1>1. pc[d] = "recovered" /\ unsynced[d] = Nothing
  BY DEF Recovered, At
<1>2. {} \in SUBSET {"completed", "executed"}
  OBVIOUS
<1>3. /\ Tell(d, {}) /\ Return(d)
      /\ UNCHANGED <<now, disk, asked, unsynced, launches>>
  BY DEF Recovered
<1> QED BY <1>1, <1>2, <1>3, TellStep

\* statusFromClaim answers, throws, reconciles or takes the request lock.
LEMMA StatusStep ==
  ASSUME DurableInv, NEW d \in Call, Status(d)
  PROVE  DurableInv'
<1>1. /\ pc[d] = "status" /\ unsynced[d] = Nothing
      /\ UNCHANGED <<now, disk, asked, unsynced, launches>>
  BY DEF Status, At
<1>2. CallTypes /\ CallOK(d)
  BY TypesSplit DEF DurableInv
<1>3. CASE Goto(d, "reconcile") /\ UNCHANGED <<on, lock, answered>>
  <2>1. "reconcile" \in Label /\ "reconcile" \notin Holding
    BY DEF Label, Holding
  <2>2. pc'[d] = "reconcile"
    BY <1>2, <1>3, <2>1 DEF Goto, CallTypes
  <2>3. StartOK(d)' /\ LedgerOK(d)'
    BY <2>2 DEF StartOK, LedgerOK, At
  <2> QED BY <1>1, <1>3, <2>1, <2>3, OnlyMoveStep
<1>4. CASE Return(d) /\ UNCHANGED answered
  <2>1. unsynced' \in [Call -> Entry \cup {Nothing}] /\ unsynced'[d] = Nothing
    BY <1>1, <1>2 DEF CallTypes
  <2> QED BY <1>1, <1>4, <2>1, ReturnStep
<1>5. CASE /\ lock[on[d]] = Nobody /\ lock' = [lock EXCEPT ![on[d]] = d]
           /\ Goto(d, "recheck") /\ UNCHANGED <<on, answered>>
  BY <1>1, <1>5, LockTakenStep
<1>6. CASE Tell(d, {}) /\ Return(d)
  <2>1. {} \in SUBSET {"completed", "executed"}
    OBVIOUS
  <2> QED BY <1>1, <1>6, <2>1, TellStep
<1> QED BY <1>3, <1>4, <1>5, <1>6 DEF Status

\* A call that fails lets go of what it had not synced.
LEMMA FaultStep ==
  ASSUME DurableInv, NEW d \in Call, Fault(d)
  PROVE  DurableInv'
<1>1. CallTypes
  BY TypesSplit DEF DurableInv
<1>2. /\ unsynced' \in [Call -> Entry \cup {Nothing}] /\ unsynced'[d] = Nothing
      /\ \A c \in Call \ {d} : unsynced'[c] = unsynced[c]
  BY <1>1 DEF Fault, CallTypes
<1> QED BY <1>2, ReturnStep DEF Fault

-----------------------------------------------------------------------------
(* Power losses, and the theorems.                                         *)

\* Every call is gone, and a claim or a run.json is one of the contents that
\* the disk could hold: what was for good still is.
LEMMA PowerLossStep ==
  ASSUME DurableInv, PowerLoss
  PROVE  DurableInv'
<1>1. CallTypes /\ StoreTypes /\ HistoryTypes
  BY TypesSplit DEF DurableInv
<1> DEFINE uncertain == {e \in Entry : disk[e] # {now[e]}}
<1>2. PICK kept \in [uncertain -> UNION {disk[e] : e \in uncertain}] :
        /\ \A e \in uncertain : kept[e] \in disk[e]
        /\ now' = Survivors(kept)
        /\ disk' = [e \in Entry |-> {Survivors(kept)[e]}]
  BY DEF PowerLoss
<1> DEFINE name(f) == IF f \in uncertain THEN kept[f] ELSE now[f]
<1>3. \A f \in Entry : name(f) \in disk[f] /\ name(f) \in Content
  BY <1>1, <1>2 DEF StoreTypes
<1>4. Survivors(kept) =
        [e \in Entry |-> IF e[2] = "artifacts" /\ name(<<e[1], "directory">>) = "none"
                           THEN "none" ELSE name(e)]
  <2>1. DOMAIN kept = uncertain
    BY <1>2
  <2> QED BY <2>1 DEF Survivors
<1>5. \A e \in Entry :
        /\ now'[e] \in Content /\ disk'[e] = {now'[e]}
        /\ e[2] # "artifacts" => now'[e] \in disk[e]
  <2> HIDE DEF name, uncertain
  <2>1. "none" \in Content
    BY DEF Content
  <2>2. \A e \in Entry :
          now'[e] = IF e[2] = "artifacts" /\ name(<<e[1], "directory">>) = "none"
                      THEN "none" ELSE name(e)
    BY <1>2, <1>4
  <2>3. \A e \in Entry : disk'[e] = {now'[e]}
    BY <1>2
  <2> QED BY <1>3, <2>1, <2>2, <2>3
<1>6. StoreTypes'
  <2>1. now' \in [Entry -> Content]
    <3>1. now' = [e \in Entry |-> now'[e]]
      BY <1>2, <1>4
    <3> QED BY <1>5, <3>1
  <2>2. disk' = [e \in Entry |-> {now'[e]}]
    BY <1>2
  <2> QED BY <1>5, <2>1, <2>2 DEF StoreTypes
<1>7. /\ pc' = [c \in Call |-> "idle"] /\ on' = [c \in Call |-> Nothing]
      /\ unsynced' = [c \in Call |-> Nothing] /\ lock' = [r \in Request |-> Nobody]
      /\ UNCHANGED <<asked, launches, answered>>
  BY DEF PowerLoss
<1>8. CallTypes' /\ HistoryTypes'
  BY <1>1, <1>7 DEF CallTypes, HistoryTypes, Label
<1>9. \A c \in Call : CallOK(c)'
  BY <1>7 DEF CallOK, PlaceOK, ClaimOK, StartOK, LedgerOK, At, Holding
<1>10. \A r \in Request : RequestOK(r)'
  <2> SUFFICES ASSUME NEW r \in Request PROVE RequestOK(r)'
    OBVIOUS
  <2>1. RequestOK(r)
    BY DEF DurableInv
  <2>2. /\ <<r, "claim">> \in Entry /\ <<r, "claim">>[2] # "artifacts"
        /\ <<r, "ledger">> \in Entry /\ <<r, "ledger">>[2] # "artifacts"
    BY EntriesOf
  <2>3. /\ disk'[<<r, "claim">>] \subseteq disk[<<r, "claim">>]
        /\ disk'[<<r, "ledger">>] \subseteq disk[<<r, "ledger">>]
        /\ disk'[<<r, "ledger">>] # {}
    BY <1>5, <2>2
  <2> QED BY <1>7, <2>1, <2>3 DEF RequestOK, StartedForGood, LedgerForGood
<1> QED BY <1>6, <1>8, <1>9, <1>10
      DEF DurableInv, TypeOK, StoreTypes, CallTypes, HistoryTypes

\* Nothing is on disk, so nothing has to be there for good.
LEMMA InitDurable == Init => DurableInv
<1> SUFFICES ASSUME Init PROVE DurableInv
  OBVIOUS
<1>1. TypeOK
  BY DEF Init, TypeOK, Content, Label, Answer
<1>2. \A c \in Call : CallOK(c)
  BY DEF Init, CallOK, PlaceOK, ClaimOK, StartOK, LedgerOK, At, Holding
<1>3. \A r \in Request : RequestOK(r)
  BY DEF Init, RequestOK
<1> QED BY <1>1, <1>2, <1>3 DEF DurableInv

\* Every step of every call, and a power loss, keeps the inductive invariant.
LEMMA NextDurable == DurableInv /\ [Next]_vars => DurableInv'
<1> SUFFICES ASSUME DurableInv, [Next]_vars PROVE DurableInv'
  OBVIOUS
<1>1. CASE PowerLoss
  BY <1>1, PowerLossStep
<1>2. CASE UNCHANGED vars
  BY <1>2 DEF vars, DurableInv, TypeOK, CallOK, PlaceOK, ClaimOK, StartOK, LedgerOK, RequestOK,
       At, Claim, StartedForGood, LedgerForGood
<1>3. ASSUME NEW c \in Call, NEW r \in Request, Submit(c, r) \/ Get(c, r)
      PROVE  DurableInv'
  BY <1>3, SubmitStep, GetStep
<1>4. ASSUME NEW c \in Call,
             \/ SyncDirectory(c) \/ AcquireLock(c) \/ Recheck(c)
             \/ PublishRun(c) \/ MakeRunDirectory(c) \/ StartRun(c) \/ Execute(c)
             \/ WriteArtifacts(c) \/ WriteRunRecord(c)
      PROVE  DurableInv'
  BY <1>4, SyncDirectoryStep, AcquireLockStep, RecheckStep, PublishRunStep, MakeRunDirectoryStep,
     StartRunStep, ExecuteStep, WriteArtifactsStep, WriteRunRecordStep
<1>5. ASSUME NEW c \in Call,
             Seal(c, "seal", "sealed") \/ Seal(c, "reconcile", "reconciled")
      PROVE  DurableInv'
  <2>1. CASE Seal(c, "seal", "sealed")
    BY <2>1, SealStep
  <2>2. CASE Seal(c, "reconcile", "reconciled")
    BY <2>2, SealStep
  <2> QED BY <1>5, <2>1, <2>2
<1>6. ASSUME NEW c \in Call,
             \/ Complete(c) \/ Reconciled(c) \/ Status(c)
             \/ Recover(c) \/ Recovered(c) \/ Fault(c)
      PROVE  DurableInv'
  BY <1>6, CompleteStep, ReconciledStep, StatusStep, RecoverStep, RecoveredStep, FaultStep
<1> QED BY <1>1, <1>2, <1>3, <1>4, <1>5, <1>6 DEF Next

\* What every call knows of the disk is true, and what is settled of a request
\* is on the disk for good, through any number of power losses.
THEOREM DurableInvariant == Spec => []DurableInv
BY InitDurable, NextDurable, PTL DEF Spec

\* OpenModelica starts at most once for a request id, and from then on neither
\* a fault nor a power loss takes the claim back to one that would start it again.
THEOREM ExecutesOnceForGood == Spec => []ExecutedOnceForGood
<1>1. DurableInv => ExecutedOnceForGood
  <2> SUFFICES ASSUME DurableInv, NEW r \in Request
               PROVE  launches[r] <= 1 /\ (launches[r] = 1 => Claim(r) \in Started)
    BY DEF ExecutedOnceForGood
  <2>1. RequestOK(r) /\ now[<<r, "claim">>] \in disk[<<r, "claim">>]
    BY EntriesOf DEF DurableInv, TypeOK
  <2> QED BY <2>1 DEF RequestOK, StartedForGood, Claim
<1> QED BY <1>1, DurableInvariant, PTL

\* A submit that answered, even one that only found the claim of another call,
\* left a claim that no power loss forgets.
THEOREM RequestIdsStayDurable == Spec => []RequestIdIsDurable
<1>1. DurableInv => RequestIdIsDurable
  <2> SUFFICES ASSUME DurableInv, NEW r \in Request, "accepted" \in answered[r]
               PROVE  Claim(r) # "none"
    BY DEF RequestIdIsDurable
  <2>1. RequestOK(r) /\ now[<<r, "claim">>] \in disk[<<r, "claim">>]
    BY EntriesOf DEF DurableInv, TypeOK
  <2> QED BY <2>1 DEF RequestOK, Claim
<1> QED BY <1>1, DurableInvariant, PTL

\* The run record of an execution that its caller was told is completed is
\* there after every power loss, beside a claim that leads to it.
THEOREM ExecutedLedgersSurvive == Spec => []ExecutedLedgerSurvives
<1>1. DurableInv => ExecutedLedgerSurvives
  <2> SUFFICES ASSUME DurableInv, NEW r \in Request, "executed" \in answered[r]
               PROVE  now[<<r, "ledger">>] = "whole" /\ Claim(r) \in Started
    BY DEF ExecutedLedgerSurvives
  <2>1. /\ RequestOK(r) /\ now[<<r, "claim">>] \in disk[<<r, "claim">>]
        /\ now[<<r, "ledger">>] \in disk[<<r, "ledger">>]
    BY EntriesOf DEF DurableInv, TypeOK
  <2> QED BY <2>1 DEF RequestOK, StartedForGood, LedgerForGood, Claim
<1> QED BY <1>1, DurableInvariant, PTL

=============================================================================
