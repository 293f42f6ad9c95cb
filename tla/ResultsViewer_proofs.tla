------------------------- MODULE ResultsViewer_proofs -------------------------
(***************************************************************************)
(* The results viewer, in two parts.                                       *)
(*                                                                         *)
(* ResultsViewer: it keeps no stale surface on the page, tells recorded    *)
(* content from the server's, is not taken back by a context change, and   *)
(* ends on the message that was queued last: for any number of host        *)
(* messages, clicks and context changes.  ViewerInv says how the router,   *)
(* the serial queue and the state of the app stay in step.                 *)
(*                                                                         *)
(* SessionAdmission: what is shown of one session is one run or one        *)
(* execution, whatever a host misplaces in it and however often, and a     *)
(* session in which nothing is misplaced is shown.  AdmissionInv says what *)
(* shape a session keeps, GenuineInv what refused it.                      *)
(***************************************************************************)
EXTENDS ResultsViewer, SessionAdmission, FiniteSetTheorems, SequenceTheorems, TLAPS

-----------------------------------------------------------------------------
(* The inductive invariant.                                                *)

\* Views that can be on the page; "run-id" is only navigated to.
Pages == {v \in Views : v.name # "run-id"}

MessageKind == ResultKind \cup SessionKind \cup {"input", "remount", "teardown"}
HostMessage == [kind : MessageKind, of : 0..MaxMessages]
DisplayKind == {"loading", "empty", "run-list", "run", "recorded-status", "error"}
Task == [generation : Nat, message : HostMessage]
Navigation == [view : Views, by : {"task", "user"}]

TypesOK ==
  /\ resource \in {"run", "run-list"}
  /\ sent \in 0..MaxMessages /\ latest \in 0..MaxMessages /\ generation \in Nat
  /\ parsing \subseteq [kind : SessionKind, of : 0..MaxMessages]
  /\ queue \in Seq(Task) /\ router \in Seq(Navigation)
  /\ task \in {"idle", "parsing", "navigating"}
  /\ at \in {"idle", "leaving", "calling", "looking-up"}
  /\ session \in 0..MaxMessages \cup {None}
  /\ admitted \in Pages \cup {None}
  /\ active \in Pages \cup {None, Pending}
  /\ display \in [kind : DisplayKind, view : Pages]
  /\ shown \in [view : Pages, render : Nat, badge : {"RECORDED", "EVIDENCE", "none"}]
  /\ chosen \in Views \cup {None}

\* What the router ends on.
EndsOn == router[Len(router)]

\* The running task is the head of the queue; the navigation it waits for is
\* the last of the router, behind at most the one that a click asked for.
OrderOK ==
  /\ task # "idle" => queue # <<>>
  /\ task = "parsing" => Head(queue).message.kind \in {"capture", "bad-capture"}
  /\ \A i \in 1..Len(router) : router[i].by = "task" <=> i = Len(router) /\ task = "navigating"
  /\ \A i \in 1..Len(router) :
       IF router[i].by = "user" THEN router[i].view.name \in {"run-id", "list"}
                                ELSE router[i].view.name # "run-id"
  /\ task = "navigating" => router # <<>>
  /\ task # "navigating" => Len(router) <= 1
  /\ at # "idle" => router # <<>>
  /\ at \in {"calling", "looking-up"} => Head(router).view.name = "run-id"

\* A mount that is still the newest is for the view on the page, and none is
\* while a view is being left.
SurfaceOK ==
  /\ SurfaceTypeOK
  /\ \A m \in mounts :
       /\ m.generation <= surface
       /\ m.generation = surface => m.render = shown.render /\ at = "idle"
  /\ NoStaleSurface

\* What a context change would navigate to is the page, unless a navigation is
\* under way; while a run loads it is nothing.
EnteredOK ==
  /\ admitted # None => admitted.name = "admitted" /\ active = None
  /\ task = "parsing" => admitted = None
  /\ at \in {"calling", "looking-up"} => admitted = None /\ active = Pending
  /\ \A i \in 1..Len(router) : router[i].view.name = "status" => admitted = None
  /\ router = <<>> =>
       IF shown.view.name = "admitted" THEN active = None /\ admitted \in {None, shown.view}
                                       ELSE active = shown.view /\ admitted = None

\* This view is the one that was asked for last, or the run of that id.
Leads(view) ==
  \/ view = chosen
  \/ chosen.name = "run-id" /\ view.name = "detail" /\ view.of = chosen.of

\* Where the router, and then the page, ends.
ChosenOK ==
  chosen # None => /\ router # <<>> => Leads(EndsOn.view)
                   /\ router = <<>> => Leads(shown.view)

\* The session in the state is the source of this view; the display, of a status.
Told(view) ==
  /\ view.name \in {"list", "detail"} => (view.recorded <=> session # None)
  /\ view.name = "status" => (view.recorded <=> display.kind = "recorded-status")

\* The page may lag behind the session only while a task's navigation is still
\* to come. A capture's parser may be awaited under an old page, but only in the
\* resource that has no recorded lists.
BadgeOK ==
  /\ router # <<>> => Told(EndsOn.view)
  /\ task = "idle" => active \in {None, Pending} \/ Told(active)
  /\ task # "navigating" /\ at \in {"calling", "looking-up"} =>
       (at = "looking-up" <=> session # None)
  /\ display.kind = "run-list" => /\ display.view.name = "list" /\ Told(display.view)
                                  /\ resource = "run" => session = None
  /\ task = "parsing" => session = None
  /\ resource = "run" /\ session # None =>
       /\ router # <<>> => task = "navigating" /\ EndsOn.view.name \notin {"list", "run-id"}
       /\ task # "navigating" => /\ shown.view.name # "list"
                                 /\ active \in {None, Pending} \/ active.name # "list"
  /\ BadgeTellsSource

\* A queued task that is not void and shows a message.
Current(i) == queue[i].generation = generation /\ queue[i].message.kind # "remount"

\* The newest of them has not asked for its navigation yet.
ReplacePending == \E i \in 1..Len(queue) : Current(i) /\ (i > 1 \/ task # "navigating")

\* Behind a void task comes the one that made it void.
QueueOK ==
  \A i \in 1..Len(queue) :
    /\ queue[i].generation <= generation
    /\ queue[i].generation # generation => \E j \in 1..Len(queue) : j > i /\ Current(j)
    /\ Current(i) /\ torn = "no" => queue[i].message.of = latest

\* Once the newest message has asked for its navigation, all that a click or a
\* context change can still navigate to is of that message.
LatestOK ==
  torn = "no" /\ ~ ReplacePending =>
    /\ router # <<>> => EndsOn.view.of = latest
    /\ router = <<>> => shown.view.of = latest
    /\ task # "navigating" =>
         /\ active \in {None, Pending} \/ active.of = latest
         /\ admitted = None \/ admitted.of = latest
    /\ display.kind = "run-list" =>
         \/ display.view.of = latest
         \/ /\ router # <<>> => task = "navigating" /\ EndsOn.view.name = "admitted"
            /\ task # "navigating" => shown.view.name = "admitted" /\ active = None

ViewerInv ==
  /\ TypesOK /\ OrderOK /\ SurfaceOK /\ EnteredOK /\ ChosenOK
  /\ BadgeOK /\ QueueOK /\ LatestOK

-----------------------------------------------------------------------------
(* Sequences and messages.                                                 *)

\* What is appended becomes the last element; nothing else moves.
LEMMA Appended ==
  ASSUME NEW S, NEW s \in Seq(S), NEW e \in S
  PROVE  /\ Append(s, e) \in Seq(S) /\ Append(s, e) # <<>>
         /\ Len(s) \in Nat /\ Len(Append(s, e)) = Len(s) + 1
         /\ Append(s, e)[Len(s) + 1] = e
         /\ \A i \in 1..Len(s) : Append(s, e)[i] = s[i]
         /\ s # <<>> => Head(Append(s, e)) = Head(s)
         /\ s = <<>> <=> Len(s) = 0
<1>1. /\ Append(s, e) \in Seq(S) /\ Len(s) \in Nat /\ Len(Append(s, e)) = Len(s) + 1
      /\ Append(s, e)[Len(s) + 1] = e
      /\ \A i \in 1..Len(s) : Append(s, e)[i] = s[i]
  OBVIOUS
<1>2. s = <<>> <=> Len(s) = 0
  OBVIOUS
<1>3. Append(s, e) # <<>>
  BY <1>1
<1>4. s # <<>> => Head(Append(s, e)) = Head(s)
  BY <1>1, <1>2, <1>3
<1> QED BY <1>1, <1>2, <1>3, <1>4

\* Without its head a sequence has its other elements, the last one among them.
LEMMA Rest ==
  ASSUME NEW S, NEW s \in Seq(S), s # <<>>
  PROVE  /\ Tail(s) \in Seq(S) /\ Head(s) = s[1] /\ s[1] \in S
         /\ Len(s) \in Nat /\ Len(s) >= 1 /\ Len(Tail(s)) = Len(s) - 1
         /\ \A i \in 1..(Len(s) - 1) : Tail(s)[i] = s[i + 1]
         /\ Tail(s) = <<>> <=> Len(s) = 1
         /\ s[Len(s)] \in S
<1>1. Len(s) \in Nat /\ Len(s) >= 1
  OBVIOUS
<1>2. /\ Tail(s) \in Seq(S) /\ Len(Tail(s)) = Len(s) - 1
      /\ \A i \in 1..(Len(s) - 1) : Tail(s)[i] = s[i + 1]
  BY <1>1
<1>3. Head(s) = s[1] /\ s[1] \in S /\ s[Len(s)] \in S
  BY <1>1
<1>4. Tail(s) = <<>> <=> Len(s) = 1
  BY <1>1, <1>2
<1> QED BY <1>1, <1>2, <1>3, <1>4

\* The view of a message is a page of that message, and its kind tells which.
LEMMA MessageViews ==
  ASSUME resource \in {"run", "run-list"}, NEW m \in HostMessage
  PROVE  /\ ViewOf(m) \in Pages /\ ViewOf(m).of = m.of
         /\ ViewOf(m).name = "list" <=> m.kind \in Listing
         /\ ViewOf(m).name = "detail" <=> m.kind \in WholeRun
         /\ ViewOf(m).name = "admitted" <=> m.kind \in {"capture", "admitted"}
         /\ ViewOf(m).recorded <=> m.kind \in Recorded \cup {"admitted", "admitted-status"}
         /\ DisplayOf(m) \in DisplayKind
         /\ DisplayOf(m) = "run-list" <=> m.kind \in {"list", "recorded-list"}
         /\ ViewOf(m).name = "status" =>
              (ViewOf(m).recorded <=> DisplayOf(m) = "recorded-status")
<1>1. \A name \in {"list", "detail", "admitted", "status"} :
        /\ View(name, m) \in Pages /\ View(name, m).of = m.of /\ View(name, m).name = name
        /\ View(name, m).recorded <=> m.kind \in Recorded \cup {"admitted", "admitted-status"}
  <2> SUFFICES ASSUME NEW name \in {"list", "detail", "admitted", "status"}
               PROVE  /\ View(name, m) \in Pages /\ View(name, m).of = m.of
                      /\ View(name, m).name = name
                      /\ View(name, m).recorded <=> m.kind \in Recorded \cup {"admitted", "admitted-status"}
    OBVIOUS
  <2>1. \A full, recorded \in BOOLEAN :
          [name |-> name, of |-> m.of, full |-> full, recorded |-> recorded] \in Pages
    BY DEF HostMessage, Pages, Views
  <2>2. View(name, m) \in Pages
    <3> DEFINE full == m.kind \notin {"empty", "recorded-empty"}
               recorded == m.kind \in Recorded \cup {"admitted", "admitted-status"}
    <3>1. full \in BOOLEAN /\ recorded \in BOOLEAN
      OBVIOUS
    <3>2. View(name, m) = [name |-> name, of |-> m.of, full |-> full, recorded |-> recorded]
      BY DEF View
    <3> HIDE DEF full, recorded
    <3> QED BY <2>1, <3>1, <3>2, Zenon
  <2>3. View(name, m).of = m.of /\ View(name, m).name = name
    BY DEF View
  <2>4. View(name, m).recorded <=> m.kind \in Recorded \cup {"admitted", "admitted-status"}
    BY DEF View
  <2> QED BY <2>2, <2>3, <2>4
<1>2. ViewOf(m) = View(CASE m.kind \in Listing -> "list"
                         [] m.kind \in WholeRun -> "detail"
                         [] m.kind \in {"capture", "admitted"} -> "admitted"
                         [] OTHER -> "status", m)
  BY DEF ViewOf, Listing, WholeRun
<1>3. /\ DisplayOf(m) \in DisplayKind
      /\ DisplayOf(m) = "run-list" <=> m.kind \in {"list", "recorded-list"}
      /\ DisplayOf(m) = "recorded-status" <=> m.kind \in {"recorded-status", "admitted-status"}
  BY DEF DisplayOf, DisplayKind, WholeRun
<1> DEFINE name == CASE m.kind \in Listing -> "list"
                     [] m.kind \in WholeRun -> "detail"
                     [] m.kind \in {"capture", "admitted"} -> "admitted"
                     [] OTHER -> "status"
<1>4. /\ name \in {"list", "detail", "admitted", "status"}
      /\ name = "list" <=> m.kind \in Listing
      /\ name = "detail" <=> m.kind \in WholeRun
      /\ name = "admitted" <=> m.kind \in {"capture", "admitted"}
      /\ name = "status" => (m.kind \in Recorded \cup {"admitted", "admitted-status"}
                                <=> m.kind \in {"recorded-status", "admitted-status"})
  BY DEF Listing, WholeRun, Recorded
<1>5. ViewOf(m) = View(name, m)
  BY <1>2
<1> HIDE DEF name
<1> QED BY <1>1, <1>3, <1>4, <1>5

\* The kinds of messages depend on the resource only, which never changes.
LEMMA SameKinds ==
  ASSUME resource' = resource
  PROVE  SessionKind' = SessionKind /\ HostMessage' = HostMessage /\ Task' = Task
BY DEF SessionKind, ResultKind, MessageKind, HostMessage, Task

\* The kinds that the tasks tell apart.
LEMMA Kinds ==
  ASSUME resource \in {"run", "run-list"}
  PROVE  /\ \A k \in MessageKind :
              k \in {"capture", "bad-capture", "admitted", "admitted-status", "recorded-run"} =>
                resource = "run"
         /\ "recorded-list" \in MessageKind => resource = "run-list"
         /\ \A k \in Recorded : k \notin {"remount", "teardown", "capture", "admitted"}
         /\ SessionKind \subseteq MessageKind /\ ResultKind \subseteq MessageKind
         /\ {"input", "remount", "teardown"} \subseteq MessageKind
         /\ "remount" \notin SessionKind \cup ResultKind \cup {"input"}
BY DEF SessionKind, ResultKind, MessageKind, Recorded

-----------------------------------------------------------------------------
(* The queue.                                                              *)

\* A replace makes every task before it void and waits for its turn.
LEMMA QueueReplaced ==
  ASSUME TypesOK, OrderOK, QueueOK, NEW m \in HostMessage, m.kind # "remount", Replace(m),
         torn' = "no" => m.of = latest', resource' = resource
  PROVE  /\ queue' \in Seq(Task') /\ generation' \in Nat
         /\ QueueOK' /\ ReplacePending'
         /\ queue' # <<>> /\ (queue # <<>> => Head(queue') = Head(queue))
<1> DEFINE new == [generation |-> generation + 1, message |-> m]
<1>1. /\ queue \in Seq(Task) /\ generation \in Nat /\ Task' = Task
      /\ queue' = Append(queue, new) /\ generation' = generation + 1 /\ task' = task
  BY SameKinds DEF TypesOK, Replace
<1>2. new \in Task /\ new.generation = generation + 1 /\ new.message = m
  BY <1>1 DEF Task
<1>n. PICK n \in Nat : n = Len(queue)
  BY <1>1
<1> HIDE DEF new
<1>3. /\ queue' \in Seq(Task) /\ queue' # <<>> /\ Len(queue) = n
      /\ Len(queue') = n + 1 /\ queue'[n + 1] = new
      /\ \A i \in 1..n : queue'[i] = queue[i] /\ queue[i] \in Task
      /\ (queue # <<>> => Head(queue') = Head(queue)) /\ (queue = <<>> <=> Len(queue) = 0)
  BY <1>1, <1>2, <1>n, Appended
<1>4. Current(n + 1)'
  BY <1>1, <1>2, <1>3 DEF Current
<1>5. \A i \in 1..n : queue'[i].generation < generation' /\ ~ Current(i)'
  BY <1>1, <1>3 DEF QueueOK, Current, Task
<1>6. QueueOK'
  <2> SUFFICES ASSUME NEW i \in 1..(n + 1)
               PROVE  /\ queue'[i].generation <= generation'
                      /\ queue'[i].generation # generation' =>
                           \E j \in 1..Len(queue') : j > i /\ Current(j)'
                      /\ Current(i)' /\ torn' = "no" => queue'[i].message.of = latest'
    BY <1>3 DEF QueueOK
  <2>1. CASE i = n + 1
    BY <1>1, <1>2, <1>3, <2>1
  <2>2. CASE i # n + 1
    <3>1. i \in 1..n /\ n + 1 > i /\ n + 1 \in 1..Len(queue')
      BY <1>3, <2>2
    <3> QED BY <1>1, <1>3, <1>4, <1>5, <3>1 DEF Task
  <2> QED BY <2>1, <2>2
<1>7. ReplacePending'
  <2>1. n + 1 > 1 \/ task' # "navigating"
    BY <1>1, <1>3 DEF OrderOK
  <2> QED BY <1>3, <1>4, <2>1 DEF ReplacePending
<1> QED BY <1>1, <1>3, <1>6, <1>7

\* A context change joins the tasks that are not void.
LEMMA QueueRemounted ==
  ASSUME TypesOK, OrderOK, QueueOK,
         queue' = Append(queue, [generation |-> generation,
                                 message |-> [kind |-> "remount", of |-> latest]]),
         UNCHANGED <<generation, task, torn, latest, resource>>
  PROVE  /\ queue' \in Seq(Task')
         /\ QueueOK' /\ (ReplacePending' => ReplacePending) /\ (ReplacePending => ReplacePending')
         /\ queue' # <<>> /\ (queue # <<>> => Head(queue') = Head(queue))
<1> DEFINE new == [generation |-> generation, message |-> [kind |-> "remount", of |-> latest]]
<1>1. queue \in Seq(Task) /\ generation \in Nat /\ Task' = Task /\ queue' = Append(queue, new)
  BY SameKinds DEF TypesOK
<1>2. new \in Task /\ new.generation = generation /\ new.message.kind = "remount"
  BY <1>1, Kinds DEF Task, HostMessage, TypesOK
<1>n. PICK n \in Nat : n = Len(queue)
  BY <1>1
<1> HIDE DEF new
<1>3. /\ queue' \in Seq(Task) /\ queue' # <<>> /\ Len(queue) = n
      /\ Len(queue') = n + 1 /\ queue'[n + 1] = new
      /\ \A i \in 1..n : queue'[i] = queue[i]
      /\ (queue # <<>> => Head(queue') = Head(queue))
  BY <1>1, <1>2, <1>n, Appended
<1>4. ~ Current(n + 1)' /\ \A i \in 1..n : Current(i)' <=> Current(i)
  BY <1>2, <1>3 DEF Current
<1>5. QueueOK'
  <2> SUFFICES ASSUME NEW i \in 1..(n + 1)
               PROVE  /\ queue'[i].generation <= generation
                      /\ queue'[i].generation # generation =>
                           \E j \in 1..Len(queue') : j > i /\ Current(j)'
                      /\ Current(i)' /\ torn = "no" => queue'[i].message.of = latest
    BY <1>3 DEF QueueOK
  <2>1. CASE i = n + 1
    BY <1>1, <1>2, <1>3, <1>4, <2>1
  <2>2. CASE i # n + 1
    <3>1. i \in 1..n /\ 1..n \subseteq 1..Len(queue')
      BY <1>3, <2>2
    <3> QED BY <1>3, <1>4, <3>1 DEF QueueOK
  <2> QED BY <2>1, <2>2
<1>6. (ReplacePending' => ReplacePending) /\ (ReplacePending => ReplacePending')
  <2>1. ASSUME ReplacePending' PROVE ReplacePending
    <3>1. PICK i \in 1..Len(queue') : Current(i)' /\ (i > 1 \/ task' # "navigating")
      BY <2>1 DEF ReplacePending
    <3>2. i \in 1..n
      BY <1>3, <1>4, <3>1
    <3> QED BY <1>3, <1>4, <3>1, <3>2 DEF ReplacePending
  <2>2. ASSUME ReplacePending PROVE ReplacePending'
    BY <1>3, <1>4, <2>2 DEF ReplacePending
  <2> QED BY <2>1, <2>2
<1> QED BY <1>1, <1>3, <1>5, <1>6

\* When the head of the queue goes, the tasks behind it move up.
LEMMA HeadGone ==
  ASSUME TypesOK, QueueOK, queue # <<>>, queue' = Tail(queue), task' = "idle",
         UNCHANGED <<generation, latest, resource>>, torn' = "no" => torn = "no"
  PROVE  /\ queue' \in Seq(Task') /\ QueueOK'
         /\ (\E i \in 1..Len(queue) : i > 1 /\ Current(i)) => ReplacePending'
<1>1. /\ queue' \in Seq(Task) /\ Len(queue) \in Nat /\ Len(queue) >= 1 /\ Task' = Task
      /\ Len(queue') = Len(queue) - 1
      /\ \A i \in 1..(Len(queue) - 1) : queue'[i] = queue[i + 1]
  BY Rest, SameKinds DEF TypesOK
<1>2. \A i \in 1..(Len(queue) - 1) : (Current(i)' <=> Current(i + 1))
  BY <1>1 DEF Current
<1>3. \A j \in 1..Len(queue) : j > 1 => j - 1 \in 1..Len(queue') /\ (Current(j - 1)' <=> Current(j))
  <2> SUFFICES ASSUME NEW j \in 1..Len(queue), j > 1
               PROVE  j - 1 \in 1..Len(queue') /\ (Current(j - 1)' <=> Current(j))
    OBVIOUS
  <2>1. j - 1 \in 1..(Len(queue) - 1) /\ (j - 1) + 1 = j
    BY <1>1
  <2> QED BY <1>1, <1>2, <2>1
<1>4. QueueOK'
  <2> SUFFICES ASSUME NEW i \in 1..Len(queue')
               PROVE  /\ queue'[i].generation <= generation
                      /\ queue'[i].generation # generation =>
                           \E j \in 1..Len(queue') : j > i /\ Current(j)'
                      /\ Current(i)' /\ torn' = "no" => queue'[i].message.of = latest
    BY DEF QueueOK
  <2>1. i \in 1..(Len(queue) - 1) /\ i + 1 \in 1..Len(queue) /\ queue'[i] = queue[i + 1]
    BY <1>1
  <2>2. queue'[i].generation <= generation
    BY <2>1 DEF QueueOK
  <2>3. Current(i)' /\ torn' = "no" => queue'[i].message.of = latest
    BY <1>2, <2>1 DEF QueueOK
  <2>4. ASSUME queue'[i].generation # generation
        PROVE  \E j \in 1..Len(queue') : j > i /\ Current(j)'
    <3>1. PICK j \in 1..Len(queue) : j > i + 1 /\ Current(j)
      BY <2>1, <2>4 DEF QueueOK
    <3>2. j - 1 \in 1..Len(queue') /\ Current(j - 1)' /\ j - 1 > i
      BY <1>1, <1>3, <2>1, <3>1
    <3> QED BY <3>2
  <2> QED BY <2>2, <2>3, <2>4
<1>5. ASSUME NEW i \in 1..Len(queue), i > 1, Current(i) PROVE ReplacePending'
  <2>1. i - 1 \in 1..Len(queue') /\ Current(i - 1)'
    BY <1>3, <1>5
  <2> QED BY <2>1 DEF ReplacePending
<1> QED BY <1>1, <1>4, <1>5

-----------------------------------------------------------------------------
(* The router.                                                             *)

\* A navigation that is asked for becomes the last one.
LEMMA Navigated ==
  ASSUME TypesOK, NEW v \in Views, NEW by \in {"task", "user"}, Navigate(v, by)
  PROVE  /\ router' \in Seq(Navigation) /\ router' # <<>>
         /\ Len(router) \in Nat /\ Len(router') = Len(router) + 1
         /\ router'[Len(router')] = [view |-> v, by |-> by] /\ EndsOn' = [view |-> v, by |-> by]
         /\ \A i \in 1..Len(router) : router'[i] = router[i]
         /\ router # <<>> => Head(router') = Head(router)
         /\ router = <<>> => Len(router) = 0 /\ Head(router') = [view |-> v, by |-> by]
<1> DEFINE e == [view |-> v, by |-> by]
<1>1. router \in Seq(Navigation) /\ e \in Navigation /\ router' = Append(router, e)
  BY DEF TypesOK, Navigate, Navigation
<1> HIDE DEF e
<1>2. /\ router' \in Seq(Navigation) /\ router' # <<>>
      /\ Len(router) \in Nat /\ Len(router') = Len(router) + 1 /\ router'[Len(router) + 1] = e
      /\ \A i \in 1..Len(router) : router'[i] = router[i]
      /\ router # <<>> => Head(router') = Head(router)
      /\ router = <<>> => Len(router) = 0
  BY <1>1, Appended
<1>3. router'[Len(router')] = e /\ EndsOn' = e
  BY <1>2 DEF EndsOn
<1>4. router = <<>> => Head(router') = e
  BY <1>2, Rest
<1> QED BY <1>2, <1>3, <1>4 DEF e

\* A navigation that is over leaves the rest of the router as it was.
LEMMA Routed ==
  ASSUME TypesOK, OrderOK, router # <<>>, router' = Tail(router)
  PROVE  /\ router' \in Seq(Navigation) /\ Head(router) = router[1]
         /\ Len(router) \in Nat /\ Len(router) >= 1 /\ Len(router') = Len(router) - 1
         /\ \A i \in 1..Len(router') : router'[i] = router[i + 1] /\ i + 1 \in 1..Len(router)
         /\ router' = <<>> <=> Len(router) = 1
         /\ router' # <<>> => EndsOn' = EndsOn /\ task = "navigating" /\ Head(router).by = "user"
         /\ router' = <<>> => EndsOn = Head(router)
         /\ Head(router) \in Navigation
         /\ Head(router).by = "task" <=> router' = <<>> /\ task = "navigating"
<1>1. /\ router' \in Seq(Navigation) /\ Head(router) = router[1] /\ router[1] \in Navigation
      /\ Len(router) \in Nat /\ Len(router) >= 1 /\ Len(router') = Len(router) - 1
      /\ \A i \in 1..(Len(router) - 1) : router'[i] = router[i + 1]
      /\ router' = <<>> <=> Len(router) = 1
  BY Rest DEF TypesOK
<1>2. \A i \in 1..Len(router') : router'[i] = router[i + 1] /\ i + 1 \in 1..Len(router)
  BY <1>1
<1>3. router' = <<>> => EndsOn = Head(router)
  BY <1>1 DEF EndsOn
<1>4. Head(router).by = "task" <=> Len(router) = 1 /\ task = "navigating"
  <2>1. 1 \in 1..Len(router)
    BY <1>1
  <2>2. router[1].by = "task" <=> 1 = Len(router) /\ task = "navigating"
    BY <2>1 DEF OrderOK
  <2> QED BY <1>1, <2>2
<1>5. router' # <<>> => task = "navigating" /\ Head(router).by = "user"
  <2>1. Head(router).by \in {"task", "user"}
    BY <1>1 DEF Navigation
  <2>2. task # "navigating" => Len(router) <= 1
    BY DEF OrderOK
  <2>3. Len(router) \in Nat /\ Len(router) >= 1 /\ (router' # <<>> => Len(router) # 1)
    BY <1>1
  <2> QED BY <1>4, <2>1, <2>2, <2>3
<1>6. ASSUME router' # <<>> PROVE EndsOn' = EndsOn
  <2>1. Len(router') \in 1..Len(router')
    BY <1>1, <1>6
  <2>2. router'[Len(router')] = router[Len(router') + 1] /\ Len(router') + 1 = Len(router)
    BY <1>1, <1>2, <2>1
  <2> QED BY <2>2 DEF EndsOn
<1> QED BY <1>1, <1>2, <1>3, <1>4, <1>5, <1>6

-----------------------------------------------------------------------------
(* One lemma per kind of step.                                             *)

\* What is only queued changes nothing on the page.
LEMMA QueuedStep ==
  ASSUME ViewerInv,
         UNCHANGED <<surfaceVars, task, routerVars, stateVars, resource, shown, chosen>>,
         sent' \in 0..MaxMessages, latest' \in 0..MaxMessages, generation' \in Nat,
         parsing' \subseteq [kind : SessionKind, of : 0..MaxMessages],
         queue' \in Seq(Task'), QueueOK',
         queue # <<>> => queue' # <<>> /\ Head(queue') = Head(queue),
         torn' = "no" /\ ~ ReplacePending' => torn = "no" /\ ~ ReplacePending /\ latest' = latest
  PROVE  ViewerInv'
<1>1. TypesOK'
  BY SameKinds DEF ViewerInv, TypesOK, routerVars, stateVars
<1>2. OrderOK' /\ EnteredOK'
  BY DEF ViewerInv, OrderOK, EnteredOK, routerVars, stateVars
<1>6. ChosenOK'
  BY DEF ViewerInv, ChosenOK, Leads, EndsOn, routerVars
<1>3. SurfaceOK'
  BY DEF ViewerInv, SurfaceOK, SurfaceTypeOK, NoStaleSurface, Mounted, surfaceVars, routerVars
<1>4. BadgeOK'
  BY DEF ViewerInv, BadgeOK, BadgeTellsSource, Told, EndsOn, routerVars, stateVars
<1>5. LatestOK'
  BY DEF ViewerInv, LatestOK, EndsOn, routerVars, stateVars
<1> QED BY <1>1, <1>2, <1>3, <1>4, <1>5, <1>6 DEF ViewerInv

\* A message of the host is queued as a replace.
LEMMA ToolMessageStep ==
  ASSUME ViewerInv, ToolMessage
  PROVE  ViewerInv'
<1>1. PICK kind \in ResultKind \cup {"input"} : Replace(Message(kind))
  BY DEF ToolMessage
<1>2. /\ resource \in {"run", "run-list"} /\ sent \in 0..MaxMessages /\ sent < MaxMessages
      /\ sent' = sent + 1 /\ latest' = sent + 1 /\ MaxMessages \in Nat
      /\ UNCHANGED <<surfaceVars, task, routerVars, stateVars, resource, parsing, shown, chosen>>
  BY ViewerBounds DEF ViewerInv, TypesOK, ToolMessage, Replace
<1>3. /\ Message(kind) \in HostMessage /\ Message(kind).kind # "remount"
      /\ Message(kind).of = latest' /\ sent' \in 0..MaxMessages /\ latest' \in 0..MaxMessages
  BY <1>2, Kinds DEF Message, HostMessage
<1>4. /\ queue' \in Seq(Task') /\ generation' \in Nat /\ QueueOK' /\ ReplacePending'
      /\ (queue # <<>> => queue' # <<>> /\ Head(queue') = Head(queue))
  BY <1>1, <1>2, <1>3, QueueReplaced DEF ViewerInv
<1> QED BY <1>2, <1>3, <1>4, QueuedStep DEF ViewerInv, TypesOK

\* A session waits for its fingerprint, outside the queue.
LEMMA SessionArrivesStep ==
  ASSUME ViewerInv, SessionArrives
  PROVE  ViewerInv'
<1>1. PICK kind \in SessionKind : parsing' = parsing \cup {Message(kind)}
  BY DEF SessionArrives
<1>2. /\ sent \in 0..MaxMessages /\ sent < MaxMessages /\ sent' = sent + 1 /\ MaxMessages \in Nat
      /\ parsing \subseteq [kind : SessionKind, of : 0..MaxMessages]
      /\ UNCHANGED <<surfaceVars, task, queue, generation, routerVars, stateVars, resource,
                     shown, chosen, torn, latest>>
  BY ViewerBounds DEF ViewerInv, TypesOK, SessionArrives, transitionVars
<1>3. sent' \in 0..MaxMessages /\ parsing' \subseteq [kind : SessionKind, of : 0..MaxMessages]
  BY <1>1, <1>2 DEF Message
<1>4. QueueOK' /\ (ReplacePending' <=> ReplacePending) /\ queue' \in Seq(Task')
  BY <1>2, SameKinds DEF ViewerInv, TypesOK, QueueOK, ReplacePending, Current
<1> QED BY <1>2, <1>3, <1>4, QueuedStep DEF ViewerInv, TypesOK

\* A session whose fingerprint is known is queued as a replace.
LEMMA SessionParsedStep ==
  ASSUME ViewerInv, NEW m \in parsing, SessionParsed(m)
  PROVE  ViewerInv'
<1>1. /\ resource \in {"run", "run-list"} /\ latest' = m.of /\ Replace(m)
      /\ m \in [kind : SessionKind, of : 0..MaxMessages]
      /\ parsing' \subseteq parsing
      /\ UNCHANGED <<surfaceVars, task, routerVars, stateVars, resource, sent, shown, chosen>>
  BY DEF ViewerInv, TypesOK, SessionParsed, Replace, budgetVars
<1>2. m \in HostMessage /\ m.kind # "remount" /\ latest' \in 0..MaxMessages
  BY <1>1, Kinds DEF HostMessage
<1>3. /\ queue' \in Seq(Task') /\ generation' \in Nat /\ QueueOK' /\ ReplacePending'
      /\ (queue # <<>> => queue' # <<>> /\ Head(queue') = Head(queue))
  BY <1>1, <1>2, QueueReplaced DEF ViewerInv
<1> QED BY <1>1, <1>2, <1>3, QueuedStep DEF ViewerInv, TypesOK

\* A context change is queued in the generation of what it follows.
LEMMA ContextChangesStep ==
  ASSUME ViewerInv, ContextChanges
  PROVE  ViewerInv'
<1>1. /\ queue' \in Seq(Task') /\ QueueOK' /\ (ReplacePending => ReplacePending')
      /\ (queue # <<>> => queue' # <<>> /\ Head(queue') = Head(queue))
  BY QueueRemounted DEF ViewerInv, ContextChanges
<1> QED BY <1>1, QueuedStep DEF ViewerInv, TypesOK, ContextChanges

\* After the request to tear down, no message has the last word any more.
LEMMA TeardownStep ==
  ASSUME ViewerInv, Teardown
  PROVE  ViewerInv'
<1> DEFINE m == [kind |-> "teardown", of |-> latest]
<1>1. m \in HostMessage /\ m.kind # "remount" /\ torn' = "asked"
  BY Kinds DEF ViewerInv, TypesOK, Teardown, HostMessage
<1>2. /\ queue' \in Seq(Task') /\ generation' \in Nat /\ QueueOK'
      /\ (queue # <<>> => queue' # <<>> /\ Head(queue') = Head(queue))
  BY <1>1, QueueReplaced DEF ViewerInv, Teardown, budgetVars
<1> QED BY <1>1, <1>2, QueuedStep DEF ViewerInv, TypesOK, Teardown, Replace, budgetVars

\* A click navigates from a page that nothing is about to leave.
LEMMA ClickStep ==
  ASSUME ViewerInv, Clickable, NEW v \in Views, Choose(v, "user"),
         UNCHANGED <<surfaceVars, transitionVars, stateVars, resource, sent, parsing, shown,
                     torn, latest>>,
         v.name \in {"run-id", "list"}, Told(v) \/ v.name = "run-id",
         resource = "run" => session = None,
         ~ ReplacePending /\ torn = "no" => v.of = latest,
         ~ ReplacePending /\ torn = "no" /\ display.kind = "run-list" => display.view.of = latest
  PROVE  ViewerInv'
<1>1. /\ router = <<>> /\ task # "navigating" /\ at = "idle" /\ task' = task /\ at' = at
      /\ Navigate(v, "user") /\ chosen' = v
      /\ UNCHANGED <<queue, generation, session, admitted, active, display>>
  BY DEF Clickable, ViewerInv, TypesOK, OrderOK, Choose, Navigate, transitionVars, stateVars
<1>2. /\ router' \in Seq(Navigation) /\ router' # <<>> /\ Len(router') = 1
      /\ router'[1] = [view |-> v, by |-> "user"] /\ EndsOn' = [view |-> v, by |-> "user"]
      /\ Head(router') = [view |-> v, by |-> "user"]
  <2>1. "user" \in {"task", "user"} /\ TypesOK
    BY DEF ViewerInv
  <2>2. /\ router' \in Seq(Navigation) /\ router' # <<>>
        /\ Len(router) = 0 /\ Len(router') = Len(router) + 1
        /\ router'[Len(router')] = [view |-> v, by |-> "user"]
        /\ EndsOn' = [view |-> v, by |-> "user"] /\ Head(router') = [view |-> v, by |-> "user"]
    BY <1>1, <2>1, Navigated
  <2> QED BY <2>2
<1>3. TypesOK'
  BY <1>1, <1>2, SameKinds DEF ViewerInv, TypesOK
<1>4. OrderOK'
  BY <1>1, <1>2 DEF ViewerInv, OrderOK
<1>5. SurfaceOK'
  BY <1>1 DEF ViewerInv, SurfaceOK, SurfaceTypeOK, NoStaleSurface, Mounted, surfaceVars
<1>6. EnteredOK' /\ ChosenOK'
  BY <1>1, <1>2 DEF ViewerInv, EnteredOK, ChosenOK, Leads
<1>7. BadgeOK'
  BY <1>1, <1>2 DEF ViewerInv, BadgeOK, BadgeTellsSource, Told
<1>8. QueueOK' /\ (ReplacePending' <=> ReplacePending)
  BY <1>1 DEF ViewerInv, QueueOK, ReplacePending, Current
<1>9. LatestOK'
  BY <1>1, <1>2, <1>8 DEF ViewerInv, LatestOK
<1> QED BY <1>3, <1>4, <1>5, <1>6, <1>7, <1>8, <1>9 DEF ViewerInv

\* The run of a list on the page is a run of the list's message.
LEMMA OpenRunStep ==
  ASSUME ViewerInv, OpenRun
  PROVE  ViewerInv'
<1> DEFINE v == [shown.view EXCEPT !.name = "run-id"]
<1>1. shown.view \in Views /\ shown.view.name = "list"
  BY DEF ViewerInv, TypesOK, Pages, OpenRun
<1>2. v \in Views /\ v.name = "run-id" /\ v.of = shown.view.of
  BY <1>1 DEF Views
<1>3. Clickable /\ Choose(v, "user") /\ router = <<>> /\ task # "navigating"
      /\ UNCHANGED <<surfaceVars, transitionVars, stateVars, resource, sent, parsing, shown,
                     torn, latest>>
  BY DEF OpenRun, Clickable, ViewerInv, OrderOK
<1> HIDE DEF v
<1>4. resource = "run" => session = None
  BY <1>1, <1>3 DEF ViewerInv, BadgeOK
<1>5. ~ ReplacePending /\ torn = "no" => v.of = latest
  BY <1>2, <1>3 DEF ViewerInv, LatestOK
<1>6. ~ ReplacePending /\ torn = "no" /\ display.kind = "run-list" => display.view.of = latest
  BY <1>1, <1>3 DEF ViewerInv, LatestOK
<1> QED BY <1>2, <1>3, <1>4, <1>5, <1>6, ClickStep

\* "All runs" leads to the list in the state, which is of the newest message.
LEMMA BackToListStep ==
  ASSUME ViewerInv, BackToList
  PROVE  ViewerInv'
<1> DEFINE v == display.view
<1>1. v \in Views /\ v.name = "list" /\ Told(v) /\ display.kind = "run-list"
      /\ shown.view.name = "detail" /\ (resource = "run" => session = None)
  BY DEF ViewerInv, TypesOK, Pages, BadgeOK, BackToList
<1>2. Clickable /\ Choose(v, "user") /\ router = <<>> /\ task # "navigating"
      /\ UNCHANGED <<surfaceVars, transitionVars, stateVars, resource, sent, parsing, shown,
                     torn, latest>>
  BY DEF BackToList, Clickable, ViewerInv, OrderOK
<1>3. ~ ReplacePending /\ torn = "no" => v.of = latest
  BY <1>1, <1>2 DEF ViewerInv, LatestOK
<1> QED BY <1>1, <1>2, <1>3, ClickStep

\* The surface that is disposed of when a view is left or the app torn down
\* takes every mount that is under way with it.
LEMMA InvalidatedSurface ==
  ASSUME ViewerInv, Invalidate, shown' = shown, at' = at \/ at' # "idle"
  PROVE  SurfaceOK'
<1>1. /\ surface \in Nat /\ surface' = surface + 1 /\ mounted' = None /\ mounts' = mounts
      /\ live' = live /\ dying' = dying \cup Mounted /\ mounted \in Nat \cup {None}
      /\ dying \subseteq Nat /\ live \subseteq Nat /\ live \subseteq Mounted \cup dying
  BY DEF ViewerInv, SurfaceOK, SurfaceTypeOK, NoStaleSurface, Invalidate
<1>2. Mounted \subseteq Nat /\ Mounted' = {}
  BY <1>1 DEF Mounted
<1>3. SurfaceTypeOK'
  BY <1>1, <1>2 DEF ViewerInv, SurfaceOK, SurfaceTypeOK
<1>4. NoStaleSurface'
  BY <1>1, <1>2 DEF NoStaleSurface
<1>5. \A m \in mounts' : m.generation <= surface' /\ m.generation # surface'
  BY <1>1 DEF ViewerInv, SurfaceOK, SurfaceTypeOK, Mount
<1> QED BY <1>3, <1>4, <1>5 DEF SurfaceOK

\* A task that is void makes place for the one behind it; if the end of the app
\* waits for it, the surface is disposed of.
LEMMA SkippedStep ==
  ASSUME ViewerInv, Skipped
  PROVE  ViewerInv'
<1>1. /\ queue # <<>> /\ task = "idle" /\ task' = "idle" /\ queue' = Tail(queue)
      /\ Head(queue).generation # generation
      /\ (Invalidate /\ torn' = "done") \/ UNCHANGED <<surfaceVars, torn>>
      /\ UNCHANGED <<generation, latest, resource, sent, router, at, session, admitted, active,
                     display, parsing, shown, chosen>>
  BY DEF Skipped, Skip, budgetVars, routerVars, stateVars
<1>2. 1 \in 1..Len(queue) /\ Head(queue) = queue[1]
  BY <1>1, Rest DEF ViewerInv, TypesOK
<1>3. ReplacePending /\ ReplacePending' /\ queue' \in Seq(Task') /\ QueueOK'
  <2>1. PICK j \in 1..Len(queue) : j > 1 /\ Current(j)
    BY <1>1, <1>2 DEF ViewerInv, QueueOK
  <2> QED BY <1>1, <2>1, HeadGone DEF ViewerInv, ReplacePending
<1>4. TypesOK'
  BY <1>1, <1>3, SameKinds DEF ViewerInv, TypesOK
<1>5. OrderOK' /\ EnteredOK' /\ ChosenOK'
  BY <1>1 DEF ViewerInv, OrderOK, EnteredOK, ChosenOK, Leads, EndsOn
<1>6. SurfaceOK'
  <2>1. CASE Invalidate
    BY <1>1, <2>1, InvalidatedSurface
  <2>2. CASE UNCHANGED surfaceVars
    BY <1>1, <2>2 DEF ViewerInv, SurfaceOK, SurfaceTypeOK, NoStaleSurface, Mounted, surfaceVars
  <2> QED BY <1>1, <2>1, <2>2
<1>7. BadgeOK'
  BY <1>1 DEF ViewerInv, BadgeOK, BadgeTellsSource, Told, EndsOn
<1>8. LatestOK'
  BY <1>3 DEF LatestOK
<1> QED BY <1>3, <1>4, <1>5, <1>6, <1>7, <1>8 DEF ViewerInv

\* A task asks for the navigation to a page that the new state agrees with.
LEMMA TaskNavigates ==
  ASSUME ViewerInv, queue # <<>>, task \in {"idle", "parsing"}, task' = "navigating",
         NEW v \in Pages, Navigate(v, "task"),
         UNCHANGED <<queue, generation, active, surfaceVars, resource, sent, parsing, shown, torn,
                     latest>>,
         chosen' \in Views \cup {None}, chosen' # None => Leads(v)',
         session' \in 0..MaxMessages \cup {None}, admitted' \in {admitted, None},
         display' \in [kind : DisplayKind, view : Pages],
         v.name = "status" => admitted' = None,
         Told(v)', resource = "run" /\ session' # None => v.name # "list",
         display'.kind = "run-list" => /\ display'.view.name = "list" /\ Told(display.view)'
                                       /\ resource = "run" => session' = None,
         torn = "no" /\ (\A i \in 1..Len(queue) : Current(i) => i <= 1) =>
           /\ v.of = latest
           /\ display'.kind = "run-list" => display'.view.of = latest \/ v.name = "admitted"
  PROVE  ViewerInv'
<1>1. /\ v \in Views /\ v.name # "run-id" /\ at' = at
      /\ Len(router) <= 1 /\ task # "navigating"
  BY DEF Pages, Navigate, ViewerInv, TypesOK, OrderOK
<1>2. /\ router' \in Seq(Navigation) /\ router' # <<>>
      /\ Len(router) \in Nat /\ Len(router') = Len(router) + 1
      /\ router'[Len(router')] = [view |-> v, by |-> "task"]
      /\ EndsOn' = [view |-> v, by |-> "task"]
      /\ \A i \in 1..Len(router) : router'[i] = router[i]
      /\ router # <<>> => Head(router') = Head(router)
  BY <1>1, Navigated DEF ViewerInv
<1>3. TypesOK'
  BY <1>1, <1>2, SameKinds DEF ViewerInv, TypesOK
<1>4. \A i \in 1..Len(router') :
        \/ i = Len(router') /\ router'[i].by = "task" /\ router'[i].view = v
        \/ i \in 1..Len(router) /\ router'[i] = router[i] /\ router[i].by # "task" /\ i # Len(router')
  BY <1>1, <1>2 DEF ViewerInv, OrderOK
<1>5. OrderOK'
  <2>1. at' # "idle" => router # <<>> /\ Head(router') = Head(router)
    BY <1>1, <1>2 DEF ViewerInv, OrderOK
  <2>2. \A i \in 1..Len(router') : (router'[i].by = "task" <=> i = Len(router') /\ task' = "navigating")
    BY <1>4
  <2>3. at' \in {"calling", "looking-up"} => Head(router').view.name = "run-id"
    BY <1>1, <2>1 DEF ViewerInv, OrderOK
  <2>4. \A i \in 1..Len(router') :
          IF router'[i].by = "user" THEN router'[i].view.name \in {"run-id", "list"}
                                    ELSE router'[i].view.name # "run-id"
    BY <1>1, <1>4 DEF ViewerInv, OrderOK
  <2> QED BY <1>1, <1>2, <2>1, <2>2, <2>3, <2>4 DEF OrderOK
<1>6. SurfaceOK'
  BY <1>1 DEF ViewerInv, SurfaceOK, SurfaceTypeOK, NoStaleSurface, Mounted, surfaceVars
<1>7. EnteredOK'
  <2>1. \A i \in 1..Len(router') : router'[i].view.name = "status" => admitted' = None
    BY <1>4 DEF ViewerInv, EnteredOK
  <2> QED BY <1>1, <1>2, <2>1 DEF ViewerInv, EnteredOK
<1>11. ChosenOK'
  BY <1>2 DEF ChosenOK, Leads
<1>8. BadgeOK'
  <2>1. BadgeTellsSource'
    BY <1>2 DEF BadgeTellsSource
  <2> QED BY <1>1, <1>2, <2>1 DEF BadgeOK, Told
<1>9. QueueOK'
  BY DEF ViewerInv, QueueOK, Current
<1>10. LatestOK'
  <2>1. ~ ReplacePending' => \A i \in 1..Len(queue) : Current(i) => i <= 1
    BY <1>3 DEF ReplacePending, Current, TypesOK
  <2> QED BY <1>2, <2>1 DEF LatestOK
<1> QED BY <1>3, <1>5, <1>6, <1>7, <1>8, <1>9, <1>10, <1>11 DEF ViewerInv

\* The head of the queue, and whether it is what the page is waiting for.
LEMMA HeadOfQueue ==
  ASSUME ViewerInv, queue # <<>>
  PROVE  /\ Head(queue) \in Task /\ Head(queue).message \in HostMessage
         /\ Head(queue).message.kind # "remount" /\ torn = "no"
              /\ (\A i \in 1..Len(queue) : Current(i) => i <= 1) =>
                Head(queue).message.of = latest
         /\ task # "navigating" /\ Head(queue).generation = generation
              /\ Head(queue).message.kind = "remount"
              /\ (\A i \in 1..Len(queue) : Current(i) => i <= 1) => ~ ReplacePending
<1>1. /\ Head(queue) = queue[1] /\ queue[1] \in Task /\ 1 \in 1..Len(queue) /\ Len(queue) \in Nat
  BY Rest DEF ViewerInv, TypesOK
<1>2. queue[1].message \in HostMessage
  BY <1>1 DEF Task
<1>3. ASSUME Head(queue).message.kind # "remount", torn = "no",
             \A i \in 1..Len(queue) : Current(i) => i <= 1
      PROVE  Head(queue).message.of = latest
  <2>1. Current(1)
    <3>1. CASE queue[1].generation # generation
      <4>1. PICK j \in 1..Len(queue) : j > 1 /\ Current(j)
        BY <1>1, <3>1 DEF ViewerInv, QueueOK
      <4> QED BY <1>1, <1>3, <4>1
    <3> QED BY <1>1, <1>3, <3>1 DEF Current
  <2> QED BY <1>1, <1>3, <2>1 DEF ViewerInv, QueueOK
<1>4. ASSUME Head(queue).message.kind = "remount",
             \A i \in 1..Len(queue) : Current(i) => i <= 1
      PROVE  ~ ReplacePending
  <2>1. ~ Current(1)
    BY <1>1, <1>4 DEF Current
  <2> QED BY <1>1, <1>4, <2>1 DEF ReplacePending
<1> QED BY <1>1, <1>2, <1>3, <1>4

\* A result of the server or an error ends the recorded session.
LEMMA ToolTaskStep ==
  ASSUME ViewerInv, ToolTask,
         UNCHANGED <<surfaceVars, budgetVars, parsing, shown, torn, latest>>
  PROVE  ViewerInv'
<1>1. PICK m : m = Head(queue).message
  OBVIOUS
<1>2. PICK v : v = ViewOf(m)
  OBVIOUS
<1>3. PICK d : d = DisplayOf(m)
  OBVIOUS
<1>4. /\ queue # <<>> /\ task = "idle" /\ task' = "navigating"
      /\ m.kind \in {"input", "error", "list", "empty", "run", "bad"}
      /\ display' = [kind |-> d, view |-> v] /\ Navigate(v, "task") /\ chosen' = v
      /\ session' = None /\ admitted' = None
      /\ UNCHANGED <<active, generation, queue, resource, sent>>
  BY <1>1, <1>2, <1>3 DEF ToolTask, Turn, Show, Choose, budgetVars
<1>5. resource \in {"run", "run-list"} /\ m \in HostMessage
  BY <1>1, <1>4, HeadOfQueue DEF ViewerInv, TypesOK
<1>6. /\ v \in Pages /\ v.of = m.of /\ d \in DisplayKind
      /\ v.name \in {"list", "detail"} => ~ v.recorded
      /\ v.name = "status" => (v.recorded <=> d = "recorded-status")
      /\ d = "run-list" => v.name = "list"
  BY <1>2, <1>3, <1>4, <1>5, MessageViews DEF Recorded, Listing
<1>7. display' \in [kind : DisplayKind, view : Pages] /\ Told(v)' /\ display'.kind = d /\ display'.view = v
  BY <1>4, <1>6 DEF Told
<1>8. torn = "no" /\ (\A i \in 1..Len(queue) : Current(i) => i <= 1) => v.of = latest
  BY <1>1, <1>4, <1>6, HeadOfQueue
<1>9. Told(display.view)' /\ chosen' \in Views \cup {None} /\ Leads(v)'
  BY <1>4, <1>6, <1>7 DEF Told, Leads, Pages
<1> QED BY <1>4, <1>6, <1>7, <1>8, <1>9, TaskNavigates

\* A recorded session is in the state before its view is asked for.
LEMMA RecordedTaskStep ==
  ASSUME ViewerInv, RecordedTask,
         UNCHANGED <<surfaceVars, budgetVars, parsing, shown, torn, latest>>
  PROVE  ViewerInv'
<1>1. PICK m : m = Head(queue).message
  OBVIOUS
<1>2. PICK v : v = ViewOf(m)
  OBVIOUS
<1>3. PICK d : d = DisplayOf(m)
  OBVIOUS
<1>4. /\ queue # <<>> /\ task = "idle" /\ task' = "navigating" /\ m.kind \in Recorded
      /\ display' = [kind |-> d, view |-> v] /\ Navigate(v, "task") /\ chosen' = v
      /\ session' = m.of /\ admitted' = None
      /\ UNCHANGED <<active, generation, queue, resource, sent>>
  BY <1>1, <1>2, <1>3 DEF RecordedTask, Turn, Show, Choose, budgetVars
<1>5. resource \in {"run", "run-list"} /\ m \in HostMessage
  BY <1>1, <1>4, HeadOfQueue DEF ViewerInv, TypesOK
<1>6. /\ v \in Pages /\ v.of = m.of /\ d \in DisplayKind /\ v.recorded
      /\ d = "run-list" => v.name = "list" /\ resource = "run-list"
      /\ resource = "run" => v.name # "list"
      /\ v.name = "status" => (v.recorded <=> d = "recorded-status")
  <2>1. /\ v \in Pages /\ v.of = m.of /\ d \in DisplayKind /\ v.recorded
        /\ d = "run-list" => v.name = "list" /\ m.kind = "recorded-list"
        /\ v.name = "status" => (v.recorded <=> d = "recorded-status")
    BY <1>2, <1>3, <1>4, <1>5, MessageViews DEF Recorded, Listing
  <2>2. m.kind \in {"recorded-list", "recorded-empty"} => resource = "run-list"
    BY <1>5 DEF HostMessage, MessageKind, ResultKind, SessionKind
  <2>3. v.name = "list" => m.kind \in {"recorded-list", "recorded-empty"}
    BY <1>2, <1>4, <1>5, MessageViews DEF Recorded, Listing
  <2> QED BY <2>1, <2>2, <2>3
<1>7. m.of \in 0..MaxMessages
  BY <1>5 DEF HostMessage
<1>8. session' # None /\ session' \in 0..MaxMessages \cup {None}
  BY <1>4, <1>7, NoneIsNoRender, ViewerBounds
<1>9. /\ display' \in [kind : DisplayKind, view : Pages] /\ Told(v)' /\ Told(display.view)'
      /\ display'.kind = d /\ display'.view = v
      /\ chosen' \in Views \cup {None} /\ Leads(v)'
  BY <1>4, <1>6, <1>8 DEF Told, Leads, Pages
<1>10. torn = "no" /\ (\A i \in 1..Len(queue) : Current(i) => i <= 1) => v.of = latest
  BY <1>1, <1>4, <1>6, HeadOfQueue DEF Recorded
<1> QED BY <1>4, <1>6, <1>8, <1>9, <1>10, TaskNavigates


\* An admitted session ends the recorded one; if it is available, the display
\* stays as it is.
LEMMA AdmittedTaskStep ==
  ASSUME ViewerInv, AdmittedTask,
         UNCHANGED <<surfaceVars, budgetVars, parsing, shown, torn, latest>>
  PROVE  ViewerInv'
<1>1. PICK m : m = Head(queue).message
  OBVIOUS
<1>2. PICK v : v = ViewOf(m)
  OBVIOUS
<1>3. PICK d : d = DisplayOf(m)
  OBVIOUS
<1>4. /\ queue # <<>> /\ task = "idle" /\ task' = "navigating"
      /\ m.kind \in {"admitted", "admitted-status"} /\ Navigate(v, "task") /\ session' = None
      /\ chosen' = v
      /\ \/ m.kind = "admitted" /\ UNCHANGED <<admitted, display>>
         \/ m.kind # "admitted" /\ admitted' = None /\ display' = [kind |-> d, view |-> v]
      /\ UNCHANGED <<active, generation, queue, resource, sent>>
  BY <1>1, <1>2, <1>3 DEF AdmittedTask, Turn, Show, Choose, budgetVars
<1>5. resource = "run" /\ m \in HostMessage
  <2>1. resource \in {"run", "run-list"} /\ m \in HostMessage
    BY <1>1, <1>4, HeadOfQueue DEF ViewerInv, TypesOK
  <2> QED BY <1>4, <2>1, Kinds DEF HostMessage
<1>6. /\ v \in Pages /\ v.of = m.of /\ d \in DisplayKind /\ d # "run-list"
      /\ v.name \notin {"list", "detail"}
      /\ v.name = "status" => m.kind # "admitted" /\ (v.recorded <=> d = "recorded-status")
      /\ m.kind = "admitted" => v.name = "admitted"
  BY <1>2, <1>3, <1>4, <1>5, MessageViews DEF Recorded, Listing, WholeRun
<1>7. torn = "no" /\ (\A i \in 1..Len(queue) : Current(i) => i <= 1) => v.of = latest
  BY <1>1, <1>4, <1>6, HeadOfQueue
<1>8. Told(v)' /\ chosen' \in Views \cup {None} /\ Leads(v)'
  BY <1>4, <1>6 DEF Told, Leads, Pages
<1>9. /\ display' \in [kind : DisplayKind, view : Pages]
      /\ display'.kind = "run-list" =>
           display' = display /\ v.name = "admitted" /\ session' = session
  BY <1>4, <1>5, <1>6 DEF ViewerInv, TypesOK, BadgeOK
<1>10. display'.kind = "run-list" => /\ display'.view.name = "list" /\ Told(display.view)'
                                     /\ resource = "run" => session' = None
  BY <1>4, <1>9 DEF ViewerInv, BadgeOK, Told
<1> QED BY <1>4, <1>6, <1>7, <1>8, <1>9, <1>10, TaskNavigates

\* While the parser of a capture is awaited nothing recorded is on the page
\* that a click could still lead on from.
LEMMA CaptureTaskStep ==
  ASSUME ViewerInv, CaptureTask,
         UNCHANGED <<surfaceVars, budgetVars, parsing, shown, torn, latest>>
  PROVE  ViewerInv'
<1>1. /\ queue # <<>> /\ task = "idle" /\ task' = "parsing"
      /\ Head(queue).message.kind \in {"capture", "bad-capture"}
      /\ Head(queue).generation = generation
      /\ session' = None /\ admitted' = None
      /\ UNCHANGED <<active, display, generation, queue, router, at, leaving, chosen, resource, sent>>
  BY DEF CaptureTask, Turn, routerVars, budgetVars
<1>2. resource = "run"
  <2>1. resource \in {"run", "run-list"} /\ Head(queue).message \in HostMessage
    BY <1>1, HeadOfQueue DEF ViewerInv, TypesOK
  <2> QED BY <1>1, <2>1, Kinds DEF HostMessage
<1>3. TypesOK'
  BY <1>1, SameKinds DEF ViewerInv, TypesOK
<1>4. OrderOK' /\ EnteredOK' /\ ChosenOK'
  BY <1>1 DEF ViewerInv, OrderOK, EnteredOK, ChosenOK, Leads, EndsOn
<1>5. SurfaceOK'
  BY <1>1 DEF ViewerInv, SurfaceOK, SurfaceTypeOK, NoStaleSurface, Mounted, surfaceVars
<1>6. BadgeOK'
  <2>1. session # None => router = <<>> /\ at = "idle" /\ display.kind # "run-list"
    BY <1>1, <1>2 DEF ViewerInv, BadgeOK, OrderOK
  <2>2. router # <<>> \/ display.kind = "run-list" => session' = session
    BY <1>1, <2>1
  <2>3. BadgeTellsSource'
    BY <1>1 DEF ViewerInv, BadgeOK, BadgeTellsSource
  <2>4. task' # "navigating" /\ at' \in {"calling", "looking-up"} => (at' = "looking-up" <=> session' # None)
    BY <1>1, <2>1 DEF ViewerInv, BadgeOK
  <2>5. router' # <<>> => Told(EndsOn.view)'
    BY <1>1, <2>2 DEF ViewerInv, BadgeOK, Told, EndsOn
  <2>6. display'.kind = "run-list" => /\ display'.view.name = "list" /\ Told(display.view)'
                                      /\ resource' = "run" => session' = None
    BY <1>1, <2>2 DEF ViewerInv, BadgeOK, Told
  <2> QED BY <1>1, <2>3, <2>4, <2>5, <2>6 DEF BadgeOK
<1>7. QueueOK' /\ (ReplacePending' <=> ReplacePending)
  BY <1>1 DEF ViewerInv, QueueOK, ReplacePending, Current
<1>8. ReplacePending
  <2>1. 1 \in 1..Len(queue) /\ Head(queue) = queue[1]
    BY <1>1, Rest DEF ViewerInv, TypesOK
  <2> QED BY <1>1, <2>1 DEF ReplacePending, Current
<1>9. LatestOK'
  BY <1>7, <1>8 DEF LatestOK
<1> QED BY <1>3, <1>4, <1>5, <1>6, <1>7, <1>9 DEF ViewerInv

\* A capture whose parser has settled is shown, or its error is.
LEMMA CaptureParsedStep ==
  ASSUME ViewerInv, CaptureParsed,
         UNCHANGED <<surfaceVars, budgetVars, parsing, shown, torn, latest>>
  PROVE  ViewerInv'
<1>1. PICK m : m = Head(queue).message
  OBVIOUS
<1>2. PICK v : v = ViewOf(m)
  OBVIOUS
<1>3. PICK d : d = DisplayOf(m)
  OBVIOUS
<1>4. /\ queue # <<>> /\ task = "parsing" /\ m.kind \in {"capture", "bad-capture"}
      /\ session = None /\ admitted = None
  BY <1>1 DEF CaptureParsed, ViewerInv, OrderOK, BadgeOK, EnteredOK
<1>5. /\ task' = "navigating" /\ Navigate(v, "task") /\ chosen' = v
      /\ \/ m.kind = "capture" /\ UNCHANGED display
         \/ m.kind # "capture" /\ display' = [kind |-> d, view |-> v]
      /\ UNCHANGED <<session, admitted, active, generation, queue, resource, sent>>
  BY <1>1, <1>2, <1>3 DEF CaptureParsed, Show, Choose, budgetVars
<1>6. resource \in {"run", "run-list"} /\ m \in HostMessage
  BY <1>1, <1>4, HeadOfQueue DEF ViewerInv, TypesOK
<1>7. /\ v \in Pages /\ v.of = m.of /\ d \in DisplayKind /\ d # "run-list"
      /\ v.name \notin {"list", "detail"}
      /\ m.kind = "capture" => v.name = "admitted"
      /\ v.name = "status" => m.kind # "capture" /\ (v.recorded <=> d = "recorded-status")
  BY <1>2, <1>3, <1>4, <1>6, MessageViews DEF Recorded, Listing, WholeRun
<1>8. torn = "no" /\ (\A i \in 1..Len(queue) : Current(i) => i <= 1) => v.of = latest
  BY <1>1, <1>4, <1>7, HeadOfQueue
<1>9. Told(v)' /\ chosen' \in Views \cup {None} /\ Leads(v)'
  BY <1>5, <1>7 DEF Told, Leads, Pages
<1>10. /\ display' \in [kind : DisplayKind, view : Pages]
       /\ display'.kind = "run-list" => display' = display /\ v.name = "admitted"
  BY <1>5, <1>7 DEF ViewerInv, TypesOK
<1>11. display'.kind = "run-list" => /\ display'.view.name = "list" /\ Told(display.view)'
                                     /\ resource = "run" => session' = None
  BY <1>4, <1>5, <1>10 DEF ViewerInv, BadgeOK, Told
<1>12. session' \in 0..MaxMessages \cup {None} /\ admitted' \in {admitted, None}
  BY <1>4, <1>5
<1> QED BY <1>4, <1>5, <1>7, <1>8, <1>9, <1>10, <1>11, <1>12, TaskNavigates

\* A context change navigates to the page, or its choice is no longer known, or it
\* does nothing.
LEMMA RemountTaskStep ==
  ASSUME ViewerInv, RemountTask,
         UNCHANGED <<surfaceVars, budgetVars, parsing, shown, torn, latest>>
  PROVE  ViewerInv'
<1>1. /\ queue # <<>> /\ task = "idle" /\ Head(queue).generation = generation
      /\ Head(queue).message.kind = "remount"
      /\ UNCHANGED <<session, admitted, active, display, generation, resource, sent>>
  BY DEF RemountTask, Turn, stateVars, budgetVars
<1>2. CASE admitted = None /\ active \in {None, Pending}
  <2>1. queue' = Tail(queue) /\ task' = task /\ UNCHANGED <<router, at, leaving, chosen>>
    BY <1>2 DEF RemountTask, routerVars
  <2>2. /\ queue' \in Seq(Task') /\ QueueOK'
        /\ (\E i \in 1..Len(queue) : i > 1 /\ Current(i)) => ReplacePending'
    BY <1>1, <2>1, HeadGone DEF ViewerInv
  <2>3. ~ ReplacePending' => ~ ReplacePending
    <3>1. Len(queue) \in Nat
      BY <1>1, Rest DEF ViewerInv, TypesOK
    <3> QED BY <1>1, <2>2, <3>1, HeadOfQueue
  <2>4. TypesOK'
    BY <1>1, <2>1, <2>2, SameKinds DEF ViewerInv, TypesOK
  <2>5. OrderOK' /\ EnteredOK' /\ ChosenOK'
    BY <1>1, <2>1 DEF ViewerInv, OrderOK, EnteredOK, ChosenOK, Leads, EndsOn
  <2>6. SurfaceOK'
    BY <2>1 DEF ViewerInv, SurfaceOK, SurfaceTypeOK, NoStaleSurface, Mounted, surfaceVars
  <2>7. BadgeOK'
    BY <1>1, <2>1 DEF ViewerInv, BadgeOK, BadgeTellsSource, Told, EndsOn
  <2>8. LatestOK'
    BY <1>1, <2>1, <2>3 DEF ViewerInv, LatestOK, EndsOn
  <2> QED BY <2>2, <2>4, <2>5, <2>6, <2>7, <2>8 DEF ViewerInv
<1>3. CASE ~ (admitted = None /\ active \in {None, Pending})
  <2>1. PICK v : v = IF admitted # None THEN admitted ELSE active
    OBVIOUS
  <2>2. /\ Navigate(v, "task") /\ task' = "navigating" /\ UNCHANGED queue
        /\ chosen' = IF LeavePending THEN None ELSE chosen
    <3>1. v # None
      BY <1>3, <2>1
    <3>2. v # Pending
      BY <1>3, <2>1 DEF ViewerInv, EnteredOK, Pending
    <3> QED BY <2>1, <3>1, <3>2 DEF RemountTask
  <2>3. v \in Pages /\ (admitted # None => v.name = "admitted" /\ active = None)
    BY <1>3, <2>1 DEF ViewerInv, TypesOK, EnteredOK
  <2>4. v.name = "status" => admitted' = None
    BY <1>1, <2>3
  <2>9. chosen' \in Views \cup {None} /\ (chosen' # None => Leads(v)')
    <3>1. ASSUME ~ LeavePending PROVE router = <<>>
      BY <1>3, <3>1 DEF LeavePending, ViewerInv, TypesOK, EnteredOK
    <3>2. router = <<>> => v = shown.view
      BY <1>3, <2>1, <2>3 DEF ViewerInv, EnteredOK
    <3> QED BY <2>2, <3>1, <3>2 DEF ViewerInv, TypesOK, ChosenOK, Leads
  <2>5. Told(v)' /\ (resource = "run" /\ session' # None => v.name # "list")
    BY <1>1, <1>3, <2>1, <2>3 DEF ViewerInv, BadgeOK, Told
  <2>6. display'.kind = "run-list" => /\ display'.view.name = "list" /\ Told(display.view)'
                                      /\ resource = "run" => session' = None
    BY <1>1 DEF ViewerInv, BadgeOK, Told
  <2>7. torn = "no" /\ (\A i \in 1..Len(queue) : Current(i) => i <= 1) =>
          /\ v.of = latest
          /\ display'.kind = "run-list" => display'.view.of = latest \/ v.name = "admitted"
    BY <1>1, <1>3, <2>1, <2>3, HeadOfQueue DEF ViewerInv, LatestOK
  <2>8. /\ session' \in 0..MaxMessages \cup {None} /\ admitted' \in {admitted, None}
        /\ display' \in [kind : DisplayKind, view : Pages]
    BY <1>1 DEF ViewerInv, TypesOK
  <2> QED BY <1>1, <2>2, <2>3, <2>4, <2>5, <2>6, <2>7, <2>8, <2>9, TaskNavigates
<1> QED BY <1>2, <1>3

\* The end of the app.
LEMMA TeardownTaskStep ==
  ASSUME ViewerInv, TeardownTask
  PROVE  ViewerInv'
<1>1. /\ queue # <<>> /\ task = "idle" /\ task' = "idle" /\ queue' = Tail(queue)
      /\ torn' = "done" /\ Invalidate
      /\ UNCHANGED <<generation, router, at, session, admitted, active, display, resource, sent,
                     parsing, shown, latest, chosen>>
  BY DEF TeardownTask, Turn, TaskOver, routerVars, stateVars, budgetVars
<1>2. queue' \in Seq(Task') /\ QueueOK'
  BY <1>1, HeadGone DEF ViewerInv
<1>3. TypesOK'
  BY <1>1, <1>2, SameKinds DEF ViewerInv, TypesOK
<1>4. OrderOK' /\ EnteredOK' /\ ChosenOK'
  BY <1>1 DEF ViewerInv, OrderOK, EnteredOK, ChosenOK, Leads, EndsOn
<1>5. SurfaceOK'
  BY <1>1, InvalidatedSurface
<1>6. BadgeOK'
  BY <1>1 DEF ViewerInv, BadgeOK, BadgeTellsSource, Told, EndsOn
<1>7. LatestOK'
  BY <1>1 DEF LatestOK
<1> QED BY <1>2, <1>3, <1>4, <1>5, <1>6, <1>7 DEF ViewerInv

\* Leaving a view disposes of its surface.
LEMMA LeaveStep ==
  ASSUME ViewerInv, Leave
  PROVE  ViewerInv'
<1>1. /\ router # <<>> /\ at = "idle" /\ at' = "leaving" /\ Invalidate
      /\ UNCHANGED <<router, queue, generation, task, session, admitted, active, display,
                     resource, sent, parsing, shown, torn, latest, chosen>>
  BY DEF Leave, transitionVars, stateVars, budgetVars
<1>2. TypesOK'
  BY <1>1, SameKinds DEF ViewerInv, TypesOK
<1>3. OrderOK' /\ EnteredOK' /\ ChosenOK'
  BY <1>1 DEF ViewerInv, OrderOK, EnteredOK, ChosenOK, Leads, EndsOn
<1>4. SurfaceOK'
  BY <1>1, InvalidatedSurface
<1>5. BadgeOK'
  BY <1>1 DEF ViewerInv, BadgeOK, BadgeTellsSource, Told, EndsOn
<1>6. QueueOK' /\ (ReplacePending' <=> ReplacePending)
  BY <1>1 DEF ViewerInv, QueueOK, ReplacePending, Current
<1>7. LatestOK'
  BY <1>1, <1>6 DEF ViewerInv, LatestOK, EndsOn
<1> QED BY <1>2, <1>3, <1>4, <1>5, <1>6, <1>7 DEF ViewerInv

\* A run of a list is looked up in the session, or asked for if there is none.
LEMMA EnterRunStep ==
  ASSUME ViewerInv, EnterRun
  PROVE  ViewerInv'
<1>1. /\ at = "leaving" /\ Head(router).view.name = "run-id" /\ router # <<>>
      /\ admitted' = None /\ active' = Pending /\ chosen' = chosen
      /\ at' = IF session = None THEN "calling" ELSE "looking-up"
      /\ UNCHANGED <<surfaceVars, router, queue, generation, task, session, display, resource,
                     sent, parsing, shown, torn, latest>>
  BY DEF EnterRun, Left, transitionVars, budgetVars, ViewerInv, OrderOK
<1>2. TypesOK'
  BY <1>1, SameKinds DEF ViewerInv, TypesOK
<1>3. OrderOK'
  BY <1>1 DEF ViewerInv, OrderOK
<1>4. EnteredOK' /\ ChosenOK'
  BY <1>1 DEF ViewerInv, EnteredOK, ChosenOK, Leads, EndsOn
<1>5. SurfaceOK'
  BY <1>1 DEF ViewerInv, SurfaceOK, SurfaceTypeOK, NoStaleSurface, Mounted, surfaceVars
<1>6. BadgeOK'
  BY <1>1 DEF ViewerInv, BadgeOK, BadgeTellsSource, Told, EndsOn
<1>7. QueueOK' /\ (ReplacePending' <=> ReplacePending)
  BY <1>1 DEF ViewerInv, QueueOK, ReplacePending, Current
<1>8. LatestOK'
  <2>1. router # <<>> /\ task # "navigating" => EndsOn.view.name = "run-id"
    <3>1. Len(router) >= 1 /\ Len(router) \in Nat /\ Head(router) = router[1]
      BY <1>1, Rest DEF ViewerInv, TypesOK
    <3>2. task # "navigating" => Len(router) <= 1
      BY DEF ViewerInv, OrderOK
    <3> QED BY <1>1, <3>1, <3>2 DEF EndsOn
  <2> QED BY <1>1, <1>7, <2>1 DEF ViewerInv, LatestOK, EndsOn
<1> QED BY <1>2, <1>3, <1>4, <1>5, <1>6, <1>7, <1>8 DEF ViewerInv

\* A mount keeps to the view that asked for it, whenever it arrives or fails.
LEMMA SurfacesStep ==
  ASSUME ViewerInv, Surfaces
  PROVE  ViewerInv'
<1>1. /\ SurfaceNext
      /\ UNCHANGED <<router, at, queue, generation, task, session, admitted, active, display,
                     resource, sent, parsing, shown, torn, latest, chosen>>
  BY DEF Surfaces, transitionVars, routerVars, stateVars, budgetVars
<1>2. TypesOK'
  BY <1>1, SameKinds DEF ViewerInv, TypesOK
<1>3. OrderOK' /\ EnteredOK' /\ ChosenOK'
  BY <1>1 DEF ViewerInv, OrderOK, EnteredOK, ChosenOK, Leads, EndsOn
<1>4. BadgeOK'
  BY <1>1 DEF ViewerInv, BadgeOK, BadgeTellsSource, Told, EndsOn
<1>5. QueueOK' /\ (ReplacePending' <=> ReplacePending)
  BY <1>1 DEF ViewerInv, QueueOK, ReplacePending, Current
<1>6. LatestOK'
  BY <1>1, <1>5 DEF ViewerInv, LatestOK, EndsOn
<1>7. SurfaceOK'
  <2> USE NoneIsNoRender
  <2>1. ASSUME NEW m \in mounts, MountTurn(m) PROVE SurfaceOK'
    <3>1. /\ m \in Mount /\ mounted \in Nat \cup {None} /\ Mounted \subseteq Nat
      BY DEF ViewerInv, SurfaceOK, SurfaceTypeOK, Mounted
    <3>2. [m EXCEPT !.at = "disposing", !.old = mounted] \in Mount
      BY <3>1 DEF Mount
    <3> DEFINE moved == [m EXCEPT !.at = "disposing", !.old = mounted]
    <3>3. moved.generation = m.generation /\ moved.render = m.render
      BY <3>1 DEF Mount
    <3>4. mounts' \subseteq mounts \cup {moved}
      BY <2>1 DEF MountTurn, Moved
    <3> HIDE DEF moved
    <3>5. SurfaceTypeOK'
      BY <2>1, <3>1, <3>2, <3>4 DEF moved, MountTurn, ViewerInv, SurfaceOK, SurfaceTypeOK
    <3>6. NoStaleSurface'
      BY <1>1, <2>1 DEF MountTurn, ViewerInv, SurfaceOK, NoStaleSurface, Mounted
    <3>7. \A k \in mounts' : /\ k.generation <= surface'
                             /\ k.generation = surface' => k.render = shown'.render /\ at' = "idle"
      BY <1>1, <2>1, <3>3, <3>4 DEF MountTurn, ViewerInv, SurfaceOK
    <3> QED BY <3>5, <3>6, <3>7 DEF SurfaceOK
  <2>2. ASSUME NEW m \in mounts, MountStarts(m) PROVE SurfaceOK'
    <3> DEFINE moved == [m EXCEPT !.at = "mounting", !.old = None]
    <3>1. /\ m \in Mount /\ moved \in Mount
          /\ moved.generation = m.generation /\ moved.render = m.render
      BY DEF Mount, ViewerInv, SurfaceOK, SurfaceTypeOK
    <3>2. mounts' \subseteq mounts \cup {moved}
      BY <2>2 DEF MountStarts, Moved
    <3> HIDE DEF moved
    <3>3. SurfaceTypeOK'
      BY <2>2, <3>1, <3>2 DEF MountStarts, ViewerInv, SurfaceOK, SurfaceTypeOK
    <3>4. NoStaleSurface'
      BY <1>1, <2>2 DEF MountStarts, ViewerInv, SurfaceOK, NoStaleSurface, Mounted
    <3>5. \A k \in mounts' : /\ k.generation <= surface'
                             /\ k.generation = surface' => k.render = shown'.render /\ at' = "idle"
      BY <1>1, <2>2, <3>1, <3>2 DEF MountStarts, ViewerInv, SurfaceOK
    <3> QED BY <3>3, <3>4, <3>5 DEF SurfaceOK
  <2>3. ASSUME NEW m \in mounts, MountArrives(m) PROVE SurfaceOK'
    <3>1. m \in Mount /\ m.render \in Nat /\ m.render # None
      BY DEF Mount, ViewerInv, SurfaceOK, SurfaceTypeOK
    <3>2. SurfaceTypeOK'
      BY <2>3, <3>1 DEF MountArrives, ViewerInv, SurfaceOK, SurfaceTypeOK
    <3>3. NoStaleSurface'
      BY <1>1, <2>3, <3>1 DEF MountArrives, Newest, ViewerInv, SurfaceOK, NoStaleSurface, Mounted
    <3>4. \A k \in mounts' : /\ k.generation <= surface'
                             /\ k.generation = surface' => k.render = shown'.render /\ at' = "idle"
      BY <1>1, <2>3 DEF MountArrives, ViewerInv, SurfaceOK
    <3> QED BY <3>2, <3>3, <3>4 DEF SurfaceOK
  <2>4. ASSUME NEW m \in mounts, MountFails(m) PROVE SurfaceOK'
    BY <1>1, <2>4 DEF MountFails, ViewerInv, SurfaceOK, SurfaceTypeOK, NoStaleSurface, Mounted
  <2>5. ASSUME NEW h \in dying, Disposed(h) PROVE SurfaceOK'
    <3>1. NoStaleSurface'
      BY <1>1, <2>5 DEF Disposed, ViewerInv, SurfaceOK, NoStaleSurface, Mounted
    <3> QED BY <1>1, <2>5, <3>1 DEF Disposed, ViewerInv, SurfaceOK, SurfaceTypeOK
  <2> QED BY <1>1, <2>1, <2>2, <2>3, <2>4, <2>5 DEF SurfaceNext
<1> QED BY <1>2, <1>3, <1>4, <1>5, <1>6, <1>7 DEF ViewerInv

\* A page that is rendered is the one that its navigation asked for, and agrees
\* with the session once nothing else is to be navigated to.
LEMMA RenderStep ==
  ASSUME ViewerInv, at # "idle", NEW v \in Pages, Render(v),
         active' = v \/ (v.name = "admitted" /\ active' = None),
         v.name = "admitted" => admitted' = v /\ active' = None /\ Head(router).view.name = "admitted",
         v.name # "admitted" => admitted' = None /\ Head(router).view.name # "admitted",
         v.of = Head(router).view.of,
         router' = <<>> /\ chosen # None => Leads(v),
         router' = <<>> => Told(v),
         router' = <<>> /\ resource = "run" /\ session # None => v.name # "list",
         UNCHANGED <<session, display, budgetVars, parsing, torn, latest, chosen>>
  PROVE  ViewerInv'
<1>b. PICK b \in Badges(v) : shown' = [view |-> v, render |-> shown.render + 1, badge |-> b]
  BY DEF Render
<1>1. /\ shown' = [view |-> v, render |-> shown.render + 1, badge |-> b]
      /\ IF HasSurface(v) THEN Schedule(shown.render + 1) ELSE UNCHANGED surfaceVars
      /\ router' = Tail(router) /\ at' = "idle"
      /\ IF Head(router).by = "task" THEN TaskOver ELSE UNCHANGED transitionVars
      /\ UNCHANGED <<resource, sent>> /\ router # <<>>
  BY <1>b DEF Render, budgetVars, ViewerInv, OrderOK
<1>2. /\ router' \in Seq(Navigation) /\ Head(router) = router[1] /\ 1 \in 1..Len(router)
      /\ Head(router) \in Navigation
      /\ \A i \in 1..Len(router') : router'[i] = router[i + 1] /\ i + 1 \in 1..Len(router)
      /\ router' # <<>> => EndsOn' = EndsOn /\ task = "navigating" /\ Head(router).by = "user"
      /\ router' = <<>> => EndsOn = Head(router)
      /\ Head(router).by = "task" <=> router' = <<>> /\ task = "navigating"
  BY <1>1, Routed DEF ViewerInv
<1>3. Len(router) \in Nat /\ Len(router') \in Nat /\ Len(router') + 1 = Len(router)
      /\ (router' = <<>> => Len(router') = 0)
  BY <1>1, Routed DEF ViewerInv
<1>4. /\ queue' \in Seq(Task') /\ QueueOK' /\ (ReplacePending => ReplacePending') /\ generation' = generation
      /\ (task' = task /\ queue' = queue) \/ (task' = "idle" /\ router' = <<>>)
      /\ task' = "navigating" <=> router' # <<>>
      /\ task' \in {"idle", "parsing", "navigating"}
      /\ task' # "idle" => queue' = queue /\ task' = task
  <2>1. CASE Head(router).by = "task"
    <3>1. /\ queue' = Tail(queue) /\ task' = "idle" /\ generation' = generation
          /\ router' = <<>> /\ task = "navigating" /\ queue # <<>>
      BY <1>1, <1>2, <2>1 DEF TaskOver, ViewerInv, OrderOK
    <3>2. /\ queue' \in Seq(Task') /\ QueueOK'
          /\ (\E i \in 1..Len(queue) : i > 1 /\ Current(i)) => ReplacePending'
      BY <1>1, <3>1, HeadGone DEF ViewerInv
    <3>3. ReplacePending => ReplacePending'
      BY <3>1, <3>2 DEF ReplacePending
    <3> QED BY <3>1, <3>2, <3>3
  <2>2. CASE Head(router).by # "task"
    <3>1. task' = task /\ queue' = queue /\ generation' = generation
      BY <1>1, <2>2 DEF transitionVars
    <3>2. QueueOK' /\ (ReplacePending' <=> ReplacePending) /\ queue' \in Seq(Task')
      BY <1>1, <3>1, SameKinds DEF ViewerInv, TypesOK, QueueOK, ReplacePending, Current
    <3> QED BY <1>2, <2>2, <3>1, <3>2 DEF ViewerInv, TypesOK
  <2> QED BY <2>1, <2>2
<1>5. /\ shown'.view = v /\ shown'.render = shown.render + 1
      /\ shown.render \in Nat /\ v.recorded \in BOOLEAN /\ v \in Views /\ v.name # "run-id"
      /\ shown'.badge = b
  BY <1>1 DEF ViewerInv, TypesOK, Pages, Views
<1>c. /\ b \in {"RECORDED", "EVIDENCE", "none"}
      /\ Told(v) => (b = "RECORDED" <=> v.recorded /\ v.name # "admitted")
  <2>1. v.name \in {"status", "list", "detail", "admitted"}
    BY DEF Pages, Views
  <2>2. CASE v.name = "admitted"
    <3>1. b = "none"
      BY <2>2 DEF Badges
    <3> QED BY <2>2, <3>1
  <2>3. CASE v.name = "status"
    <3>1. b = IF display.kind = "recorded-status" THEN "RECORDED" ELSE "EVIDENCE"
      BY <2>3 DEF Badges
    <3> QED BY <2>3, <3>1 DEF Told
  <2>4. CASE v.name = "detail" /\ ~ v.full
    <3>1. b = IF v.recorded THEN "RECORDED" ELSE "EVIDENCE"
      BY <2>4 DEF Badges
    <3> QED BY <2>4, <3>1
  <2>5. CASE v.name = "list" \/ (v.name = "detail" /\ v.full)
    <3>1. /\ session # None => b = "RECORDED"
          /\ session = None => b \in {"EVIDENCE", "none"}
      BY <2>5 DEF Badges
    <3> QED BY <2>5, <3>1 DEF Told
  <2> QED BY <2>1, <2>2, <2>3, <2>4, <2>5, Zenon
<1>6. TypesOK'
  <2>1. shown' \in [view : Pages, render : Nat, badge : {"RECORDED", "EVIDENCE", "none"}]
    BY <1>1, <1>5, <1>c
  <2> QED BY <1>1, <1>2, <1>4, <2>1, SameKinds DEF ViewerInv, TypesOK, budgetVars
<1>7. OrderOK'
  <2>1. \A i \in 1..Len(router') : (router'[i].by = "task" <=> i = Len(router') /\ task' = "navigating")
    <3> SUFFICES ASSUME NEW i \in 1..Len(router')
                 PROVE  router'[i].by = "task" <=> i = Len(router') /\ task' = "navigating"
      OBVIOUS
    <3>1. router' # <<>> /\ task' = "navigating" /\ task = "navigating"
      BY <1>2, <1>3, <1>4
    <3>2. i + 1 \in 1..Len(router) /\ router'[i] = router[i + 1]
      BY <1>2
    <3>3. router[i + 1].by = "task" <=> i + 1 = Len(router)
      BY <3>1, <3>2 DEF ViewerInv, OrderOK
    <3> QED BY <1>3, <3>1, <3>2, <3>3
  <2>2. \A i \in 1..Len(router') :
          IF router'[i].by = "user" THEN router'[i].view.name \in {"run-id", "list"}
                                    ELSE router'[i].view.name # "run-id"
    BY <1>2 DEF ViewerInv, OrderOK
  <2>3. task' = "parsing" => Head(queue').message.kind \in {"capture", "bad-capture"}
    BY <1>4 DEF ViewerInv, OrderOK
  <2>4. task' # "idle" => queue' # <<>>
    BY <1>4 DEF ViewerInv, OrderOK
  <2>5. task' # "navigating" => Len(router') <= 1
    BY <1>3, <1>4
  <2> QED BY <1>1, <1>4, <2>1, <2>2, <2>3, <2>4, <2>5 DEF OrderOK
<1>8. SurfaceOK'
  <2>1. /\ surface \in Nat /\ mounted = None /\ shown.render + 1 \in Nat
        /\ \A m \in mounts : m \in Mount /\ m.generation \in Nat /\ m.generation < surface
    BY <1>5 DEF ViewerInv, SurfaceOK, SurfaceTypeOK, NoStaleSurface, Mount
  <2>2. CASE ~ HasSurface(v)
    <3>1. UNCHANGED <<surface, mounted, mounts, dying, live>>
      BY <1>1, <2>2 DEF surfaceVars
    <3> QED BY <1>1, <2>1, <3>1 DEF ViewerInv, SurfaceOK, SurfaceTypeOK, NoStaleSurface, Mounted
  <2>3. CASE HasSurface(v)
    <3> DEFINE new == [generation |-> surface + 1, render |-> shown.render + 1,
                       at |-> "queued", old |-> None]
    <3>1. /\ surface' = surface + 1 /\ mounts' = mounts \cup {new}
          /\ UNCHANGED <<mounted, dying, live>>
      BY <1>1, <2>3 DEF Schedule
    <3>2. /\ new \in Mount /\ new.generation = surface' /\ new.render = shown'.render
      BY <1>5, <2>1, <3>1 DEF Mount
    <3> HIDE DEF new
    <3>3. SurfaceTypeOK'
      BY <2>1, <3>1, <3>2 DEF ViewerInv, SurfaceOK, SurfaceTypeOK
    <3>4. NoStaleSurface'
      BY <1>1, <2>1, <3>1 DEF ViewerInv, SurfaceOK, NoStaleSurface, Mounted
    <3>5. \A m \in mounts' : /\ m.generation <= surface'
                             /\ m.generation = surface' => m.render = shown'.render /\ at' = "idle"
      BY <1>1, <2>1, <3>1, <3>2
    <3> QED BY <3>3, <3>4, <3>5 DEF SurfaceOK
  <2> QED BY <2>2, <2>3
<1>9. EnteredOK'
  <2>1. \A i \in 1..Len(router') : router'[i].view.name = "status" => admitted' = None
    <3>1. router' # <<>> => Head(router).view.name # "admitted"
      BY <1>2 DEF ViewerInv, OrderOK
    <3>2. router' # <<>> => admitted' = None
      BY <3>1
    <3> QED BY <1>3, <3>2
  <2>2. task' = "parsing" => admitted' = None
    <3>1. task' = "parsing" => task = "parsing" /\ router' = <<>>
      BY <1>4
    <3>2. task = "parsing" => router[1].by = "user"
      BY <1>2 DEF Navigation
    <3> QED BY <1>2, <3>1, <3>2 DEF ViewerInv, OrderOK
  <2> QED BY <1>1, <1>5, <2>1, <2>2 DEF EnteredOK
<1>12. ChosenOK'
  BY <1>2, <1>5 DEF ViewerInv, ChosenOK, Leads
<1>10. BadgeOK'
  <2>1. router' # <<>> => Told(EndsOn.view)'
    BY <1>1, <1>2 DEF ViewerInv, BadgeOK, Told
  <2>2. task' = "idle" => active' \in {None, Pending} \/ Told(active)'
    BY <1>4 DEF Told
  <2>3. display'.kind = "run-list" => /\ display'.view.name = "list" /\ Told(display.view)'
                                      /\ resource' = "run" => session' = None
    BY <1>1 DEF ViewerInv, BadgeOK, Told
  <2>4. task' = "parsing" => session' = None
    BY <1>4 DEF ViewerInv, BadgeOK
  <2>5. resource' = "run" /\ session' # None =>
          /\ router' # <<>> => task' = "navigating" /\ EndsOn'.view.name \notin {"list", "run-id"}
          /\ task' # "navigating" => /\ shown'.view.name # "list"
                                     /\ active' \in {None, Pending} \/ active'.name # "list"
    BY <1>1, <1>2, <1>4, <1>5 DEF ViewerInv, BadgeOK
  <2>6. BadgeTellsSource'
    BY <1>5, <1>c DEF BadgeTellsSource
  <2> QED BY <1>1, <2>1, <2>2, <2>3, <2>4, <2>5, <2>6 DEF BadgeOK
<1>11. LatestOK'
  <2> SUFFICES ASSUME torn = "no", ~ ReplacePending
               PROVE  /\ router' # <<>> => EndsOn'.view.of = latest
                      /\ router' = <<>> => shown'.view.of = latest
                      /\ task' # "navigating" =>
                           /\ active' \in {None, Pending} \/ active'.of = latest
                           /\ admitted' = None \/ admitted'.of = latest
                      /\ display.kind = "run-list" =>
                           \/ display.view.of = latest
                           \/ /\ router' # <<>> => task' = "navigating" /\ EndsOn'.view.name = "admitted"
                              /\ task' # "navigating" => shown'.view.name = "admitted" /\ active' = None
    BY <1>4 DEF LatestOK
  <2>1. /\ EndsOn.view.of = latest
        /\ display.kind = "run-list" => display.view.of = latest \/ EndsOn.view.name = "admitted"
    BY <1>1 DEF ViewerInv, LatestOK
  <2>2. router' = <<>> => v.of = latest
    BY <1>2, <2>1
  <2>3. display.kind = "run-list" /\ router' = <<>> =>
          display.view.of = latest \/ (v.name = "admitted" /\ active' = None)
    BY <1>2, <2>1
  <2> QED BY <1>2, <1>4, <1>5, <2>1, <2>2, <2>3
<1> QED BY <1>4, <1>6, <1>7, <1>8, <1>9, <1>10, <1>11, <1>12 DEF ViewerInv

\* A view whose data the caller passes is entered as it was asked for.
LEMMA EnterStep ==
  ASSUME ViewerInv, Enter
  PROVE  ViewerInv'
<1>1. PICK v : v = Head(router).view
  OBVIOUS
<1>2. /\ at = "leaving" /\ router # <<>> /\ v.name # "run-id"
      /\ active' = (IF v.name = "admitted" THEN None ELSE v)
      /\ admitted' = (CASE v.name = "admitted" -> v [] v.name = "status" -> admitted [] OTHER -> None)
      /\ Render(v) /\ router' = Tail(router)
      /\ UNCHANGED <<session, display, budgetVars, parsing, torn, latest, chosen>>
  BY <1>1 DEF Enter, Left, Render, ViewerInv, OrderOK
<1>3. /\ Head(router) \in Navigation /\ Head(router) = router[1] /\ 1 \in 1..Len(router)
      /\ router' = <<>> => EndsOn = Head(router)
  BY <1>2, Routed DEF ViewerInv
<1>4. v \in Pages
  BY <1>1, <1>2, <1>3 DEF Navigation, Pages
<1>5. v.name = "status" => admitted = None
  BY <1>1, <1>3 DEF ViewerInv, EnteredOK
<1>6. v.name # "admitted" => admitted' = None
  BY <1>2, <1>5
<1>7. v.name = "admitted" => admitted' = v /\ active' = None
  BY <1>2
<1>8. router' = <<>> => Told(v)
  BY <1>1, <1>2, <1>3 DEF ViewerInv, BadgeOK
<1>9. router' = <<>> /\ resource = "run" /\ session # None => v.name # "list"
  BY <1>1, <1>2, <1>3 DEF ViewerInv, BadgeOK
<1>10. router' = <<>> /\ chosen # None => Leads(v)
  BY <1>1, <1>2, <1>3 DEF ViewerInv, ChosenOK
<1> QED BY <1>1, <1>2, <1>4, <1>6, <1>7, <1>8, <1>9, <1>10, RenderStep

\* A run that was asked for arrives in place of the list that it belongs to.
LEMMA RunLoadedStep ==
  ASSUME ViewerInv, RunLoaded
  PROVE  ViewerInv'
<1>1. PICK full \in BOOLEAN :
        LET view == [name |-> "detail", of |-> Head(router).view.of, full |-> full,
                     recorded |-> at = "looking-up"]
        IN  active' = view /\ Render(view)
  BY DEF RunLoaded
<1>2. PICK v : v = [name |-> "detail", of |-> Head(router).view.of, full |-> full,
                    recorded |-> at = "looking-up"]
  OBVIOUS
<1>3. /\ at \in {"calling", "looking-up"} /\ router # <<>> /\ router' = Tail(router)
      /\ active' = v /\ Render(v) /\ admitted' = admitted /\ admitted = None
      /\ Head(router).view.name = "run-id"
      /\ UNCHANGED <<session, display, budgetVars, parsing, torn, latest, chosen>>
  BY <1>1, <1>2 DEF RunLoaded, Render, ViewerInv, OrderOK, EnteredOK
<1>4. /\ Head(router) \in Navigation /\ Head(router) = router[1] /\ 1 \in 1..Len(router)
      /\ Head(router).by = "task" <=> router' = <<>> /\ task = "navigating"
  BY <1>3, Routed DEF ViewerInv
<1>5. Head(router).by = "user"
  BY <1>3, <1>4 DEF ViewerInv, OrderOK
<1>6. v.name = "detail" /\ v.of = Head(router).view.of /\ v.recorded = (at = "looking-up")
  BY <1>2
<1>7. v \in Pages
  <2>1. Head(router).view.of \in 0..MaxMessages
    BY <1>4 DEF Navigation, Views
  <2>2. (at = "looking-up") \in BOOLEAN
    OBVIOUS
  <2> QED BY <1>2, <2>1, <2>2 DEF Pages, Views
<1>8. router' = <<>> => Told(v)
  BY <1>3, <1>4, <1>5, <1>6 DEF ViewerInv, BadgeOK, Told
<1>9. at # "idle" /\ v.name # "admitted" /\ v.name # "list" /\ Head(router).view.name # "admitted"
  BY <1>3, <1>6
<1>10. router' = <<>> /\ chosen # None => Leads(v)
  <2>1. router' = <<>> /\ chosen # None => Leads(Head(router).view)
    BY <1>3, Routed DEF ViewerInv, ChosenOK
  <2> QED BY <1>3, <1>6, <2>1 DEF Leads
<1> QED BY <1>3, <1>6, <1>7, <1>8, <1>9, <1>10, RenderStep

-----------------------------------------------------------------------------
(* The theorems.                                                           *)

\* The app starts with an empty page and nothing to do.
LEMMA InitViewer ==
  ASSUME Init
  PROVE  ViewerInv
<1> USE NoneIsNoRender, ViewerBounds
<1>1. Status(0) \in Pages /\ Status(0).name = "status" /\ Status(0).of = 0
  BY DEF Status, Pages, Views
<1>2. TypesOK
  <2>1. shown \in [view : Pages, render : Nat, badge : {"RECORDED", "EVIDENCE", "none"}]
    BY <1>1 DEF Init
  <2> QED BY <1>1, <2>1 DEF Init, TypesOK, DisplayKind, Pages
<1>3. OrderOK /\ EnteredOK /\ ChosenOK /\ QueueOK
  BY <1>1 DEF Init, OrderOK, EnteredOK, ChosenOK, Leads, QueueOK
<1>4. SurfaceOK
  BY DEF Init, SurfaceInit, SurfaceOK, SurfaceTypeOK, NoStaleSurface, Mounted
<1>5. BadgeOK
  BY <1>1 DEF Init, BadgeOK, BadgeTellsSource, Told, Status
<1>6. LatestOK
  BY <1>1 DEF Init, LatestOK
<1> QED BY <1>2, <1>3, <1>4, <1>5, <1>6 DEF ViewerInv

\* A stuttering step changes nothing that the invariant looks at.
LEMMA StutterViewer ==
  ASSUME ViewerInv, UNCHANGED vars
  PROVE  ViewerInv'
<1>1. /\ UNCHANGED <<router, at, queue, generation, task, session, admitted, active, display,
                     resource, sent, parsing, shown, torn, latest, chosen>>
      /\ UNCHANGED <<surface, mounted, mounts, dying, live>>
  BY DEF vars, surfaceVars, transitionVars, routerVars, stateVars, budgetVars
<1>2. TypesOK'
  BY <1>1, SameKinds DEF ViewerInv, TypesOK
<1>3. OrderOK' /\ EnteredOK' /\ ChosenOK'
  BY <1>1 DEF ViewerInv, OrderOK, EnteredOK, ChosenOK, Leads, EndsOn
<1>4. SurfaceOK'
  BY <1>1 DEF ViewerInv, SurfaceOK, SurfaceTypeOK, NoStaleSurface, Mounted
<1>5. BadgeOK'
  BY <1>1 DEF ViewerInv, BadgeOK, BadgeTellsSource, Told, EndsOn
<1>6. QueueOK' /\ (ReplacePending' <=> ReplacePending)
  BY <1>1 DEF ViewerInv, QueueOK, ReplacePending, Current
<1>7. LatestOK'
  BY <1>1, <1>6 DEF ViewerInv, LatestOK, EndsOn
<1> QED BY <1>2, <1>3, <1>4, <1>5, <1>6, <1>7 DEF ViewerInv

\* Every step keeps the invariant.
LEMMA NextViewer ==
  ASSUME ViewerInv, Next
  PROVE  ViewerInv'
<1>1. CASE Host
  BY <1>1, ToolMessageStep, SessionArrivesStep, ContextChangesStep, TeardownStep DEF Host
<1>2. CASE User
  BY <1>2, OpenRunStep, BackToListStep DEF User
<1>3. CASE TaskRuns
  BY <1>3, ToolTaskStep, CaptureTaskStep, CaptureParsedStep, RecordedTaskStep,
     AdmittedTaskStep, RemountTaskStep DEF TaskRuns
<1>4. CASE Route
  BY <1>4, LeaveStep, EnterStep, EnterRunStep, RunLoadedStep DEF Route
<1>5. CASE Work
  BY <1>3, <1>4, <1>5, SkippedStep, TeardownTaskStep, SurfacesStep, SessionParsedStep DEF Work
<1> QED BY <1>1, <1>2, <1>5 DEF Next

\* Router, queue and state stay in step, whatever host and user do.
THEOREM ViewerInvariant == Spec => []ViewerInv
<1>1. Init => ViewerInv
  BY InitViewer
<1>2. ViewerInv /\ [Next]_vars => ViewerInv'
  BY NextViewer, StutterViewer
<1> QED BY <1>1, <1>2, PTL DEF Spec

\* No surface outlives the view that scheduled it, and no handle is forgotten
\* without being disposed of.
THEOREM SurfacesBelongToTheView == Spec => []NoStaleSurface
<1>1. ViewerInv => NoStaleSurface
  BY DEF ViewerInv, SurfaceOK
<1> QED BY <1>1, ViewerInvariant, PTL

\* RECORDED is on a settled page exactly when its content is recorded and the page
\* has a masthead at all.
THEOREM BadgeIsTrue == Spec => []BadgeTellsSource
<1>1. ViewerInv => BadgeTellsSource
  BY DEF ViewerInv, BadgeOK
<1> QED BY <1>1, ViewerInvariant, PTL

\* A page on which nothing more is to happen shows the message queued last.
THEOREM LastMessageWins == Spec => []LatestMessageIsShown
<1>1. ViewerInv => LatestMessageIsShown
  <2> SUFFICES ASSUME ViewerInv, Quiet, torn = "no"
               PROVE  shown.view.of = latest
    BY DEF LatestMessageIsShown
  <2>1. queue = <<>> /\ router = <<>>
    BY DEF Quiet
  <2>2. ~ ReplacePending
    BY <2>1 DEF ReplacePending
  <2> QED BY <2>1, <2>2 DEF ViewerInv, LatestOK
<1> QED BY <1>1, ViewerInvariant, PTL

\* Once navigation has settled the page shows what was asked for last, unless a
\* context change took its turn before that view was entered.
THEOREM RemountIsHarmless == Spec => []RemountNeverUndoes
<1>1. ViewerInv => RemountNeverUndoes
  BY DEF ViewerInv, ChosenOK, Leads, RemountNeverUndoes, Shows
<1> QED BY <1>1, ViewerInvariant, PTL

-----------------------------------------------------------------------------
(* SessionAdmission: the content of one session.                           *)

-----------------------------------------------------------------------------
(* The shapes of what a host hands over.                                   *)

Faces == [record_schema_version : Contract, run_id : Run, fingerprint : Run \X Contract, facts : Run]

RunEnvelopes  == [schemaVersion : Contract, kind : {"run"}, run : Faces]
ListEnvelopes == [schemaVersion : Contract, kind : {"run-list"}, runs : Seq(Faces)]

RunDetails ==
  [run_id : Run, status : {"available"}, result : RunEnvelopes]
    \cup [run_id : Run, status : {"pending"}]

Projections ==
  [status : {"available"}, result : RunEnvelopes \cup ListEnvelopes, details : Seq(RunDetails)]
    \cup [status : {"pending", "rejected"}]

\* A results session: its anchor, its artifacts and its digest may be anything.
ResultsDraft(s) ==
  /\ IsRecord(s, {"kind", "anchor", "projection", "artifacts", "projectionSha256"})
  /\ s.kind = "results" /\ s.projection \in Projections

\* A capture whose receipt is signed for some execution, whatever it says.
SignedCapture(c) ==
  /\ IsRecord(c, CaptureFields) /\ IsRecord(c.receipt, ReceiptFields)
  /\ \E x \in Executions : c.receipt.fingerprint = x.receipt.fingerprint

AdmittedDraft(s) ==
  /\ IsRecord(s, {"kind", "basis", "runId", "refs", "anchor", "projection"})
  /\ s.kind = "admitted"
  /\ \/ s.projection = [status |-> "running"]
     \/ /\ IsRecord(s.projection, {"status", "capture"})
        /\ s.projection.status = "available" /\ SignedCapture(s.projection.capture)

CaptureDraft(s) ==
  IsRecord(s, {"kind", "capture"}) /\ s.kind = "capture" /\ SignedCapture(s.capture)

Draft(s) == ResultsDraft(s) \/ AdmittedDraft(s) \/ CaptureDraft(s)

\* What is under way has its shape; what is applied was verified; a detail is
\* open only while nothing is assembled, or over the results that are applied.
AdmissionInv ==
  /\ stage \in {"none", "composing", "sealed", "verifying", "refused", "failed", "applied"}
  /\ stage # "none" => Draft(draft)
  /\ stage = "applied" =>
       \/ draft.kind = "results" /\ VerifiesResults(draft)
       \/ draft.kind = "admitted" /\ VerifiesAdmitted(draft, Nothing)
       \/ draft.kind = "capture" /\ ParsesCapture(draft.capture) /\ VerifiesCapture(draft.capture)
  /\ opened # Nothing => stage = "none" \/ (stage = "applied" /\ draft.kind = "results")
  /\ DetailIsTheListedRun

-----------------------------------------------------------------------------
(* What a host assembles has its shape.                                    *)

\* A set of runs as a list.
LEMMA ListedRuns ==
  ASSUME NEW ids \in SUBSET Run
  PROVE  /\ Cardinality(ids) \in Nat
         /\ SetToSeq(ids) \in [1 .. Cardinality(ids) -> ids]
         /\ IsInjective(SetToSeq(ids))
<1>1. IsFiniteSet(ids) /\ Cardinality(ids) \in Nat /\ ExistsBijection(1 .. Cardinality(ids), ids)
  BY SessionConstants, FS_Subset, FS_CardinalityType
<1>2. \E f \in [1 .. Cardinality(ids) -> ids] : IsInjective(f)
  BY <1>1 DEF ExistsBijection, Bijection, Injection
<1> QED BY <1>1, <1>2 DEF SetToSeq

\* The face of a run.
LEMMA FaceIs ==
  ASSUME NEW id \in Run, NEW contract \in Contract
  PROVE  Face(id, contract) \in Faces /\ Face(id, contract).run_id = id
BY DEF Face, Faces

\* The results sessions: of a run, of a list with details, or waiting.
LEMMA ResultsAre ==
  ASSUME NEW s \in ResultsSessions
  PROVE  \/ \E id \in Run, contract \in Contract : s = RunSession(Face(id, contract))
         \/ \E ids \in SUBSET Run, contract \in Contract : \E detailed \in SUBSET ids :
              s = ListSession(contract, ids, detailed)
         \/ \E kind \in {"modelica-run", "modelica-run-list"}, status \in {"pending", "rejected"} :
              s = Results([kind |-> kind, id |-> "awaited"], [status |-> status])
<1> DEFINE Lists(ids, contract) ==
             {ListSession(contract, ids, detailed) : detailed \in {d \in SUBSET ids : Cardinality(d) <= Details}}
           Listed == UNION {Lists(ids, contract) : ids \in SUBSET Run, contract \in Contract}
           Alone == {RunSession(Face(id, contract)) : id \in Run, contract \in Contract}
           Awaited == {Results([kind |-> kind, id |-> "awaited"], [status |-> status])
                         : kind \in {"modelica-run", "modelica-run-list"}, status \in {"pending", "rejected"}}
<1>1. s \in Alone \cup Listed \cup Awaited
  BY DEF ResultsSessions
<1>2. CASE s \in Alone
  BY <1>2
<1>3. CASE s \in Listed
  <2>1. PICK ids \in SUBSET Run, contract \in Contract : s \in Lists(ids, contract)
    <3> HIDE DEF Lists
    <3> QED BY <1>3
  <2>2. PICK detailed \in SUBSET ids : s = ListSession(contract, ids, detailed)
    BY <2>1
  <2> QED BY <2>2
<1>4. CASE s \in Awaited
  BY <1>4
<1> HIDE DEF Alone, Lists, Listed, Awaited
<1> QED BY <1>1, <1>2, <1>3, <1>4

\* Each has its shape.
LEMMA ResultsShapes ==
  ASSUME NEW s \in ResultsSessions
  PROVE  ResultsDraft(s)
<1>1. ASSUME NEW anchor, NEW p \in Projections, s = Results(anchor, p)
      PROVE  ResultsDraft(s)
  BY <1>1 DEF Results, ResultsDraft, IsRecord
<1>2. CASE \E id \in Run, contract \in Contract : s = RunSession(Face(id, contract))
  <2>1. PICK id \in Run, contract \in Contract : s = RunSession(Face(id, contract))
    BY <1>2
  <2> DEFINE p == [status |-> "available", result |-> RunEnvelope(Face(id, contract)), details |-> <<>>]
  <2>2. RunEnvelope(Face(id, contract)) \in RunEnvelopes
    BY FaceIs DEF RunEnvelope, RunEnvelopes, Faces
  <2>3. p \in Projections
    BY <2>2 DEF Projections
  <2> HIDE DEF p
  <2>4. s = Results([kind |-> "modelica-run", id |-> Face(id, contract).run_id], p)
    BY <2>1 DEF RunSession, p
  <2> QED BY <1>1, <2>3, <2>4
<1>3. CASE \E ids \in SUBSET Run, contract \in Contract : \E detailed \in SUBSET ids :
             s = ListSession(contract, ids, detailed)
  <2>1. PICK ids \in SUBSET Run, contract \in Contract :
          \E detailed \in SUBSET ids : s = ListSession(contract, ids, detailed)
    BY <1>3
  <2>7. PICK detailed \in SUBSET ids : s = ListSession(contract, ids, detailed)
    BY <2>1
  <2> DEFINE faces(set) == [i \in DOMAIN SetToSeq(set) |-> Face(SetToSeq(set)[i], contract)]
             details == [i \in DOMAIN faces(detailed) |-> Detail(faces(detailed)[i])]
             p == [status |-> "available", result |-> ListEnvelope(contract, faces(ids)),
                   details |-> details]
  <2>2. ASSUME NEW set \in SUBSET Run
        PROVE  /\ Cardinality(set) \in Nat /\ faces(set) \in [1 .. Cardinality(set) -> Faces]
               /\ faces(set) \in Seq(Faces)
    <3>1. Cardinality(set) \in Nat /\ SetToSeq(set) \in [1 .. Cardinality(set) -> set]
      BY ListedRuns
    <3>2. faces(set) \in [1 .. Cardinality(set) -> Faces]
      BY <3>1, FaceIs
    <3> QED BY <3>1, <3>2
  <2>3. details \in Seq(RunDetails)
    <3>1. /\ detailed \in SUBSET Run /\ Cardinality(detailed) \in Nat
          /\ faces(detailed) \in [1 .. Cardinality(detailed) -> Faces]
      BY <2>2
    <3>2. ASSUME NEW run \in Faces PROVE Detail(run) \in RunDetails
      BY DEF Detail, RunDetails, RunEnvelope, RunEnvelopes, Faces
    <3> HIDE DEF faces
    <3>3. details \in [1 .. Cardinality(detailed) -> RunDetails]
      BY <3>1, <3>2
    <3> QED BY <3>1, <3>3
  <2> HIDE DEF faces, details
  <2>4. p \in Projections
    BY <2>2, <2>3 DEF Projections, ListEnvelope, ListEnvelopes
  <2>5. s = Results([kind |-> "modelica-run-list", id |-> "list"], p)
    BY <2>7 DEF ListSession, faces, details
  <2> HIDE DEF p
  <2> QED BY <1>1, <2>4, <2>5
<1>4. CASE \E kind \in {"modelica-run", "modelica-run-list"}, status \in {"pending", "rejected"} :
             s = Results([kind |-> kind, id |-> "awaited"], [status |-> status])
  <2>1. PICK kind \in {"modelica-run", "modelica-run-list"}, status \in {"pending", "rejected"} :
          s = Results([kind |-> kind, id |-> "awaited"], [status |-> status])
    BY <1>4
  <2>2. [status |-> status] \in Projections
    BY DEF Projections
  <2> QED BY <1>1, <2>1, <2>2
<1> QED BY <1>2, <1>3, <1>4, ResultsAre

\* A genuine capture, and the sessions around it.
LEMMA AdmittedShapes ==
  ASSUME NEW c \in Executions
  PROVE  /\ AdmittedDraft(AdmittedSession(c)) /\ AdmittedDraft(WaitingSession(c))
         /\ CaptureDraft(Captured(c))
<1>1. SignedCapture(c)
  BY ExecutionsAgree DEF SignedCapture
<1>2. AdmittedDraft(AdmittedSession(c))
  BY <1>1 DEF AdmittedSession, AdmittedDraft, IsRecord
<1>3. AdmittedDraft(WaitingSession(c))
  BY DEF WaitingSession, AdmittedSession, AdmittedDraft, IsRecord
<1>4. CaptureDraft(Captured(c))
  BY <1>1 DEF Captured, CaptureDraft, IsRecord
<1> QED BY <1>2, <1>3, <1>4

\* So whatever a host assembles has its shape.
LEMMA GenuineShapes ==
  ASSUME NEW s \in Genuine
  PROVE  Draft(s)
<1>1. s \in ResultsSessions \/ \E c \in Executions : s \in {AdmittedSession(c), WaitingSession(c), Captured(c)}
  BY DEF Genuine
<1> QED BY <1>1, AdmittedShapes, ResultsShapes DEF Draft

-----------------------------------------------------------------------------
(* Misplaced parts.                                                        *)

\* A splice is the record with one field of the other.
LEMMA SpliceIs ==
  ASSUME NEW fields, NEW r, NEW o, IsRecord(r, fields), IsRecord(o, fields),
         NEW x \in Splice(r, o)
  PROVE  /\ IsRecord(x, fields)
         /\ \E field \in fields : /\ x[field] = o[field]
                                  /\ \A other \in fields \ {field} : x[other] = r[other]
BY DEF Splice, IsRecord

\* The face of a run stays one.
LEMMA SplicedRun ==
  ASSUME NEW run \in Faces, NEW x \in SpliceRun(run)
  PROVE  x \in Faces
<1>1. PICK id \in Run, contract \in Contract : x \in Splice(run, Face(id, contract))
  <2> DEFINE S(id, contract) == Splice(run, Face(id, contract))
  <2> HIDE DEF S
  <2>1. x \in UNION {S(id, contract) : id \in Run, contract \in Contract}
    BY DEF SpliceRun, S
  <2> QED BY <2>1 DEF S
<1> DEFINE fields == {"record_schema_version", "run_id", "fingerprint", "facts"}
<1>2. Face(id, contract) \in Faces
  BY FaceIs
<1>3. ASSUME NEW f \in Faces PROVE IsRecord(f, fields)
  BY DEF Faces, IsRecord
<1>4. IsRecord(x, fields) /\ \A field \in fields : x[field] = run[field] \/ x[field] = Face(id, contract)[field]
  BY <1>1, <1>2, <1>3, SpliceIs
<1>5. x = [record_schema_version |-> x.record_schema_version, run_id |-> x.run_id,
           fingerprint |-> x.fingerprint, facts |-> x.facts]
  BY <1>4 DEF IsRecord
<1>6. /\ x.record_schema_version \in Contract /\ x.run_id \in Run
      /\ x.fingerprint \in Run \X Contract /\ x.facts \in Run
  BY <1>2, <1>4 DEF Faces
<1> QED BY <1>5, <1>6 DEF Faces

\* So does a detail.
LEMMA SplicedDetail ==
  ASSUME NEW d \in RunDetails, NEW x \in SpliceDetail(d)
  PROVE  x \in RunDetails
<1>1. d \in [run_id : Run, status : {"available"}, result : RunEnvelopes]
  BY DEF RunDetails, SpliceDetail
<1>2. \/ \E id \in Run : x = [d EXCEPT !.run_id = id]
      \/ \E run \in SpliceRun(d.result.run) : x = [d EXCEPT !.result.run = run]
      \/ \E contract \in Contract : x = [d EXCEPT !.result.schemaVersion = contract]
      \/ x = [run_id |-> d.run_id, status |-> "pending"]
  BY <1>1 DEF SpliceDetail
<1>3. CASE \E id \in Run : x = [d EXCEPT !.run_id = id]
  BY <1>1, <1>3 DEF RunDetails
<1>4. CASE \E run \in SpliceRun(d.result.run) : x = [d EXCEPT !.result.run = run]
  <2>1. PICK run \in SpliceRun(d.result.run) : x = [d EXCEPT !.result.run = run]
    BY <1>4
  <2>2. run \in Faces
    BY <1>1, SplicedRun DEF RunEnvelopes
  <2> QED BY <1>1, <2>1, <2>2 DEF RunDetails, RunEnvelopes
<1>5. CASE \E contract \in Contract : x = [d EXCEPT !.result.schemaVersion = contract]
  BY <1>1, <1>5 DEF RunDetails, RunEnvelopes
<1>6. CASE x = [run_id |-> d.run_id, status |-> "pending"]
  BY <1>1, <1>6 DEF RunDetails
<1> QED BY <1>2, <1>3, <1>4, <1>5, <1>6

\* And a projection: a run, a list, or what waits for one.
LEMMA SplicedProjection ==
  ASSUME NEW p \in Projections, NEW x \in SpliceProjection(p)
  PROVE  x \in Projections
<1> DEFINE Available ==
             [status : {"available"}, result : RunEnvelopes \cup ListEnvelopes, details : Seq(RunDetails)]
<1>1. p \in Available
  BY DEF Projections, SpliceProjection
<1>2. SUFFICES x \in Available
  BY DEF Projections
<1>3. \/ p.result \in RunEnvelopes /\ p.result.kind = "run"
      \/ p.result \in ListEnvelopes /\ p.result.kind = "run-list"
  BY <1>1 DEF RunEnvelopes, ListEnvelopes
<1>4. \/ \E contract \in Contract : x = [p EXCEPT !.result.schemaVersion = contract]
      \/ p.result.kind = "run" /\ \E run \in SpliceRun(p.result.run) : x = [p EXCEPT !.result.run = run]
      \/ /\ p.result.kind # "run"
         /\ \E i \in DOMAIN p.result.runs : \E run \in SpliceRun(p.result.runs[i]) :
              x = [p EXCEPT !.result.runs[i] = run]
      \/ \E i \in DOMAIN p.details : \E d \in SpliceDetail(p.details[i]) : x = [p EXCEPT !.details[i] = d]
  <2> DEFINE OfRun(i) == {[p EXCEPT !.result.runs[i] = run] : run \in SpliceRun(p.result.runs[i])}
             OfDetail(i) == {[p EXCEPT !.details[i] = d] : d \in SpliceDetail(p.details[i])}
             Runs == IF p.result.kind = "run"
                       THEN {[p EXCEPT !.result.run = run] : run \in SpliceRun(p.result.run)}
                       ELSE UNION {OfRun(i) : i \in DOMAIN p.result.runs}
             Detailed == UNION {OfDetail(i) : i \in DOMAIN p.details}
             Contracts == {[p EXCEPT !.result.schemaVersion = contract] : contract \in Contract}
  <2>1. x \in Contracts \cup Runs \cup Detailed
    BY <1>1 DEF SpliceProjection
  <2>2. CASE x \in Contracts
    BY <2>2
  <2>3. CASE x \in Runs /\ p.result.kind = "run"
    BY <2>3
  <2>4. CASE x \in Runs /\ p.result.kind # "run"
    <3>1. PICK i \in DOMAIN p.result.runs : x \in OfRun(i)
      <4> HIDE DEF OfRun
      <4> QED BY <2>4
    <3> QED BY <2>4, <3>1
  <2>5. CASE x \in Detailed
    <3>1. PICK i \in DOMAIN p.details : x \in OfDetail(i)
      <4> HIDE DEF OfDetail
      <4> QED BY <2>5
    <3> QED BY <3>1
  <2> HIDE DEF Runs, Detailed, Contracts
  <2> QED BY <2>1, <2>2, <2>3, <2>4, <2>5
<1>5. CASE \E contract \in Contract : x = [p EXCEPT !.result.schemaVersion = contract]
  BY <1>1, <1>3, <1>5 DEF RunEnvelopes, ListEnvelopes
<1>6. CASE p.result.kind = "run" /\ \E run \in SpliceRun(p.result.run) : x = [p EXCEPT !.result.run = run]
  <2>1. PICK run \in SpliceRun(p.result.run) : x = [p EXCEPT !.result.run = run]
    BY <1>6
  <2>2. run \in Faces
    BY <1>3, <1>6, SplicedRun DEF RunEnvelopes
  <2> QED BY <1>1, <1>3, <1>6, <2>1, <2>2 DEF RunEnvelopes
<1>7. CASE /\ p.result.kind # "run"
           /\ \E i \in DOMAIN p.result.runs : \E run \in SpliceRun(p.result.runs[i]) :
                x = [p EXCEPT !.result.runs[i] = run]
  <2>1. PICK i \in DOMAIN p.result.runs : \E run \in SpliceRun(p.result.runs[i]) :
          x = [p EXCEPT !.result.runs[i] = run]
    BY <1>7
  <2>2. PICK run \in SpliceRun(p.result.runs[i]) : x = [p EXCEPT !.result.runs[i] = run]
    BY <2>1
  <2>3. p.result \in ListEnvelopes /\ p.result.runs \in Seq(Faces) /\ p.result.runs[i] \in Faces
    BY <1>3, <1>7, <2>1 DEF ListEnvelopes
  <2>4. [p.result.runs EXCEPT ![i] = run] \in Seq(Faces)
    BY <2>1, <2>2, <2>3, SplicedRun, ExceptSeq
  <2>5. [p.result EXCEPT !.runs = [p.result.runs EXCEPT ![i] = run]] \in ListEnvelopes
    BY <2>3, <2>4 DEF ListEnvelopes
  <2>6. x = [p EXCEPT !.result = [p.result EXCEPT !.runs = [p.result.runs EXCEPT ![i] = run]]]
    BY <2>2
  <2> QED BY <1>1, <2>5, <2>6
<1>8. CASE \E i \in DOMAIN p.details : \E d \in SpliceDetail(p.details[i]) : x = [p EXCEPT !.details[i] = d]
  <2>1. PICK i \in DOMAIN p.details : \E d \in SpliceDetail(p.details[i]) : x = [p EXCEPT !.details[i] = d]
    BY <1>8
  <2>2. PICK d \in SpliceDetail(p.details[i]) : x = [p EXCEPT !.details[i] = d]
    BY <2>1
  <2>3. p.details \in Seq(RunDetails) /\ p.details[i] \in RunDetails
    BY <1>1, <2>1
  <2>4. [p.details EXCEPT ![i] = d] \in Seq(RunDetails)
    BY <2>1, <2>2, <2>3, SplicedDetail, ExceptSeq
  <2>5. x = [p EXCEPT !.details = [p.details EXCEPT ![i] = d]]
    BY <2>2
  <2> QED BY <1>1, <2>4, <2>5
<1> HIDE DEF Available
<1> QED BY <1>4, <1>5, <1>6, <1>7, <1>8

\* A results session stays one.
LEMMA SplicedResults ==
  ASSUME NEW s, ResultsDraft(s), NEW x \in Spliced(s)
  PROVE  ResultsDraft(x)
<1> DEFINE Foreign(i) == UNION {Splice(s.artifacts[i], Artifact(Face(id, contract)))
                                  : id \in Run, contract \in Contract}
           OfArtifact(i) == {[s EXCEPT !.artifacts[i] = a] : a \in Foreign(i)}
           Artifacts == UNION {OfArtifact(i) : i \in DOMAIN s.artifacts}
           Content == {[s EXCEPT !.projection = p] : p \in SpliceProjection(s.projection)}
           Ids == {[s EXCEPT !.anchor.id = id] : id \in Run}
           Anchors == {[s EXCEPT !.anchor.kind = kind] : kind \in {"modelica-run", "modelica-run-list"}}
<1>1. x \in SpliceResults(s)
  BY DEF Spliced, ResultsDraft
<1>2. x \in Content \cup Artifacts \cup Ids \cup Anchors
  BY <1>1 DEF SpliceResults
<1>3. CASE x \in Content
  <2>1. PICK p \in SpliceProjection(s.projection) : x = [s EXCEPT !.projection = p]
    BY <1>3
  <2>2. p \in Projections
    BY SplicedProjection DEF ResultsDraft
  <2> QED BY <2>1, <2>2 DEF ResultsDraft, IsRecord
<1>4. CASE x \in Artifacts
  <2>1. PICK i \in DOMAIN s.artifacts : x \in OfArtifact(i)
    <3> HIDE DEF OfArtifact
    <3> QED BY <1>4
  <2> HIDE DEF Foreign
  <2> QED BY <2>1 DEF ResultsDraft, IsRecord
<1>5. CASE x \in Ids
  BY <1>5 DEF ResultsDraft, IsRecord
<1>6. CASE x \in Anchors
  BY <1>6 DEF ResultsDraft, IsRecord
<1> HIDE DEF Content, Artifacts, Ids, Anchors
<1> QED BY <1>2, <1>3, <1>4, <1>5, <1>6

\* The receipt of a capture stays signed for some execution.
LEMMA SplicedCapture ==
  ASSUME NEW c, SignedCapture(c), NEW other \in Executions, NEW x \in SpliceCapture(c, other)
  PROVE  SignedCapture(x)
<1> DEFINE Fields == Splice(c, other)
           Admissions == {[c EXCEPT !.admission = a] : a \in Splice(c.admission, other.admission)}
           Receipts == {[c EXCEPT !.receipt = r] : r \in Splice(c.receipt, other.receipt)}
<1>1. SignedCapture(other)
  BY ExecutionsAgree DEF SignedCapture
<1>2. x \in Fields \cup Admissions \cup Receipts
  BY DEF SpliceCapture
<1>3. CASE x \in Fields
  <2>1. IsRecord(x, CaptureFields) /\ (x.receipt = c.receipt \/ x.receipt = other.receipt)
    BY <1>1, <1>3, SpliceIs DEF SignedCapture, CaptureFields
  <2> QED BY <1>1, <2>1 DEF SignedCapture
<1>4. CASE x \in Admissions
  <2>1. PICK a \in Splice(c.admission, other.admission) : x = [c EXCEPT !.admission = a]
    BY <1>4
  <2>2. IsRecord(x, CaptureFields) /\ x.receipt = c.receipt
    BY <2>1 DEF SignedCapture, IsRecord, CaptureFields
  <2> QED BY <2>2 DEF SignedCapture
<1>5. CASE x \in Receipts
  <2>1. PICK r \in Splice(c.receipt, other.receipt) : x = [c EXCEPT !.receipt = r]
    BY <1>5
  <2>2. IsRecord(r, ReceiptFields) /\ (r.fingerprint = c.receipt.fingerprint \/ r.fingerprint = other.receipt.fingerprint)
    BY <1>1, SpliceIs DEF SignedCapture, ReceiptFields
  <2>3. IsRecord(x, CaptureFields) /\ x.receipt = r
    BY <2>1 DEF SignedCapture, IsRecord, CaptureFields
  <2> QED BY <2>2, <2>3 DEF SignedCapture
<1> HIDE DEF Fields, Admissions, Receipts
<1> QED BY <1>2, <1>3, <1>4, <1>5

\* A session of an admitted execution stays one.
LEMMA SplicedAdmitted ==
  ASSUME NEW s, AdmittedDraft(s), NEW x \in Spliced(s)
  PROVE  AdmittedDraft(x)
<1>1. PICK other \in Executions : x \in SpliceAdmitted(s, other)
  <2> HIDE DEF SpliceAdmitted
  <2>1. x \in UNION {SpliceAdmitted(s, other) : other \in Executions}
    BY DEF Spliced, AdmittedDraft
  <2> QED BY <2>1
<1> DEFINE t == AdmittedSession(other)
           Bases == {[s EXCEPT !.basis = basis] : basis \in Splice(s.basis, t.basis)}
           Producers == {[s EXCEPT !.runId = t.runId], [s EXCEPT !.anchor = t.anchor]}
           Refs == {[s EXCEPT !.refs = refs] : refs \in Splice(s.refs, t.refs)}
           Captures == IF s.projection.status # "available" THEN {}
                       ELSE {[s EXCEPT !.projection.capture = c] : c \in SpliceCapture(s.projection.capture, other)}
<1>2. x \in Bases \cup Producers \cup Refs \cup Captures
  BY <1>1 DEF SpliceAdmitted
<1>3. CASE x \in Bases
  <2>1. PICK basis : x = [s EXCEPT !.basis = basis]
    BY <1>3
  <2> QED BY <2>1 DEF AdmittedDraft, IsRecord
<1>4. CASE x \in Producers
  <2>1. \/ \E run : x = [s EXCEPT !.runId = run]
        \/ \E anchor : x = [s EXCEPT !.anchor = anchor]
    BY <1>4
  <2> QED BY <2>1 DEF AdmittedDraft, IsRecord
<1>5. CASE x \in Refs
  <2>1. PICK refs : x = [s EXCEPT !.refs = refs]
    BY <1>5
  <2> QED BY <2>1 DEF AdmittedDraft, IsRecord
<1>6. CASE x \in Captures
  <2>1. PICK c \in SpliceCapture(s.projection.capture, other) : x = [s EXCEPT !.projection.capture = c]
    BY <1>6
  <2>2. s.projection.status = "available"
    BY <1>6
  <2>3. SignedCapture(s.projection.capture) /\ IsRecord(s.projection, {"status", "capture"})
    BY <2>2 DEF AdmittedDraft
  <2>4. SignedCapture(c)
    BY <2>3, SplicedCapture
  <2>5. /\ IsRecord(x, {"kind", "basis", "runId", "refs", "anchor", "projection"}) /\ x.kind = "admitted"
        /\ x.projection = [s.projection EXCEPT !.capture = c]
    BY <2>1 DEF AdmittedDraft, IsRecord
  <2>6. IsRecord(x.projection, {"status", "capture"}) /\ x.projection.status = "available" /\ x.projection.capture = c
    BY <2>2, <2>3, <2>5 DEF IsRecord
  <2> QED BY <2>4, <2>5, <2>6 DEF AdmittedDraft
<1> HIDE DEF Bases, Producers, Refs, Captures
<1> QED BY <1>2, <1>3, <1>4, <1>5, <1>6

\* Whatever is misplaced, and whenever the digest is taken.
LEMMA SplicedShapes ==
  ASSUME NEW s, Draft(s), NEW x \in Spliced(s)
  PROVE  Draft(x)
<1>1. CASE ResultsDraft(s)
  BY <1>1, SplicedResults DEF Draft
<1>2. CASE AdmittedDraft(s)
  BY <1>2, SplicedAdmitted DEF Draft
<1>3. CASE CaptureDraft(s)
  <2> DEFINE Of(other) == {Captured(c) : c \in SpliceCapture(s.capture, other)}
  <2>1. x \in UNION {Of(other) : other \in Executions}
    BY <1>3 DEF Spliced, CaptureDraft
  <2>2. PICK other \in Executions : x \in Of(other)
    <3> HIDE DEF Of
    <3> QED BY <2>1
  <2>3. PICK c \in SpliceCapture(s.capture, other) : x = Captured(c)
    BY <2>2
  <2>4. SignedCapture(c)
    BY <1>3, SplicedCapture DEF CaptureDraft
  <2> QED BY <2>3, <2>4 DEF Draft, CaptureDraft, Captured, IsRecord
<1> QED BY <1>1, <1>2, <1>3 DEF Draft

\* A digest keeps it: it takes the place of another.
LEMMA SealedShapes ==
  ASSUME NEW s, Draft(s)
  PROVE  Draft(Sealed(s))
<1>1. CASE ResultsDraft(s)
  BY <1>1 DEF Draft, ResultsDraft, Sealed, IsRecord
<1>2. CASE AdmittedDraft(s)
  BY <1>2 DEF Draft, AdmittedDraft, Sealed, IsRecord
<1>3. CASE CaptureDraft(s)
  BY <1>3 DEF Draft, CaptureDraft, Sealed
<1> QED BY <1>1, <1>2, <1>3 DEF Draft

-----------------------------------------------------------------------------
(* What is verified.                                                       *)

\* The detail that verified results answer with is a run that they list: the
\* projection repeats its facts, and one artifact its fingerprint.
LEMMA AnswerIsListed ==
  ASSUME NEW s, ResultsDraft(s), VerifiesResults(s), NEW id, Resolve(s, id).status = "available"
  PROVE  LET run == Resolve(s, id).result.run
         IN  /\ run.run_id = id /\ run \in Range(ProjectedRuns(s.projection))
             /\ \E i \in DOMAIN s.artifacts :
                  s.artifacts[i].runId = id /\ s.artifacts[i].runFingerprint = run.fingerprint
<1> DEFINE p == s.projection
           run == Resolve(s, id).result.run
<1>1. ParsesProjection(p) /\ ProvenanceMatches(s.artifacts, p) /\ p \in Projections
  BY DEF VerifiesResults, ParsesResults, ResultsDraft
<1>2. p.status = "available"
  BY DEF Resolve
<1>3. /\ p.result \in RunEnvelopes \cup ListEnvelopes /\ p.details \in Seq(RunDetails)
      /\ \A i \in DOMAIN p.details : ParsesDetail(p.details[i])
      /\ IsInjective([i \in DOMAIN p.details |-> p.details[i].run_id])
      /\ DetailsMatchResult(p.details, p.result)
  BY <1>1, <1>2 DEF Projections, ParsesProjection, Waiting, Unanswered
<1>4. run.run_id = id /\ \E i \in DOMAIN ProjectedRuns(p) : run = ProjectedRuns(p)[i]
  <2>1. CASE p.result.kind = "run"
    <3>1. run = p.result.run /\ run.run_id = id
      BY <1>2, <2>1 DEF Resolve, Unavailable
    <3>2. ProjectedRuns(p) = <<run>>
      BY <1>2, <2>1, <3>1 DEF ProjectedRuns
    <3> QED BY <3>1, <3>2
  <2>2. CASE p.result.kind # "run"
    <3> DEFINE asked == {i \in DOMAIN p.details : p.details[i].run_id = id}
    <3>1. Resolve(s, id) = IF asked # {} THEN p.details[CHOOSE i \in asked : \A j \in asked : i <= j]
                                        ELSE Unavailable(id)
      BY <1>2, <2>2 DEF Resolve
    <3>2. asked # {}
      BY <3>1 DEF Unavailable
    <3>3. PICK k \in asked : TRUE
      BY <3>2
    <3>4. asked = {k}
      BY <1>3, <3>3 DEF IsInjective
    <3>5. k \in DOMAIN p.details /\ k \in Nat /\ p.details[k].run_id = id /\ p.details[k] \in RunDetails
      BY <1>3, <3>3
    <3>6. (CHOOSE i \in asked : \A j \in asked : i <= j) = k
      BY <3>4, <3>5
    <3>7. Resolve(s, id) = p.details[k]
      BY <3>1, <3>2, <3>6
    <3> HIDE DEF asked
    <3>8. p.details[k].status = "available" /\ p.details[k].result \in RunEnvelopes /\ run = p.details[k].result.run
      BY <3>5, <3>7 DEF RunDetails
    <3>9. run.run_id = id
      BY <1>3, <3>5, <3>8 DEF ParsesDetail, Waiting, Unanswered
    <3>10. PICK j \in DOMAIN p.result.runs : SameRunSummaryFacts(p.result.runs[j], run)
      BY <1>3, <2>2, <3>5, <3>8 DEF DetailsMatchResult
    <3>11. p.result.runs[j] \in Faces /\ run \in Faces
      BY <1>3, <2>2, <3>8, <3>10 DEF RunEnvelopes, ListEnvelopes
    <3>12. run = p.result.runs[j]
      BY <3>10, <3>11 DEF SameRunSummaryFacts, Faces
    <3>13. ProjectedRuns(p) = p.result.runs
      BY <1>2, <2>2 DEF ProjectedRuns
    <3> QED BY <3>9, <3>10, <3>12, <3>13
  <2> QED BY <2>1, <2>2
<1>5. \E i \in DOMAIN s.artifacts :
         s.artifacts[i].runId = id /\ s.artifacts[i].runFingerprint = run.fingerprint
  BY <1>1, <1>4 DEF ProvenanceMatches
<1> HIDE DEF p, run
<1>6. run \in Range(ProjectedRuns(p))
  BY <1>4 DEF Range
<1> QED BY <1>4, <1>5, <1>6 DEF p, run

\* A capture that is verified has the receipt of an execution: the fingerprint is
\* signed over every other field of it.
LEMMA ReceiptIsIssued ==
  ASSUME NEW c, SignedCapture(c), ParsesCapture(c), VerifiesCapture(c)
  PROVE  \E x \in Executions :
           /\ c.receipt = x.receipt
           /\ c.projectId = x.projectId /\ c.agentRunId = x.agentRunId /\ c.source = x.source
           /\ \A field \in {"source", "policy", "runtime"} : c.admission[field] = x.admission[field]
<1>1. PICK x \in Executions : c.receipt.fingerprint = x.receipt.fingerprint
  BY DEF SignedCapture
<1> DEFINE r == c.receipt
           t == x.receipt
<1>2. /\ IsRecord(r, ReceiptFields) /\ IsRecord(t, ReceiptFields) /\ r.fingerprint = t.fingerprint
      /\ r.fingerprint = ReceiptMetadata(r) /\ t.fingerprint = ReceiptMetadata(t)
  BY <1>1, ExecutionsAgree DEF SignedCapture, VerifiesCapture, VerifiesReceipt
<1> HIDE DEF r, t
<1>3. DOMAIN r = ReceiptFields /\ DOMAIN t = ReceiptFields
  BY <1>2 DEF IsRecord
<1>4. \A field \in ReceiptFields \ {"fingerprint"} : r[field] = t[field]
  <2>1. \A field \in ReceiptFields \ {"fingerprint"} :
          ReceiptMetadata(r)[field] = r[field] /\ ReceiptMetadata(t)[field] = t[field]
    BY <1>3 DEF ReceiptMetadata
  <2> QED BY <1>2, <2>1
<1>5. \A field \in ReceiptFields : r[field] = t[field]
  BY <1>2, <1>4
<1>6. r = t
  BY <1>2, <1>5 DEF IsRecord
<1>7. /\ r.runId = ExecutionRunId(c.projectId, c.agentRunId)
      /\ c.source = r.source /\ c.admission.source = r.source
      /\ c.admission.policy = r.policy /\ c.admission.runtime = r.runtime
  BY DEF ParsesCapture, ParsesReceipt, VerifiesCapture, r
<1>8. /\ t.runId = ExecutionRunId(x.projectId, x.agentRunId)
      /\ x.source = t.source /\ x.admission.source = t.source
      /\ x.admission.policy = t.policy /\ x.admission.runtime = t.runtime
  BY ExecutionsAgree DEF t
<1>9. c.projectId = x.projectId /\ c.agentRunId = x.agentRunId
  BY <1>6, <1>7, <1>8 DEF ExecutionRunId
<1> QED BY <1>6, <1>7, <1>8, <1>9 DEF r, t

-----------------------------------------------------------------------------
(* The steps.                                                              *)

\* Nothing is under way at first.
LEMMA InitAdmission == AdmissionInit => AdmissionInv
BY DEF AdmissionInit, AdmissionInv, DetailIsTheListedRun

\* Every step of the host and of the viewer keeps it.
LEMMA NextAdmission == AdmissionInv /\ [AdmissionNext]_admissionVars => AdmissionInv'
<1> SUFFICES ASSUME AdmissionInv, [AdmissionNext]_admissionVars PROVE AdmissionInv'
  OBVIOUS
<1> USE DEF DetailIsTheListedRun
<1>1. CASE Compose
  BY <1>1, GenuineShapes DEF AdmissionInv, Compose
<1>2. CASE Misplace
  BY <1>2, SplicedShapes DEF AdmissionInv, Misplace
<1>3. CASE Seal
  BY <1>3, SealedShapes DEF AdmissionInv, Seal
<1>4. CASE Apply
  BY <1>4 DEF AdmissionInv, Apply
<1>5. CASE Verified
  BY <1>5 DEF AdmissionInv, Verified, Verifies
<1>6. CASE CaptureResult
  BY <1>6 DEF AdmissionInv, CaptureResult
<1>7. ASSUME NEW id \in Run, OpenRecorded(id) PROVE AdmissionInv'
  <2>1. ResultsDraft(draft) /\ VerifiesResults(draft)
    BY <1>7 DEF AdmissionInv, OpenRecorded, Draft, AdmittedDraft, CaptureDraft
  <2>2. opened' = [asked |-> id, detail |-> Resolve(draft, id)] /\ UNCHANGED <<rendered, draft, stage, edits>>
    BY <1>7 DEF OpenRecorded
  <2>3. DetailIsTheListedRun'
    BY <2>1, <2>2, AnswerIsListed
  <2> QED BY <1>7, <2>2, <2>3 DEF AdmissionInv, OpenRecorded
<1>8. ASSUME NEW id \in Run, NEW envelope \in Envelopes, OpenStandalone(id, envelope) PROVE AdmissionInv'
  BY <1>8 DEF AdmissionInv, OpenStandalone, Loaded
<1>9. CASE Back
  BY <1>9 DEF AdmissionInv, Back
<1>10. CASE Clear
  BY <1>10 DEF AdmissionInv, Clear
<1>11. CASE UNCHANGED admissionVars
  BY <1>11 DEF AdmissionInv, admissionVars
<1> QED BY <1>1, <1>2, <1>3, <1>4, <1>5, <1>6, <1>7, <1>8, <1>9, <1>10, <1>11 DEF AdmissionNext

-----------------------------------------------------------------------------
(* What holds of every behaviour.                                          *)

\* What is on its way to the screen keeps its shape, and nothing is applied that
\* was not verified, whatever a host misplaces and however often.
THEOREM AdmissionInvariant == AdmissionSpec => []AdmissionInv
BY InitAdmission, NextAdmission, PTL DEF AdmissionSpec

\* The detail that is opened (resolveModelicaRecordedRunDetail) is the run that
\* was asked for, as the session lists it: its facts and the fingerprint of its
\* artifact.
THEOREM DetailsAreListed == AdmissionSpec => []DetailIsTheListedRun
<1>1. AdmissionInv => DetailIsTheListedRun
  BY DEF AdmissionInv
<1> QED BY <1>1, AdmissionInvariant, PTL

\* A capture that is shown is the capture of one execution: its receipt is one
\* that the executor signed, for this project, agent run, source, policy and
\* runtime, and the session around it names the outputs of that receipt.
THEOREM AdmittedAreOneExecution == AdmissionSpec => []AdmittedIsOneExecution
<1>1. AdmissionInv => AdmittedIsOneExecution
  <2> SUFFICES ASSUME AdmissionInv, stage = "applied", draft.kind # "results",
                      draft.kind = "admitted" => draft.projection.status = "available"
               PROVE  \E c \in Executions :
                        /\ ShownCapture.receipt = c.receipt
                        /\ ShownCapture.projectId = c.projectId /\ ShownCapture.agentRunId = c.agentRunId
                        /\ ShownCapture.source = c.source
                        /\ \A field \in {"source", "policy", "runtime"} :
                             ShownCapture.admission[field] = c.admission[field]
                        /\ draft.kind = "admitted" =>
                             /\ draft.basis.projectId = c.projectId /\ draft.runId = c.agentRunId
                             /\ draft.anchor = OutputRef(c.receipt.outputs[2])
                             /\ draft.refs["evidence"] = OutputRef(c.receipt.outputs[1])
                             /\ draft.refs["result"] = OutputRef(c.receipt.outputs[2])
                             /\ draft.refs["capture"].digest = ShownCapture
    BY DEF AdmittedIsOneExecution
  <2>1. CASE draft.kind = "capture"
    <3>1. ShownCapture = draft.capture /\ SignedCapture(ShownCapture)
      BY <2>1 DEF ShownCapture, AdmissionInv, Draft, ResultsDraft, AdmittedDraft, CaptureDraft
    <3>2. ParsesCapture(ShownCapture) /\ VerifiesCapture(ShownCapture)
      BY <2>1, <3>1 DEF AdmissionInv
    <3> QED BY <2>1, <3>1, <3>2, ReceiptIsIssued
  <2>2. CASE draft.kind = "admitted"
    <3>1. /\ ShownCapture = draft.projection.capture /\ SignedCapture(ShownCapture)
          /\ VerifiesAdmitted(draft, Nothing) /\ draft.projection.status = "available"
      BY <2>2 DEF ShownCapture, AdmissionInv, Draft, ResultsDraft, AdmittedDraft, CaptureDraft
    <3>2. /\ ParsesCapture(ShownCapture) /\ VerifiesCapture(ShownCapture)
          /\ draft.refs["capture"].digest = ShownCapture /\ RecordedJoins(draft)
      BY <3>1 DEF VerifiesAdmitted, ParsesAdmitted
    <3>3. PICK c \in Executions :
            /\ ShownCapture.receipt = c.receipt
            /\ ShownCapture.projectId = c.projectId /\ ShownCapture.agentRunId = c.agentRunId
            /\ ShownCapture.source = c.source
            /\ \A field \in {"source", "policy", "runtime"} :
                 ShownCapture.admission[field] = c.admission[field]
      BY <3>1, <3>2, ReceiptIsIssued
    <3> QED BY <3>1, <3>2, <3>3 DEF RecordedJoins
  <2> QED BY <2>1, <2>2 DEF AdmissionInv, Draft, ResultsDraft, AdmittedDraft, CaptureDraft
<1> QED BY <1>1, AdmissionInvariant, PTL

-----------------------------------------------------------------------------
(* What a host assembled without a mistake.                                *)

\* Every execution is recorded as a capture that keeps the forms of the contract:
\* limits, the two outputs, a termination with its code or its signal, metrics in
\* pairs.  The executor that records it is not part of the repository.
CapturesParse == \A c \in Executions : ParsesCapture(c) /\ VerifiesCapture(c)

\* As long as nothing was misplaced, the draft is what was assembled.  What is
\* refused was not valid, and what failed did not verify.
GenuineInv ==
  /\ edits \in Nat
  /\ edits = 0 /\ stage # "none" => draft \in Genuine
  /\ stage = "verifying" => draft.kind # "capture"
  /\ stage \in {"refused", "failed"} =>
       \/ draft.kind # "capture" /\ ~ (Validates(draft) /\ Verifies(draft))
       \/ /\ draft.kind = "capture"
          /\ ~ (rendered = "run" /\ ParsesCapture(draft.capture) /\ VerifiesCapture(draft.capture))

\* The artifacts that a host lists for the runs of a projection are its provenance.
LEMMA ListedArtifacts ==
  ASSUME NEW n \in Nat, n <= MaxDetails, NEW runs \in [1 .. n -> Faces],
         IsInjective([i \in DOMAIN runs |-> runs[i].run_id]),
         NEW p, ProjectedRuns(p) = runs
  PROVE  ProvenanceMatches([i \in DOMAIN ProjectedRuns(p) |-> Artifact(ProjectedRuns(p)[i])], p)
<1> DEFINE a == [i \in DOMAIN runs |-> Artifact(runs[i])]
<1>1. DOMAIN a = 1 .. n /\ Len(a) = n /\ Len(runs) = n
  OBVIOUS
<1>2. \A i \in 1 .. n : /\ a[i].artifactId = <<"run", runs[i].run_id>>
                        /\ a[i].runId = runs[i].run_id /\ a[i].runFingerprint = runs[i].fingerprint
  BY DEF Artifact
<1>3. \A i, j \in 1 .. n : runs[i].run_id = runs[j].run_id => i = j
  BY DEF IsInjective
<1> HIDE DEF a
<1>4. IsInjective([i \in DOMAIN a |-> a[i].artifactId]) /\ IsInjective([i \in DOMAIN a |-> a[i].runId])
  BY <1>1, <1>2, <1>3 DEF IsInjective
<1>5. \A i \in DOMAIN runs : \E j \in DOMAIN a :
        a[j].runId = runs[i].run_id /\ a[j].runFingerprint = runs[i].fingerprint
  BY <1>1, <1>2
<1>6. ProvenanceMatches(a, p)
  BY <1>1, <1>4, <1>5 DEF ProvenanceMatches
<1> QED BY <1>6 DEF a

\* A session of a run passes both checks.
LEMMA RunSessionVerifies ==
  ASSUME NEW run \in Faces, 1 <= MaxDetails
  PROVE  VerifiesResults(RunSession(run))
<1> DEFINE s == RunSession(run)
           p == s.projection
<1>1. /\ p = [status |-> "available", result |-> RunEnvelope(run), details |-> <<>>]
      /\ s.anchor = [kind |-> "modelica-run", id |-> run.run_id] /\ s.projectionSha256 = p
      /\ s.artifacts = [i \in DOMAIN ProjectedRuns(p) |-> Artifact(ProjectedRuns(p)[i])]
  BY DEF RunSession, Results
<1>2. /\ p.status = "available" /\ p.details = <<>> /\ p.result.kind = "run" /\ p.result.run = run
      /\ p.result.schemaVersion = run.record_schema_version
  BY <1>1 DEF RunEnvelope
<1> HIDE DEF s, p
<1>3. ParsesProjection(p)
  BY <1>2, SessionConstants DEF ParsesProjection, ParsesEnvelope, IsInjective, DetailsMatchResult
<1>4. ProjectedRuns(p) = <<run>>
  BY <1>2 DEF ProjectedRuns
<1>5. /\ <<run>> \in [1 .. 1 -> Faces] /\ DOMAIN <<run>> = 1 .. 1
      /\ \A i, j \in 1 .. 1 : i = j
  OBVIOUS
<1>6. IsInjective([i \in DOMAIN <<run>> |-> <<run>>[i].run_id])
  BY <1>5 DEF IsInjective
<1>7. ProvenanceMatches(s.artifacts, p)
  BY <1>1, <1>4, <1>5, <1>6, ListedArtifacts
<1>8. MatchesAnchor(p, s.anchor)
  BY <1>1, <1>2 DEF MatchesAnchor
<1> QED BY <1>1, <1>3, <1>7, <1>8 DEF VerifiesResults, ParsesResults, s, p

\* So does a session that waits for an answer, or has a refusal.
LEMMA AwaitedVerifies ==
  ASSUME NEW anchor, NEW status \in {"pending", "rejected"}
  PROVE  VerifiesResults(Results(anchor, [status |-> status]))
<1> DEFINE p == [status |-> status]
           s == Results(anchor, p)
<1>1. /\ s.projection = p /\ s.projectionSha256 = p /\ s.anchor = anchor
      /\ s.artifacts = [i \in DOMAIN ProjectedRuns(p) |-> Artifact(ProjectedRuns(p)[i])]
  BY DEF Results
<1>2. ParsesProjection(p) /\ MatchesAnchor(p, anchor)
  BY DEF ParsesProjection, MatchesAnchor, Waiting, Unanswered
<1>3. ProjectedRuns(p) = <<>>
  BY DEF ProjectedRuns
<1>4. /\ ProjectedRuns(p) \in [1 .. 0 -> Faces]
      /\ IsInjective([i \in DOMAIN ProjectedRuns(p) |-> ProjectedRuns(p)[i].run_id])
  BY <1>3 DEF IsInjective
<1> HIDE DEF p
<1>5. ProvenanceMatches(s.artifacts, p)
  <2>1. 0 \in Nat /\ 0 <= MaxDetails
    BY SessionConstants
  <2> QED BY <1>1, <1>4, <2>1, ListedArtifacts
<1> HIDE DEF s
<1>6. VerifiesResults(s)
  BY <1>1, <1>2, <1>5 DEF VerifiesResults, ParsesResults
<1> QED BY <1>6 DEF s, p

\* And a list, with details for some of its runs.
LEMMA ListSessionVerifies ==
  ASSUME NEW contract \in Contract, NEW ids \in SUBSET Run, NEW detailed \in SUBSET ids,
         Cardinality(ids) <= MaxDetails
  PROVE  VerifiesResults(ListSession(contract, ids, detailed))
<1> DEFINE faces(set) == [i \in DOMAIN SetToSeq(set) |-> Face(SetToSeq(set)[i], contract)]
           details == [i \in DOMAIN faces(detailed) |-> Detail(faces(detailed)[i])]
           p == [status |-> "available", result |-> ListEnvelope(contract, faces(ids)), details |-> details]
           s == Results([kind |-> "modelica-run-list", id |-> "list"], p)
<1>1. ASSUME NEW set \in SUBSET Run
      PROVE  /\ Cardinality(set) \in Nat /\ faces(set) \in [1 .. Cardinality(set) -> Faces]
             /\ \A i \in 1 .. Cardinality(set) : \E id \in set : faces(set)[i] = Face(id, contract)
             /\ IsInjective([i \in DOMAIN faces(set) |-> faces(set)[i].run_id])
  <2>1. /\ Cardinality(set) \in Nat /\ SetToSeq(set) \in [1 .. Cardinality(set) -> set]
        /\ IsInjective(SetToSeq(set))
    BY ListedRuns
  <2>2. \A i \in 1 .. Cardinality(set) :
          /\ faces(set)[i] = Face(SetToSeq(set)[i], contract) /\ SetToSeq(set)[i] \in set
          /\ faces(set)[i] \in Faces /\ faces(set)[i].run_id = SetToSeq(set)[i]
    BY <2>1, FaceIs
  <2> QED BY <2>1, <2>2 DEF IsInjective
<1>2. \A id \in ids : \E j \in 1 .. Cardinality(ids) : faces(ids)[j] = Face(id, contract)
  <2>1. /\ IsFiniteSet(ids) /\ SetToSeq(ids) \in [1 .. Cardinality(ids) -> ids] /\ IsInjective(SetToSeq(ids))
        /\ Cardinality(ids) \in Nat
    BY ListedRuns, SessionConstants, FS_Subset
  <2>2. \A id \in ids : \E j \in 1 .. Cardinality(ids) : SetToSeq(ids)[j] = id
    <3>1. SetToSeq(ids) \in Injection(1 .. Cardinality(ids), ids)
      BY <2>1 DEF Injection
    <3>2. IsFiniteSet(1 .. Cardinality(ids)) /\ Cardinality(1 .. Cardinality(ids)) = Cardinality(ids)
      BY <2>1, FS_Interval
    <3>3. SetToSeq(ids) \in Surjection(1 .. Cardinality(ids), ids)
      BY <2>1, <3>1, <3>2, FS_Injection
    <3> QED BY <3>3 DEF Surjection
  <2> QED BY <2>1, <2>2
<1> HIDE DEF faces, details
<1>3. detailed \in SUBSET Run /\ Cardinality(detailed) <= Cardinality(ids)
  BY SessionConstants, FS_Subset
<1>4. /\ Cardinality(detailed) \in Nat /\ DOMAIN details = 1 .. Cardinality(detailed)
      /\ Len(details) = Cardinality(detailed)
      /\ \A i \in DOMAIN details : details[i] = Detail(faces(detailed)[i]) /\ details[i].run_id = faces(detailed)[i].run_id
  <2>1. Cardinality(detailed) \in Nat /\ DOMAIN faces(detailed) = 1 .. Cardinality(detailed)
    BY <1>1, <1>3
  <2> QED BY <2>1 DEF details, Detail
<1>5. \A i \in DOMAIN details : \E id \in detailed :
         faces(detailed)[i] = Face(id, contract) /\ details[i] = Detail(Face(id, contract))
  <2> SUFFICES ASSUME NEW i \in DOMAIN details
               PROVE  \E id \in detailed :
                        faces(detailed)[i] = Face(id, contract) /\ details[i] = Detail(Face(id, contract))
    OBVIOUS
  <2>1. \A j \in 1 .. Cardinality(detailed) : \E id \in detailed : faces(detailed)[j] = Face(id, contract)
    BY <1>1, <1>3
  <2>2. PICK id \in detailed : faces(detailed)[i] = Face(id, contract)
    BY <1>4, <2>1
  <2>3. details[i] = Detail(faces(detailed)[i])
    BY <1>4
  <2> QED BY <2>2, <2>3
<1>6. /\ p.status = "available" /\ p.details = details /\ p.result.kind = "run-list"
      /\ p.result.runs = faces(ids) /\ p.result.schemaVersion = contract
      /\ s.projection = p /\ s.projectionSha256 = p /\ s.anchor.kind = "modelica-run-list"
      /\ s.artifacts = [i \in DOMAIN ProjectedRuns(p) |-> Artifact(ProjectedRuns(p)[i])]
      /\ ListSession(contract, ids, detailed) = s
  BY DEF ListEnvelope, Results, ListSession, faces, details
<1> HIDE DEF p, s
<1>7. /\ Cardinality(ids) \in Nat /\ faces(ids) \in [1 .. Cardinality(ids) -> Faces]
      /\ IsInjective([i \in DOMAIN faces(ids) |-> faces(ids)[i].run_id]) /\ Len(faces(ids)) = Cardinality(ids)
  BY <1>1
<1>8. ParsesProjection(p)
  <2>1. ParsesEnvelope(p.result)
    <3>1. \A i \in DOMAIN faces(ids) : \E id \in ids : faces(ids)[i] = Face(id, contract)
      BY <1>1
    <3> QED BY <1>6, <3>1 DEF ParsesEnvelope, Face
  <2>2. \A i \in DOMAIN p.details : ParsesDetail(p.details[i])
    <3>1. ASSUME NEW id PROVE ParsesDetail(Detail(Face(id, contract)))
      BY DEF ParsesDetail, Detail, RunEnvelope, ParsesEnvelope, Face
    <3> QED BY <1>5, <1>6, <3>1
  <2>3. IsInjective([i \in DOMAIN p.details |-> p.details[i].run_id])
    <3>1. IsInjective([i \in DOMAIN faces(detailed) |-> faces(detailed)[i].run_id])
          /\ DOMAIN faces(detailed) = DOMAIN details
      BY <1>1, <1>3, <1>4
    <3> QED BY <1>4, <1>6, <3>1 DEF IsInjective
  <2>4. DetailsMatchResult(p.details, p.result)
    <3>1. ASSUME NEW i \in DOMAIN details
          PROVE  \E j \in DOMAIN faces(ids) :
                   /\ faces(ids)[j].run_id = details[i].run_id
                   /\ SameRunSummaryFacts(faces(ids)[j], details[i].result.run)
      <4>1. PICK id \in detailed : faces(detailed)[i] = Face(id, contract) /\ details[i] = Detail(Face(id, contract))
        BY <1>5
      <4>2. PICK j \in DOMAIN faces(ids) : faces(ids)[j] = Face(id, contract)
        BY <1>2, <1>7
      <4> QED BY <4>1, <4>2 DEF Detail, RunEnvelope, SameRunSummaryFacts, Face
    <3> QED BY <1>6, <3>1 DEF DetailsMatchResult
  <2>5. Len(p.details) <= MaxDetails /\ Len(p.result.runs) <= MaxDetails
    BY <1>3, <1>4, <1>6, <1>7, SessionConstants
  <2> QED BY <1>6, <1>7, <2>1, <2>2, <2>3, <2>4, <2>5 DEF ParsesProjection
<1>9. MatchesAnchor(p, s.anchor)
  BY <1>6 DEF MatchesAnchor
<1>10. ProvenanceMatches(s.artifacts, p)
  <2>1. ProjectedRuns(p) = faces(ids)
    BY <1>6 DEF ProjectedRuns
  <2> QED BY <1>6, <1>7, <2>1, ListedArtifacts
<1> QED BY <1>6, <1>8, <1>9, <1>10 DEF VerifiesResults, ParsesResults

\* Results of at most MAX_RECORDED_RUN_DETAILS runs pass both checks.
LEMMA ResultsVerify ==
  ASSUME NEW s \in ResultsSessions, ~ (Len(ProjectedRuns(s.projection)) > MaxDetails)
  PROVE  VerifiesResults(s)
<1>1. CASE \E id \in Run, contract \in Contract : s = RunSession(Face(id, contract))
  <2>1. PICK id \in Run, contract \in Contract : s = RunSession(Face(id, contract))
    BY <1>1
  <2>2. Len(ProjectedRuns(s.projection)) = 1
    BY <2>1 DEF RunSession, Results, ProjectedRuns, RunEnvelope
  <2> QED BY <2>1, <2>2, FaceIs, RunSessionVerifies, SessionConstants
<1>2. CASE \E ids \in SUBSET Run, contract \in Contract : \E detailed \in SUBSET ids :
             s = ListSession(contract, ids, detailed)
  <2>1. PICK ids \in SUBSET Run, contract \in Contract :
          \E detailed \in SUBSET ids : s = ListSession(contract, ids, detailed)
    BY <1>2
  <2>2. PICK detailed \in SUBSET ids : s = ListSession(contract, ids, detailed)
    BY <2>1
  <2>3. Cardinality(ids) \in Nat /\ SetToSeq(ids) \in [1 .. Cardinality(ids) -> ids]
    BY ListedRuns
  <2>4. ProjectedRuns(s.projection) = [i \in DOMAIN SetToSeq(ids) |-> Face(SetToSeq(ids)[i], contract)]
    BY <2>2 DEF ListSession, Results, ProjectedRuns, ListEnvelope
  <2>5. Len(ProjectedRuns(s.projection)) = Cardinality(ids)
    BY <2>3, <2>4
  <2> QED BY <2>2, <2>3, <2>5, ListSessionVerifies, SessionConstants
<1>3. CASE \E kind \in {"modelica-run", "modelica-run-list"}, status \in {"pending", "rejected"} :
             s = Results([kind |-> kind, id |-> "awaited"], [status |-> status])
  BY <1>3, AwaitedVerifies
<1> QED BY <1>1, <1>2, <1>3, ResultsAre

\* So do the sessions of an execution.
LEMMA AdmittedVerify ==
  ASSUME CapturesParse, NEW c \in Executions
  PROVE  /\ VerifiesAdmitted(AdmittedSession(c), Nothing)
         /\ VerifiesAdmitted(WaitingSession(c), Nothing)
<1>1. ParsesCapture(c) /\ VerifiesCapture(c)
  BY DEF CapturesParse
<1>2. ASSUME NEW s, s = AdmittedSession(c) PROVE VerifiesAdmitted(s, Nothing)
  <2>1. /\ s.basis = Basis(c.projectId) /\ s.runId = c.agentRunId /\ s.anchor = OutputRef(c.receipt.outputs[2])
        /\ s.projection.status = "available" /\ s.projection.capture = c
        /\ s.refs["admission"] = AdmissionRef(c.admission) /\ s.refs["capture"] = CaptureRef(c)
        /\ s.refs["evidence"] = OutputRef(c.receipt.outputs[1]) /\ s.refs["result"] = OutputRef(c.receipt.outputs[2])
    BY <1>2 DEF AdmittedSession, Roles
  <2>2. CaptureRef(c).digest = c
    BY DEF CaptureRef, ArtifactRef
  <2>3. RecordedJoins(s)
    BY <2>1, <2>2 DEF RecordedJoins, Basis
  <2>4. \A role \in Roles : s.refs[role] # Nothing
    BY <1>2, NothingIsNoArtifact
  <2>5. ParsesAdmitted(s, Nothing)
    BY <1>1, <2>1, <2>3, <2>4 DEF ParsesAdmitted, Basis
  <2> QED BY <1>1, <2>1, <2>2, <2>5 DEF VerifiesAdmitted
<1>3. ASSUME NEW s, s = WaitingSession(c) PROVE VerifiesAdmitted(s, Nothing)
  <2>1. /\ s.basis = Basis(c.projectId) /\ s.projection.status = "running"
        /\ \A role \in Roles : s.refs[role] = Nothing
    BY <1>3 DEF WaitingSession, AdmittedSession, Roles
  <2> QED BY <2>1 DEF VerifiesAdmitted, ParsesAdmitted, Basis
<1> QED BY <1>2, <1>3

\* The digest that a host takes is the one that is there.
LEMMA SealedGenuine ==
  ASSUME NEW s \in Genuine
  PROVE  Sealed(s) = s
<1>1. CASE s \in ResultsSessions
  <2>1. ResultsDraft(s)
    BY <1>1, ResultsShapes
  <2>2. ASSUME NEW anchor, NEW p, s = Results(anchor, p)
        PROVE  s.projectionSha256 = s.projection
    BY <2>2 DEF Results
  <2>3. \E anchor, p : s = Results(anchor, p)
    <3>1. ASSUME NEW run PROVE \E anchor, p : RunSession(run) = Results(anchor, p)
      BY DEF RunSession
    <3>2. ASSUME NEW contract, NEW ids, NEW detailed
          PROVE  \E anchor, p : ListSession(contract, ids, detailed) = Results(anchor, p)
      <4> DEFINE faces(set) == [i \in DOMAIN SetToSeq(set) |-> Face(SetToSeq(set)[i], contract)]
                 q == [status |-> "available", result |-> ListEnvelope(contract, faces(ids)),
                       details |-> [i \in DOMAIN faces(detailed) |-> Detail(faces(detailed)[i])]]
      <4>1. ListSession(contract, ids, detailed) = Results([kind |-> "modelica-run-list", id |-> "list"], q)
        BY DEF ListSession
      <4> HIDE DEF q
      <4> QED BY <4>1
    <3> QED BY <1>1, <3>1, <3>2, ResultsAre
  <2> QED BY <2>1, <2>2, <2>3 DEF ResultsDraft, IsRecord, Sealed
<1>2. ASSUME NEW c \in Executions, s \in {AdmittedSession(c), WaitingSession(c), Captured(c)}
      PROVE  Sealed(s) = s
  <2>1. CASE s = AdmittedSession(c)
    <3>1. /\ s.kind = "admitted" /\ s.projection.status = "available" /\ s.projection.capture = c
          /\ s.refs = [s.refs EXCEPT !["capture"] = CaptureRef(c)]
          /\ IsRecord(s, {"kind", "basis", "runId", "refs", "anchor", "projection"})
      BY <2>1 DEF AdmittedSession, Roles, IsRecord
    <3>2. Sealed(s) = [s EXCEPT !.refs = [s.refs EXCEPT !["capture"] = CaptureRef(c)]]
      BY <3>1 DEF Sealed
    <3> QED BY <3>1, <3>2 DEF IsRecord
  <2>2. CASE s = WaitingSession(c)
    BY <2>2 DEF WaitingSession, AdmittedSession, Sealed
  <2>3. CASE s = Captured(c)
    BY <2>3 DEF Captured, Sealed
  <2> QED BY <1>2, <2>1, <2>2, <2>3
<1>3. s \in ResultsSessions \/ \E c \in Executions : s \in {AdmittedSession(c), WaitingSession(c), Captured(c)}
  BY DEF Genuine
<1> QED BY <1>1, <1>2, <1>3

\* Nothing was assembled at first.
LEMMA InitGenuine == AdmissionInit => GenuineInv
BY DEF AdmissionInit, GenuineInv

\* Only Misplace alters a draft, and it counts; a digest that is taken alters none.
LEMMA NextGenuine == GenuineInv /\ [AdmissionNext]_admissionVars => GenuineInv'
<1> SUFFICES ASSUME GenuineInv, [AdmissionNext]_admissionVars PROVE GenuineInv'
  OBVIOUS
<1> USE DEF GenuineInv
<1>1. CASE Compose
  BY <1>1 DEF Compose
<1>2. CASE Misplace
  BY <1>2 DEF Misplace
<1>3. CASE Seal
  BY <1>3, SealedGenuine DEF Seal
<1>4. CASE Apply
  BY <1>4 DEF Apply, Validates
<1>5. CASE Verified
  <2>1. /\ stage = "verifying" /\ UNCHANGED <<rendered, draft, edits, opened>>
        /\ stage' = IF Verifies(draft) THEN "applied" ELSE "failed"
    BY <1>5 DEF Verified
  <2>2. CASE Verifies(draft)
    BY <2>1, <2>2
  <2>3. CASE ~ Verifies(draft)
    <3>1. draft.kind # "capture" /\ ~ (Validates(draft) /\ Verifies(draft))
      BY <2>1, <2>3
    <3>2. (draft.kind # "capture" /\ ~ (Validates(draft) /\ Verifies(draft)))'
      BY <2>1, <3>1 DEF Validates
    <3> QED BY <2>1, <2>3, <3>2
  <2> QED BY <2>2, <2>3
<1>6. CASE CaptureResult
  BY <1>6 DEF CaptureResult
<1>7. CASE \E id \in Run : OpenRecorded(id)
  BY <1>7 DEF OpenRecorded, Validates
<1>8. CASE \E id \in Run, envelope \in Envelopes : OpenStandalone(id, envelope)
  BY <1>8 DEF OpenStandalone, Validates
<1>9. CASE Back
  BY <1>9 DEF Back, Validates
<1>10. CASE Clear
  BY <1>10 DEF Clear
<1>11. CASE UNCHANGED admissionVars
  BY <1>11 DEF admissionVars, Validates
<1> QED BY <1>1, <1>2, <1>3, <1>4, <1>5, <1>6, <1>7, <1>8, <1>9, <1>10, <1>11 DEF AdmissionNext

\* A session of a run, a list or an admitted execution in which nothing was
\* misplaced is never refused and never fails its digests, for every number of
\* runs up to MAX_RECORDED_RUN_DETAILS and every choice of details.
THEOREM GenuineAreApplied ==
  ASSUME CapturesParse
  PROVE  AdmissionSpec => []GenuineIsApplied
<1>1. GenuineInv => GenuineIsApplied
  <2> SUFFICES ASSUME GenuineInv, edits = 0, stage \in {"refused", "failed"}
               PROVE  \/ draft.kind = "results" /\ SessionResource(draft) # rendered
                      \/ draft.kind # "results" /\ rendered # "run"
                      \/ draft.kind = "results" /\ Len(ProjectedRuns(draft.projection)) > MaxDetails
    BY DEF GenuineIsApplied
  <2>1. draft \in Genuine
    BY DEF GenuineInv
  <2>2. CASE draft \in ResultsSessions
    <3>1. draft.kind = "results"
      BY <2>2, ResultsShapes DEF ResultsDraft
    <3>2. Len(ProjectedRuns(draft.projection)) > MaxDetails \/ VerifiesResults(draft)
      BY <2>2, ResultsVerify
    <3>3. VerifiesResults(draft) /\ SessionResource(draft) = rendered => Validates(draft) /\ Verifies(draft)
      BY <3>1 DEF VerifiesResults, Validates, Verifies
    <3> QED BY <3>1, <3>2, <3>3 DEF GenuineInv
  <2>3. ASSUME NEW c \in Executions, draft \in {AdmittedSession(c), WaitingSession(c)}
        PROVE  draft.kind # "results" /\ rendered # "run"
    <3>1. draft.kind = "admitted"
      BY <2>3, AdmittedShapes DEF AdmittedDraft
    <3>2. VerifiesAdmitted(draft, Nothing)
      BY <2>3, AdmittedVerify
    <3>3. rendered = "run" => Validates(draft) /\ Verifies(draft)
      BY <3>1, <3>2 DEF VerifiesAdmitted, Validates, Verifies
    <3> QED BY <3>1, <3>3 DEF GenuineInv
  <2>4. ASSUME NEW c \in Executions, draft = Captured(c)
        PROVE  draft.kind # "results" /\ rendered # "run"
    BY <2>4 DEF Captured, CapturesParse, GenuineInv
  <2>5. draft \in ResultsSessions \/ \E c \in Executions : draft \in {AdmittedSession(c), WaitingSession(c), Captured(c)}
    BY <2>1 DEF Genuine
  <2> QED BY <2>2, <2>3, <2>4, <2>5
<1>2. AdmissionSpec => []GenuineInv
  BY InitGenuine, NextGenuine, PTL DEF AdmissionSpec
<1> QED BY <1>1, <1>2, PTL

=============================================================================
