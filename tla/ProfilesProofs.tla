----------------------------- MODULE ProfilesProofs -----------------------------
(***************************************************************************)
(* Theorems about Profiles, for any names, requests, reloads and crashes:  *)
(* the active row and the runtime derived from it, the types, and what an  *)
(* activation is answered.                                                 *)
(***************************************************************************)
EXTENDS Profiles, SequenceTheorems, FiniteSetTheorems, TLAPS

\* As much of the types as the steps need.
Shape ==
  /\ rows \in [Names -> Nat] /\ name \in [Requests -> Names]
  /\ bot \in {"down", "seeded", "up"}
  /\ jobs \in Seq([kind : {"reload", "rp"}, by : Requests])
  /\ DOMAIN pc = Requests

\* One row or none; none only for a reason, the daemon being up or about to start.
One ==
  /\ active = {} \/ \E n \in Names : active = {n}
  /\ \A n \in active : rows[n] > 0
  /\ bot = "seeded" => rows[Default] > 0
  /\ bot = "up" \/ (bot = "down" /\ \E n \in Names : rows[n] > 0) => (active = {} => blanked)

\* Between the commit of an activation and the end of its reload the runtime may be
\* another row's; otherwise it is not, unless the row itself was changed.
Pending ==
  \/ \E q \in Requests : pc[q] = "marshal"
  \/ \E i \in 1..Len(jobs) : jobs[i].kind = "reload"
Settled == bot = "up" /\ ~unsettled /\ ~Pending => applied = Active

\* The inductive invariant.
Inv == Shape /\ One /\ Settled

-------------------------------------------------------------------------------
(* The queue of coroutines *)

LEMMA Scheduled ==
  ASSUME Inv, NEW q \in Requests, NEW kind \in {"reload", "rp"},
         jobs' = Append(jobs, [kind |-> kind, by |-> q])
  PROVE  /\ jobs' \in Seq([kind : {"reload", "rp"}, by : Requests])
         /\ kind = "reload" => \E i \in 1..Len(jobs') : jobs'[i].kind = "reload"
         /\ (\E i \in 1..Len(jobs) : jobs[i].kind = "reload") =>
              \E i \in 1..Len(jobs') : jobs'[i].kind = "reload"
<1> DEFINE Jobs == [kind : {"reload", "rp"}, by : Requests]
           j == [kind |-> kind, by |-> q]
<1>1. jobs \in Seq(Jobs) /\ j \in Jobs /\ Len(jobs) \in Nat /\ j.kind = kind
  BY LenProperties DEF Inv, Shape
<1> HIDE DEF Jobs, j
<1>2. /\ jobs' \in Seq(Jobs) /\ Len(jobs') = Len(jobs) + 1
      /\ \A i \in 1..Len(jobs) : jobs'[i] = jobs[i]
      /\ jobs'[Len(jobs) + 1] = j
  BY <1>1, AppendProperties DEF j
<1>3. ASSUME NEW i \in 1..Len(jobs) PROVE i \in 1..Len(jobs') /\ jobs'[i] = jobs[i]
  BY <1>1, <1>2
<1>4. Len(jobs) + 1 \in 1..Len(jobs')
  BY <1>1, <1>2
<1>. QED  BY <1>1, <1>2, <1>3, <1>4 DEF Jobs

LEMMA Unscheduled ==
  ASSUME Inv, jobs # <<>>, jobs' = Tail(jobs)
  PROVE  /\ jobs' \in Seq([kind : {"reload", "rp"}, by : Requests])
         /\ Head(jobs).kind = "rp" \/ Head(jobs).kind = "reload"
         /\ Head(jobs).kind = "rp" /\ (\E i \in 1..Len(jobs) : jobs[i].kind = "reload") =>
              \E i \in 1..Len(jobs') : jobs'[i].kind = "reload"
<1> DEFINE Jobs == [kind : {"reload", "rp"}, by : Requests]
<1>1. jobs \in Seq(Jobs) /\ Len(jobs) \in Nat
  BY LenProperties DEF Inv, Shape
<1> HIDE DEF Jobs
<1>2. /\ Head(jobs) \in Jobs /\ jobs' \in Seq(Jobs) /\ Len(jobs') = Len(jobs) - 1
      /\ \A i \in 1..Len(jobs') : jobs'[i] = jobs[i + 1]
  BY <1>1, HeadTailProperties
<1>3. Head(jobs) = jobs[1]
  BY <1>1
<1>4. ASSUME Head(jobs).kind = "rp", NEW i \in 1..Len(jobs), jobs[i].kind = "reload"
      PROVE  \E k \in 1..Len(jobs') : jobs'[k].kind = "reload"
  <2>1. i # 1
    BY <1>3, <1>4
  <2>2. i - 1 \in 1..Len(jobs') /\ (i - 1) + 1 = i
    BY <1>1, <1>2, <2>1
  <2>3. jobs'[i - 1] = jobs[i]
    BY <1>2, <2>2
  <2>. QED  BY <1>4, <2>2, <2>3
<1>. QED  BY <1>2, <1>4 DEF Jobs

-------------------------------------------------------------------------------
(* The steps *)

\* The database and the runtime are let be; what is pending stays so.
LEMMA Untouched ==
  ASSUME Inv, UNCHANGED <<rows, active, name, bot, applied, unsettled, blanked>>,
         jobs' \in Seq([kind : {"reload", "rp"}, by : Requests]), DOMAIN pc' = Requests,
         Pending => Pending'
  PROVE  Inv'
<1>1. Shape' /\ One'
  BY DEF Inv, Shape, One
<1>2. Active' = Active
  BY DEF Active
<1>3. Settled'
  BY <1>2 DEF Inv, Settled
<1>. QED  BY <1>1, <1>3 DEF Inv

\* The row that is not active is edited, or the active one and that is noted.
LEMMA RowChanges ==
  ASSUME Inv, bot = "up", NEW n \in Names, UNCHANGED <<name, bot, applied, jobs>>,
         NEW v \in Nat, rows' = [rows EXCEPT ![n] = v],
         \/ v > 0 /\ active' = active /\ blanked' = blanked
         \/ active' = active \ {n} /\ blanked' = (blanked \/ n \in active),
         unsettled' = (unsettled \/ n \in active),
         DOMAIN pc' = Requests, \A q \in Requests : pc[q] = "marshal" => pc'[q] = "marshal"
  PROVE  Inv'
<1>1. rows' \in [Names -> Nat] /\ rows'[n] = v /\ \A m \in Names \ {n} : rows'[m] = rows[m]
  BY DEF Inv, Shape
<1>2. Shape'
  BY <1>1 DEF Inv, Shape
<1>3. \/ active' = active /\ v > 0
      \/ active' = active /\ n \notin active
      \/ active' = {} /\ n \in active /\ blanked'
  BY DEF Inv, One
<1>4. One'
  BY <1>1, <1>3 DEF Inv, One
<1>5. Settled'
  <2>1. CASE n \in active
    BY <2>1 DEF Settled
  <2>2. CASE n \notin active
    <3>1. active' = active /\ \A m \in active : rows'[m] = rows[m]
      BY <1>1, <1>3, <2>2 DEF Inv, One
    <3>2. Active' = Active
      <4>1. CASE active = {}
        BY <3>1, <4>1 DEF Active
      <4>2. CASE active # {}
        <5>1. (CHOOSE m \in active : TRUE) \in active
          BY <4>2
        <5>. QED  BY <3>1, <4>2, <5>1 DEF Active
      <4>. QED  BY <4>1, <4>2
    <3>3. Pending => Pending'
      BY DEF Pending
    <3>. QED  BY <2>2, <3>2, <3>3 DEF Inv, Settled
  <2>. QED  BY <2>1, <2>2
<1>. QED  BY <1>2, <1>4, <1>5 DEF Inv

\* The runtime is derived from the row that is active.
LEMMA Derives ==
  ASSUME Inv, UNCHANGED <<rows, active, name, blanked>>, Apply, bot' = "up",
         bot = "up" \/ (bot = "down" /\ \E n \in Names : rows[n] > 0),
         jobs' \in Seq([kind : {"reload", "rp"}, by : Requests]), DOMAIN pc' = Requests
  PROVE  Inv'
<1>1. Shape' /\ One'
  BY DEF Inv, Shape, One
<1>2. applied' = Active /\ Active' = Active
  BY DEF Apply, Active
<1>. QED  BY <1>1, <1>2 DEF Inv, Settled

LEMMA InvDaemon == ASSUME Inv, Daemon \/ Crash \/ Reload PROVE Inv'
<1>1. CASE Seed
  <2>1. active = {}
    BY <1>1 DEF Inv, One, Seed
  <2>2. rows' \in [Names -> Nat] /\ rows'[Default] > 0 /\ bot' = "seeded" /\ active' = {}
    BY <1>1, <2>1, ProfilesAssumption DEF ProfilesAssumption, Inv, Shape, Seed
  <2>. QED  BY <1>1, <2>2 DEF Seed, Inv, Shape, One, Settled, reqVars
<1>2. CASE SeedActivate
  <2>1. Shape' /\ One'
    BY <1>2, ProfilesAssumption DEF ProfilesAssumption, SeedActivate, Inv, Shape, One, reqVars
  <2>2. Active' = [name |-> Default, doc |-> rows[Default]]
    BY <1>2 DEF SeedActivate, Active
  <2>. QED  BY <1>2, <2>1, <2>2 DEF SeedActivate, Inv, Settled
<1>3. CASE Start
  BY <1>3, Derives DEF Start, reqVars, dbVars, Inv, Shape
<1>4. CASE Reload
  BY <1>4, Derives DEF Reload, reqVars, dbVars, Inv, Shape
<1>5. CASE LoopRuns
  <2>1. /\ jobs' \in Seq([kind : {"reload", "rp"}, by : Requests])
        /\ Head(jobs).kind = "rp" \/ Head(jobs).kind = "reload"
        /\ Head(jobs).kind = "rp" /\ (\E i \in 1..Len(jobs) : jobs[i].kind = "reload") =>
              \E i \in 1..Len(jobs') : jobs'[i].kind = "reload"
    BY <1>5, Unscheduled DEF LoopRuns
  <2>2. DOMAIN pc' = Requests /\ \A q \in Requests : pc[q] = "marshal" => pc'[q] = "marshal"
    BY <1>5 DEF LoopRuns, Inv, Shape
  <2>3. CASE Head(jobs).kind = "reload"
    BY <1>5, <2>1, <2>2, <2>3, Derives DEF LoopRuns, dbVars
  <2>4. CASE Head(jobs).kind = "rp"
    <3>1. Pending => Pending'
      BY <2>1, <2>2, <2>4 DEF Pending
    <3>. QED  BY <1>5, <2>1, <2>2, <2>4, <3>1, Untouched DEF LoopRuns, dbVars, runVars
  <2>. QED  BY <2>1, <2>3, <2>4
<1>6. CASE Crash
  <2>1. Shape'
    BY <1>6, EmptySeq DEF Crash, Inv, Shape, dbVars
  <2>2. One'
    BY <1>6 DEF Crash, Inv, Shape, One, dbVars
  <2>. QED  BY <1>6, <2>1, <2>2 DEF Crash, Inv, Settled
<1>. QED  BY <1>1, <1>2, <1>3, <1>4, <1>5, <1>6 DEF Daemon

LEMMA InvRequest == ASSUME Inv, NEW q \in Requests, Request(q) PROVE Inv'
<1>1. CASE Put(q)
  <2>1. rows[name[q]] + 1 \in Nat /\ rows[name[q]] + 1 > 0 /\ name[q] \in Names
    BY DEF Inv, Shape
  <2>. QED  BY <1>1, <2>1, RowChanges DEF Put, Reply, Inv, Shape
<1>2. CASE Delete(q)
  <2>1. name[q] \in Names
    BY DEF Inv, Shape
  <2>. QED  BY <1>2, <2>1, RowChanges DEF Delete, Reply, Inv, Shape
<1>3. CASE Activate(q)
  <2>1. DOMAIN pc' = Requests /\ (Pending => Pending')
    BY <1>3 DEF Activate, Reply, Inv, Shape, Pending
  <2>. QED  BY <1>3, <2>1, Untouched DEF Activate, dbVars, runVars, Inv, Shape
<1>4. CASE SetRp(q)
  <2>1. /\ jobs' \in Seq([kind : {"reload", "rp"}, by : Requests])
        /\ (\E i \in 1..Len(jobs) : jobs[i].kind = "reload") =>
              \E i \in 1..Len(jobs') : jobs'[i].kind = "reload"
    BY <1>4, Scheduled DEF SetRp
  <2>2. DOMAIN pc' = Requests /\ (Pending => Pending')
    BY <1>4, <2>1 DEF SetRp, Inv, Shape, Pending
  <2>. QED  BY <1>4, <2>1, <2>2, Untouched DEF SetRp, dbVars, runVars
<1>5. CASE Status(q)
  <2>1. DOMAIN pc' = Requests /\ (Pending => Pending')
    BY <1>5 DEF Status, Inv, Shape, Pending
  <2>. QED  BY <1>5, <2>1, Untouched DEF Status, dbVars, runVars, Inv, Shape
<1>. QED  BY <1>1, <1>2, <1>3, <1>4, <1>5 DEF Request

LEMMA InvThread == ASSUME Inv, NEW q \in Requests, Thread(q) PROVE Inv'
<1>1. CASE Commit(q)
  <2>1. Shape' /\ Pending'
    BY <1>1 DEF Commit, Inv, Shape, Pending
  <2>2. name[q] \in Names /\ rows[name[q]] \in Nat /\ bot \in {"down", "seeded", "up"}
    BY DEF Inv, Shape
  <2>3. bot' = bot /\ rows' = rows /\ (bot = "seeded" => rows[Default] > 0)
    BY <1>1 DEF Commit, Inv, One
  <2>4. ASSUME rows[name[q]] > 0 PROVE One'
    <3>1. active' = {name[q]}
      BY <1>1, <2>4 DEF Commit, Activated
    <3>. QED  BY <2>2, <2>3, <2>4, <3>1 DEF One
  <2>5. ASSUME rows[name[q]] = 0 PROVE One'
    <3>1. active' = {}
      BY <1>1, <2>5 DEF Commit, Activated
    <3>2. blanked'
      BY <1>1, <2>5, Zenon DEF Commit
    <3>. QED  BY <2>3, <3>1, <3>2 DEF One
  <2>6. One'
    BY <2>2, <2>4, <2>5
  <2>. QED  BY <2>1, <2>6 DEF Inv, Settled
<1>2. CASE Marshal(q)
  <2>1. /\ jobs' \in Seq([kind : {"reload", "rp"}, by : Requests])
        /\ \E i \in 1..Len(jobs') : jobs'[i].kind = "reload"
    BY <1>2, Scheduled DEF Marshal
  <2>2. DOMAIN pc' = Requests /\ Pending'
    BY <1>2, <2>1 DEF Marshal, Inv, Shape, Pending
  <2>. QED  BY <1>2, <2>1, <2>2, Untouched DEF Marshal, dbVars, runVars
<1>3. CASE StatusEnds(q) \/ Timeout(q)
  <2>1. DOMAIN pc' = Requests /\ (Pending => Pending')
    BY <1>3 DEF StatusEnds, Timeout, Reply, Inv, Shape, Pending
  <2>. QED  BY <1>3, <2>1, Untouched DEF StatusEnds, Timeout, dbVars, runVars, Inv, Shape
<1>. QED  BY <1>1, <1>2, <1>3 DEF Thread

LEMMA InvInductive == Inv /\ [Next]_vars => Inv'
<1>1. ASSUME Inv, UNCHANGED vars PROVE Inv'
  BY <1>1, Untouched DEF vars, reqVars, dbVars, runVars, Pending, Inv, Shape
<1>. QED  BY <1>1, InvDaemon, InvRequest, InvThread DEF Next

LEMMA InvInit == Init => Inv
BY EmptySeq DEF Init, Inv, Shape, One, Settled

-------------------------------------------------------------------------------
\* At most one profile is active (store.py:5), and it is a row; a daemon that is up
\* has none only if the active one was deleted, an activation lost its row, or a
\* first start died half way; whatever requests race and wherever it dies.
THEOREM OneProfile == Spec => []OneOrExplained
<1>1. Inv => OneOrExplained
  <2> SUFFICES ASSUME Inv PROVE OneOrExplained
    OBVIOUS
  <2>1. Cardinality(active) <= 1
    <3>1. CASE active = {}
      BY <3>1, FS_EmptySet
    <3>2. CASE active # {}
      BY <3>2, FS_Singleton DEF Inv, One
    <3>. QED  BY <3>1, <3>2
  <2>. QED  BY <2>1 DEF Inv, One, OneOrExplained, OneActive, BlankExplained
<1>. QED  BY <1>1, InvInit, InvInductive, PTL DEF Spec

\* Once the activations in flight are done (http_api.py, daemon.py,
\* reload_active_profile) the runtime is that of the active row, in whatever order
\* they committed and ran.
THEOREM RuntimeSettles == Spec => []ActivationsSettle
<1>1. Inv => ActivationsSettle
  <2> SUFFICES ASSUME Inv, Quiet PROVE ~Pending
    BY DEF Inv, Settled, ActivationsSettle, Quiet
  <2>. QED  BY EmptySeq DEF Quiet, Pending
<1>. QED  BY <1>1, InvInit, InvInductive, PTL DEF Spec

-------------------------------------------------------------------------------
(* The types *)

LEMMA ActiveIsProfile ==
  ASSUME TypeOK, Inv
  PROVE  Active \in Profile
<1>1. CASE active = {}
  BY <1>1 DEF Active, Profile
<1>2. CASE active # {}
  <2> DEFINE n == CHOOSE n \in active : TRUE
  <2>1. n \in active
    BY <1>2
  <2> HIDE DEF n
  <2>2. n \in Names /\ rows[n] \in 1..MaxDocs
    BY <2>1 DEF TypeOK, Inv, One
  <2>3. Active = [name |-> n, doc |-> rows[n]]
    BY <1>2 DEF Active, n
  <2>. QED  BY <2>2, <2>3 DEF Profile
<1>. QED  BY <1>1, <1>2

LEMMA Bounds ==
  /\ MaxDocs \in Nat /\ 0 \in 0..MaxDocs /\ 1 \in 0..MaxDocs
  /\ MaxRooms \in Nat /\ 0 \in 0..MaxRooms /\ Blank \in Profile
<1>1. MaxDocs \in Nat /\ MaxDocs > 0 /\ MaxRooms \in Nat
  BY ProfilesAssumption DEF ProfilesAssumption
<1>2. 0 \in 0..MaxDocs /\ 1 \in 0..MaxDocs /\ 0 \in 0..MaxRooms
  BY <1>1
<1>. QED  BY <1>1, <1>2 DEF Profile

LEMMA ProfileNamed ==
  ASSUME NEW p \in Profile
  PROVE  p.name \in Names \cup {NoProfile}
BY DEF Profile, Blank

LEMMA Replied ==
  ASSUME TypeOK, NEW q \in Requests, NEW status \in {"ok", "error", "timeout", "lost"}, Reply(q, status)
  PROVE  /\ pc' \in [Requests -> {"new", "commit", "marshal", "wait", "iterate", "done"}]
         /\ answer' \in [Requests -> [status : {"none", "ok", "error", "timeout", "lost"},
                                      profile : Names \cup {NoProfile}]]
BY DEF TypeOK, Reply

LEMMA TypeDaemon ==
  ASSUME TypeOK, Inv, Inv', Daemon \/ Crash \/ Reload
  PROVE  TypeOK'
<1> USE Bounds, ActiveIsProfile DEF reqVars, dbVars, runVars
<1>0. jobs' \in Seq(Job) /\ (active \subseteq Names => active' \subseteq Names)
  BY DEF Inv, Shape, One, Job
<1>1. CASE Seed
  BY <1>0, <1>1, ProfilesAssumption DEF Seed, TypeOK, ProfilesAssumption
<1>2. CASE SeedActivate
  <2>1. applied' \in Profile
    <3>1. Default \in Names /\ rows[Default] \in 1..MaxDocs
      BY <1>2, ProfilesAssumption DEF SeedActivate, TypeOK, Inv, One, ProfilesAssumption
    <3>. QED  BY <1>2, <3>1 DEF SeedActivate, Profile
  <2>2. {nReloads, nCrashes, commits, seen}' \subseteq Nat
    BY <1>2 DEF SeedActivate, TypeOK
  <2>. QED  BY <1>0, <1>2, <2>1, <2>2 DEF SeedActivate, TypeOK
<1>3. CASE Start
  BY <1>0, <1>3 DEF Start, Apply, TypeOK
<1>4. CASE LoopRuns
  <2>1. applied' \in Profile /\ seen' \in Nat /\ unsettled' \in BOOLEAN
    BY <1>4 DEF LoopRuns, Apply, TypeOK
  <2>2. rooms' \in 0..MaxRooms
    BY <1>4 DEF LoopRuns, TypeOK
  <2>3. /\ pc' \in [Requests -> {"new", "commit", "marshal", "wait", "iterate", "done"}]
        /\ answer' \in [Requests -> [status : {"none", "ok", "error", "timeout", "lost"},
                                     profile : Names \cup {NoProfile}]]
    <3> DEFINE a == [status |-> "ok", profile |-> applied'.name]
               q == Head(jobs).by
    <3>1. a \in [status : {"none", "ok", "error", "timeout", "lost"}, profile : Names \cup {NoProfile}]
      BY <2>1, ProfileNamed
    <3>2. \/ pc' = [pc EXCEPT ![q] = "done"] /\ answer' = [answer EXCEPT ![q] = a]
          \/ pc' = pc /\ answer' = answer
      BY <1>4 DEF LoopRuns
    <3> HIDE DEF a, q
    <3>3. CASE pc' = [pc EXCEPT ![q] = "done"] /\ answer' = [answer EXCEPT ![q] = a]
      BY <3>1, <3>3 DEF TypeOK
    <3>4. CASE pc' = pc /\ answer' = answer
      BY <3>4 DEF TypeOK
    <3>. QED  BY <3>2, <3>3, <3>4
  <2>. QED  BY <1>0, <1>4, <2>1, <2>2, <2>3 DEF LoopRuns, TypeOK
<1>5. CASE Crash
  <2>1. /\ pc' \in [Requests -> {"new", "commit", "marshal", "wait", "iterate", "done"}]
        /\ answer' \in [Requests -> [status : {"none", "ok", "error", "timeout", "lost"},
                                     profile : Names \cup {NoProfile}]]
    BY <1>5 DEF Crash, TypeOK
  <2>2. nCrashes' \in Nat /\ applied' \in Profile /\ rooms' \in 0..MaxRooms
    BY <1>5 DEF Crash, TypeOK
  <2>3. blanked' \in BOOLEAN
    BY <1>5 DEF Crash, TypeOK
  <2>. QED  BY <1>0, <1>5, <2>1, <2>2, <2>3 DEF Crash, TypeOK
<1>6. CASE Reload
  <2>1. {nReloads, nCrashes, commits, seen}' \subseteq Nat
    BY <1>6 DEF Reload, Apply, TypeOK
  <2>2. applied' \in Profile /\ unsettled' \in BOOLEAN
    BY <1>6 DEF Reload, Apply
  <2>. QED  BY <1>0, <1>6, <2>1, <2>2 DEF Reload, TypeOK
<1>. QED  BY <1>1, <1>2, <1>3, <1>4, <1>5, <1>6 DEF Daemon

LEMMA TypeRequest ==
  ASSUME TypeOK, Inv', NEW q \in Requests, Request(q) \/ Thread(q)
  PROVE  TypeOK'
<1> USE Bounds DEF reqVars, dbVars, runVars
<1>0. jobs' \in Seq(Job) /\ (active \subseteq Names => active' \subseteq Names)
  BY DEF Inv, Shape, One, Job
<1>1. CASE Put(q)
  <2>1. rows' \in [Names -> 0..MaxDocs]
    BY <1>1 DEF Put, TypeOK
  <2>. QED  BY <1>0, <1>1, <2>1, Replied DEF Put, TypeOK
<1>2. CASE Delete(q)
  BY <1>0, <1>2, Replied DEF Delete, TypeOK
<1>3. CASE Activate(q)
  BY <1>0, <1>3, Replied DEF Activate, TypeOK
<1>4. CASE SetRp(q)
  BY <1>0, <1>4 DEF SetRp, TypeOK
<1>5. CASE Status(q)
  BY <1>0, <1>5 DEF Status, TypeOK
<1>6. CASE Commit(q)
  BY <1>0, <1>6 DEF Commit, TypeOK
<1>7. CASE Marshal(q)
  BY <1>0, <1>7 DEF Marshal, TypeOK
<1>8. CASE StatusEnds(q)
  BY <1>0, <1>8, Replied DEF StatusEnds, TypeOK
<1>9. CASE Timeout(q)
  BY <1>0, <1>9, Replied DEF Timeout, TypeOK
<1>. QED  BY <1>1, <1>2, <1>3, <1>4, <1>5, <1>6, <1>7, <1>8, <1>9 DEF Request, Thread

LEMMA TypeInductive == TypeOK /\ Inv /\ Inv' /\ [Next]_vars => TypeOK'
<1>1. ASSUME TypeOK, UNCHANGED vars PROVE TypeOK'
  BY <1>1 DEF TypeOK, vars, reqVars, dbVars, runVars
<1>. QED  BY <1>1, TypeDaemon, TypeRequest DEF Next

LEMMA TypeInit == Init => TypeOK
<1> SUFFICES ASSUME Init PROVE TypeOK
  OBVIOUS
<1>1. NoAnswer \in [status : {"none", "ok", "error", "timeout", "lost"}, profile : Names \cup {NoProfile}]
  BY DEF NoAnswer
<1>2. jobs \in Seq(Job)
  BY EmptySeq DEF Init
<1>3. /\ rows \in [Names -> 0..MaxDocs] /\ rooms \in 0..MaxRooms /\ size \in [Requests -> 0..MaxRooms]
      /\ mine \in [Requests -> Nat] /\ applied \in Profile
  BY Bounds DEF Init
<1>4. {nReloads, nCrashes, commits, seen} \subseteq Nat
  BY DEF Init
<1>. QED  BY <1>1, <1>2, <1>3, <1>4 DEF Init, TypeOK

\* Every variable keeps its type, the runtime's profile and the answers included.
THEOREM Typing == Spec => []TypeOK
BY InvInit, InvInductive, TypeInit, TypeInductive, PTL DEF Spec

-------------------------------------------------------------------------------
(* What an activation is answered *)

\* A request that has not committed has no commit of its own, nor has one whose
\* coroutine is not a reload; a coroutine is that of a thread that waits or waited.
Owner(j) == pc[j.by] \in {"wait", "done"} /\ (j.kind = "rp" => mine[j.by] = 0)
Committed ==
  /\ \A q \in Requests : mine[q] <= commits
  /\ \A q \in Requests : pc[q] \in {"new", "commit", "iterate"} => mine[q] = 0
  /\ \A i \in 1..Len(jobs) : Owner(jobs[i])

\* The coroutines after one is scheduled, and after the first has run.
LEMMA JobsAfter ==
  ASSUME TypeOK
  PROVE  /\ \A j \in Job : jobs' = Append(jobs, j) =>
              \A i \in 1..Len(jobs') : jobs'[i] = j \/ \E k \in 1..Len(jobs) : jobs'[i] = jobs[k]
         /\ jobs # <<>> /\ jobs' = Tail(jobs) =>
              /\ \E k \in 1..Len(jobs) : Head(jobs) = jobs[k]
              /\ \A i \in 1..Len(jobs') : \E k \in 1..Len(jobs) : jobs'[i] = jobs[k]
         /\ \A i \in 1..Len(jobs) : jobs[i].by \in Requests /\ jobs[i].kind \in {"reload", "rp"}
<1>1. jobs \in Seq(Job) /\ Len(jobs) \in Nat
  BY LenProperties DEF TypeOK
<1>2. ASSUME NEW j \in Job, jobs' = Append(jobs, j), NEW i \in 1..Len(jobs')
      PROVE  jobs'[i] = j \/ \E k \in 1..Len(jobs) : jobs'[i] = jobs[k]
  <2>1. /\ Len(jobs') = Len(jobs) + 1
        /\ \A k \in 1..Len(jobs) : jobs'[k] = jobs[k]
        /\ jobs'[Len(jobs) + 1] = j
    BY <1>1, <1>2, AppendProperties
  <2>. QED  BY <1>1, <2>1
<1>3. ASSUME jobs # <<>>, jobs' = Tail(jobs)
      PROVE  /\ \E k \in 1..Len(jobs) : Head(jobs) = jobs[k]
             /\ \A i \in 1..Len(jobs') : \E k \in 1..Len(jobs) : jobs'[i] = jobs[k]
  <2>1. /\ Len(jobs') = Len(jobs) - 1
        /\ \A i \in 1..Len(jobs') : jobs'[i] = jobs[i + 1]
        /\ Len(jobs) > 0 /\ Head(jobs) = jobs[1]
    BY <1>1, <1>3, HeadTailProperties, EmptySeq
  <2>2. ASSUME NEW i \in 1..Len(jobs') PROVE i + 1 \in 1..Len(jobs) /\ jobs'[i] = jobs[i + 1]
    BY <1>1, <2>1
  <2>3. 1 \in 1..Len(jobs)
    BY <1>1, <2>1
  <2>. QED  BY <2>1, <2>2, <2>3
<1>4. ASSUME NEW i \in 1..Len(jobs)
      PROVE  jobs[i].by \in Requests /\ jobs[i].kind \in {"reload", "rp"}
  <2>1. jobs[i] \in Job
    BY <1>1
  <2>. QED  BY <2>1 DEF Job
<1>. QED  BY <1>2, <1>3, <1>4

\* A step that commits nothing, of a thread that has committed or does not.
LEMMA CommittedStays ==
  ASSUME TypeOK, Committed, UNCHANGED <<commits, mine>>,
         \A q \in Requests : pc'[q] \in {"new", "commit", "iterate"} => mine[q] = 0,
         \A q \in Requests : pc[q] \in {"wait", "done"} => pc'[q] \in {"wait", "done"},
         \A i \in 1..Len(jobs') : Owner(jobs[i])' \/ \E k \in 1..Len(jobs) : jobs'[i] = jobs[k]
  PROVE  Committed'
<1>1. ASSUME NEW i \in 1..Len(jobs') PROVE Owner(jobs[i])'
  <2>1. ASSUME NEW k \in 1..Len(jobs), jobs'[i] = jobs[k] PROVE Owner(jobs[i])'
    BY <2>1, JobsAfter DEF Committed, Owner
  <2>. QED  BY <2>1
<1>. QED  BY <1>1 DEF Committed

LEMMA CommittedInductive == TypeOK /\ Committed /\ [Next]_vars => Committed'
<1> SUFFICES ASSUME TypeOK, Committed, [Next]_vars PROVE Committed'
  OBVIOUS
<1> USE DEF reqVars, dbVars, runVars
<1>0. DOMAIN pc = Requests /\ \A q \in Requests : pc[q] \in {"new", "commit", "marshal", "wait", "iterate", "done"}
  BY DEF TypeOK
<1>1. ASSUME UNCHANGED <<commits, mine, jobs>>,
             \A q \in Requests : pc'[q] \in {"new", "commit", "iterate"} => mine[q] = 0,
             \A q \in Requests : pc[q] \in {"wait", "done"} => pc'[q] \in {"wait", "done"}
      PROVE  Committed'
  BY <1>1, CommittedStays
<1>2. CASE UNCHANGED vars
  BY <1>1, <1>2 DEF vars, Committed
<1>3. CASE Seed \/ Start \/ Reload
  BY <1>1, <1>3 DEF Seed, Start, Reload, Committed
<1>4. CASE SeedActivate
  <2>1. /\ \A q \in Requests : mine'[q] <= commits'
        /\ \A q \in Requests : pc'[q] \in {"new", "commit", "iterate"} => mine'[q] = 0
    BY <1>4 DEF SeedActivate, Committed, TypeOK
  <2>2. \A i \in 1..Len(jobs') : Owner(jobs[i])'
    BY <1>4 DEF SeedActivate, Committed, Owner
  <2>. QED  BY <2>1, <2>2 DEF Committed
<1>5. CASE Crash
  <2>1. \A q \in Requests : pc'[q] = IF pc[q] = "new" THEN "new" ELSE "done"
    BY <1>5 DEF Crash
  <2>2. jobs' = <<>> /\ UNCHANGED <<commits, mine>>
    BY <1>5 DEF Crash
  <2>. QED  BY <2>1, <2>2, EmptySeq, CommittedStays DEF Committed
<1>6. CASE LoopRuns
  <2>1. jobs # <<>> /\ jobs' = Tail(jobs) /\ UNCHANGED <<commits, mine>>
    BY <1>6 DEF LoopRuns
  <2>2. \A q \in Requests : pc'[q] = pc[q] \/ (pc[q] = "wait" /\ pc'[q] = "done")
    BY <1>6, <1>0 DEF LoopRuns
  <2>3. \A i \in 1..Len(jobs') : \E k \in 1..Len(jobs) : jobs'[i] = jobs[k]
    BY <2>1, JobsAfter
  <2>4. \A q \in Requests : pc'[q] \in {"new", "commit", "iterate"} => mine[q] = 0
    BY <2>2 DEF Committed
  <2>. QED  BY <2>1, <2>2, <2>3, <2>4, CommittedStays
<1>7. ASSUME NEW q \in Requests, Put(q) \/ Delete(q) \/ StatusEnds(q) \/ Timeout(q) PROVE Committed'
  <2>1. UNCHANGED <<commits, mine, jobs>> /\ \A r \in Requests : pc'[r] = pc[r] \/ pc'[r] = "done"
    BY <1>7, <1>0 DEF Put, Delete, StatusEnds, Timeout, Reply
  <2>2. \A r \in Requests : pc'[r] \in {"new", "commit", "iterate"} => mine[r] = 0
    BY <2>1 DEF Committed
  <2>. QED  BY <1>1, <2>1, <2>2
<1>8. ASSUME NEW q \in Requests, Activate(q) \/ Status(q) PROVE Committed'
  <2>1. /\ UNCHANGED <<commits, mine, jobs>> /\ pc[q] = "new"
        /\ \A r \in Requests : pc'[r] = pc[r] \/ r = q
    BY <1>8, <1>0 DEF Activate, Status, Reply
  <2>2. \A r \in Requests : pc'[r] \in {"new", "commit", "iterate"} => mine[r] = 0
    BY <2>1 DEF Committed
  <2>3. \A r \in Requests : pc[r] \in {"wait", "done"} => pc'[r] \in {"wait", "done"}
    BY <2>1
  <2>. QED  BY <1>1, <2>1, <2>2, <2>3
<1>9. ASSUME NEW q \in Requests, SetRp(q) PROVE Committed'
  <2> DEFINE j == [kind |-> "rp", by |-> q]
  <2>1. /\ jobs' = Append(jobs, j) /\ UNCHANGED <<commits, mine>> /\ pc[q] = "new" /\ pc'[q] = "wait"
        /\ \A r \in Requests : pc'[r] = pc[r] \/ r = q
    BY <1>9, <1>0 DEF SetRp
  <2>2. j \in Job /\ Owner(j)'
    BY <2>1 DEF Job, Owner, Committed
  <2> HIDE DEF j
  <2>3. \A i \in 1..Len(jobs') : Owner(jobs[i])' \/ \E k \in 1..Len(jobs) : jobs'[i] = jobs[k]
    BY <2>1, <2>2, JobsAfter DEF Owner
  <2>4. \A r \in Requests : pc'[r] \in {"new", "commit", "iterate"} => mine[r] = 0
    BY <2>1 DEF Committed
  <2>. QED  BY <2>1, <2>3, <2>4, CommittedStays
<1>10. ASSUME NEW q \in Requests, Marshal(q) PROVE Committed'
  <2> DEFINE j == [kind |-> "reload", by |-> q]
  <2>1. /\ jobs' = Append(jobs, j) /\ UNCHANGED <<commits, mine>> /\ pc[q] = "marshal" /\ pc'[q] = "wait"
        /\ \A r \in Requests : pc'[r] = pc[r] \/ r = q
    BY <1>10, <1>0 DEF Marshal
  <2>2. j \in Job /\ Owner(j)'
    BY <2>1 DEF Job, Owner
  <2> HIDE DEF j
  <2>3. \A i \in 1..Len(jobs') : Owner(jobs[i])' \/ \E k \in 1..Len(jobs) : jobs'[i] = jobs[k]
    BY <2>1, <2>2, JobsAfter DEF Owner
  <2>4. \A r \in Requests : pc'[r] \in {"new", "commit", "iterate"} => mine[r] = 0
    BY <2>1 DEF Committed
  <2>. QED  BY <2>1, <2>3, <2>4, CommittedStays
<1>11. ASSUME NEW q \in Requests, Commit(q) PROVE Committed'
  <2>1. /\ commits' = commits + 1 /\ mine' = [mine EXCEPT ![q] = commits + 1] /\ jobs' = jobs
        /\ pc[q] = "commit" /\ pc'[q] = "marshal"
        /\ \A r \in Requests \ {q} : pc'[r] = pc[r]
    BY <1>11, <1>0 DEF Commit
  <2>2. mine'[q] = commits + 1 /\ \A r \in Requests \ {q} : mine'[r] = mine[r]
    BY <2>1 DEF TypeOK
  <2>3. \A r \in Requests : mine'[r] <= commits'
    BY <2>1, <2>2 DEF Committed, TypeOK
  <2>4. \A r \in Requests : pc'[r] \in {"new", "commit", "iterate"} => mine'[r] = 0
    BY <2>1, <2>2 DEF Committed
  <2>5. ASSUME NEW i \in 1..Len(jobs') PROVE Owner(jobs[i])'
    <3>1. Owner(jobs[i]) /\ jobs[i].by \in Requests
      BY <2>1, <2>5, JobsAfter DEF Committed
    <3>2. jobs[i].by # q
      BY <2>1, <3>1 DEF Owner
    <3>. QED  BY <2>1, <2>2, <3>1, <3>2 DEF Owner
  <2>. QED  BY <2>3, <2>4, <2>5 DEF Committed
<1>. QED  BY <1>2, <1>3, <1>4, <1>5, <1>6, <1>7, <1>8, <1>9, <1>10, <1>11
          DEF Next, Daemon, Request, Thread

LEMMA CommittedInit == Init => Committed
BY EmptySeq DEF Init, Committed

\* Who is answered "ok" has no commit of its own, or its reload has just run.
LEMMA AnswersTrue ==
  ASSUME TypeOK, Committed, [Next]_vars, NEW q \in Requests,
         answer[q].status = "none", answer'[q].status = "ok"
  PROVE  seen' >= mine'[q]
<1> USE DEF reqVars, dbVars, runVars
<1>0. DOMAIN answer = Requests /\ DOMAIN pc = Requests /\ seen \in Nat /\ commits \in Nat /\ mine[q] \in Nat
  BY DEF TypeOK
<1>1. answer' # answer
  OBVIOUS
<1>2. ASSUME mine'[q] = 0, seen' \in Nat PROVE seen' >= mine'[q]
  BY <1>2
<1>3. CASE LoopRuns
  <2>1. PICK k \in 1..Len(jobs) : Head(jobs) = jobs[k]
    BY <1>3, JobsAfter DEF LoopRuns
  <2>2. Head(jobs).by = q /\ mine' = mine
    BY <1>0, <1>1, <1>3 DEF LoopRuns
  <2>3. CASE Head(jobs).kind = "reload"
    <3>1. seen' = commits
      BY <1>3, <2>3 DEF LoopRuns, Apply
    <3>. QED  BY <1>0, <2>2, <3>1 DEF Committed
  <2>4. CASE Head(jobs).kind = "rp"
    <3>1. mine[q] = 0 /\ seen' = seen
      BY <1>3, <2>1, <2>2, <2>4 DEF LoopRuns, Committed, Owner
    <3>. QED  BY <1>0, <2>2, <3>1
  <2>. QED  BY <2>1, <2>3, <2>4, JobsAfter
<1>4. CASE Crash
  BY <1>4 DEF Crash
<1>5. ASSUME NEW r \in Requests, Put(r) \/ Delete(r) \/ StatusEnds(r) PROVE seen' >= mine'[q]
  <2>1. pc[r] \in {"new", "iterate"} /\ UNCHANGED <<seen, mine>>
    BY <1>5 DEF Put, Delete, StatusEnds
  <2>2. r = q
    BY <1>0, <1>5 DEF Put, Delete, StatusEnds, Reply
  <2>. QED  BY <1>0, <2>1, <2>2 DEF Committed
<1>6. ASSUME NEW r \in Requests, Timeout(r) \/ Activate(r) PROVE FALSE
  <2>1. \/ answer' = answer
        \/ \E status \in {"timeout", "error"} :
             answer' = [answer EXCEPT ![r] = [status |-> status, profile |-> NoProfile]]
    BY <1>6 DEF Timeout, Activate, Reply
  <2>. QED  BY <1>0, <2>1
<1>7. CASE \/ Seed \/ SeedActivate \/ Start \/ Reload \/ UNCHANGED vars
           \/ \E r \in Requests : SetRp(r) \/ Status(r) \/ Commit(r) \/ Marshal(r)
  BY <1>1, <1>7 DEF Seed, SeedActivate, Start, Reload, vars, SetRp, Status, Commit, Marshal
<1>. QED  BY <1>3, <1>4, <1>5, <1>6, <1>7 DEF Next, Daemon, Request, Thread

\* A 200 to an activation (http_api.py) is true: its commit has been applied, whichever
\* reload ran first, and whoever else committed, timed out or died meanwhile.
THEOREM AnswersAreTrue == Spec => AnsweredWhenApplied
<1>1. TypeOK /\ Committed /\ [Next]_vars =>
        [\A q \in Requests :
           answer[q].status = "none" /\ answer'[q].status = "ok" => seen' >= mine'[q]]_vars
  BY AnswersTrue
<1>. QED  BY <1>1, InvInit, InvInductive, TypeInit, TypeInductive, CommittedInit, CommittedInductive, PTL
          DEF Spec, AnsweredWhenApplied
===============================================================================
