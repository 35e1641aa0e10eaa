------------------------------ MODULE CloudProofs ------------------------------
(***************************************************************************)
(* Theorems about Cloud, for any number of terminals, commands, boxes and  *)
(* faults: its types, a teardown that ends and a guard's verdict, the key  *)
(* a saved box opens to, and what a run or a download reports.             *)
(***************************************************************************)
EXTENDS Cloud, FiniteSetTheorems, TLAPS

Fields == {"command", "key", "sg", "box", "ids", "object", "data", "sha", "headed", "ok"}

\* As much of the types as the steps need.
Shape ==
  /\ DOMAIN pc = Terminals /\ DOMAIN my = Terminals /\ DOMAIN beside = Terminals
  /\ \A t \in Terminals : DOMAIN my[t] = Fields
  /\ DOMAIN box = Box /\ \A b \in Box : DOMAIN box[b] = {"st", "key", "sg"}

\* A provision is known by its command, and two commands that run know of each
\* other.
Aware ==
  /\ \A t \in Terminals : pc[t] \in ProvisionAt => my[t].command = "provision"
  /\ \A t, u \in Terminals : t # u /\ pc[t] # "idle" /\ pc[u] # "idle" => my[u].command \in beside[t]

\* What a teardown or a guard knows that no provision runs beside: the boxes it
\* ended stay ended, and what the guard does not see is not there.
Watch == {"gone?", "delsg", "dropkey", "rmbucket", "clear", "guardsg", "verdict"}
Knows(t) ==
  "provision" \notin beside[t] =>
    /\ pc[t] \in {"gone?", "delsg", "dropkey", "rmbucket", "clear"} => Live = {}
    /\ pc[t] \in {"guardsg", "verdict"} => (Live # {} => my[t].ids # {})
    /\ pc[t] = "verdict" => (sg # 0 => my[t].sg # 0)

\* The inductive invariant.
Inv == Shape /\ Aware /\ \A t \in Terminals : Knows(t)

-------------------------------------------------------------------------------
(* A step of one terminal *)

\* Nothing is launched or made.
NothingNew == Live' \subseteq Live /\ keyPair' \in {0, keyPair} /\ sg' \in {0, sg}

\* The command of t goes on: only a provision makes anything, and what t itself
\* knows is shown for the step.
Goes(t) ==
  /\ pc[t] # "idle" /\ beside' = beside
  /\ DOMAIN pc' = Terminals /\ DOMAIN my' = Terminals /\ DOMAIN my'[t] = Fields
  /\ \A u \in Terminals \ {t} : pc'[u] = pc[u] /\ my'[u] = my[u]
  /\ my'[t].command = my[t].command
  /\ pc'[t] \in ProvisionAt => my[t].command = "provision"
  /\ DOMAIN box' = Box /\ \A b \in Box : DOMAIN box'[b] = {"st", "key", "sg"}
  /\ pc[t] \in ProvisionAt \/ NothingNew

LEMMA OthersKnow ==
  ASSUME Inv, NEW t \in Terminals, Goes(t), Knows(t)'
  PROVE  Inv'
<1>1. Shape'
  BY DEF Inv, Shape, Goes
<1>2. Aware'
  BY DEF Inv, Aware, Goes
<1>3. ASSUME NEW u \in Terminals PROVE Knows(u)'
  <2>1. CASE u = t
    BY <2>1
  <2>2. CASE u # t
    <3>1. pc'[u] = pc[u] /\ my'[u] = my[u] /\ beside'[u] = beside[u] /\ Knows(u)
      BY <2>2 DEF Goes, Inv
    <3>2. CASE pc[t] \in ProvisionAt
      <4>1. pc[u] # "idle" => "provision" \in beside[u]
        BY <2>2, <3>2 DEF Inv, Aware, Goes
      <4>. QED  BY <3>1, <4>1 DEF Knows
    <3>3. CASE NothingNew
      <4>. QED  BY <3>1, <3>3 DEF Knows, NothingNew
    <3>. QED  BY <3>2, <3>3 DEF Goes
  <2>. QED  BY <2>1, <2>2
<1>. QED  BY <1>1, <1>2, <1>3 DEF Inv

\* Where the command of t is none that watches, it has nothing to know.
LEMMA KnowsNothing ==
  ASSUME NEW t, pc'[t] \notin Watch
  PROVE  Knows(t)'
BY DEF Knows, Watch

\* The boxes there are and what a step makes of them.
Boxes == DOMAIN box' = Box /\ \A b \in Box : DOMAIN box'[b] = {"st", "key", "sg"}

\* A step that moves the program counter and sets a local or two, or none.
Moved(t, next) ==
  /\ pc' = [pc EXCEPT ![t] = next] /\ beside' = beside
  /\ \/ my' = my
     \/ \E f \in Fields \ {"command"} : \E v : my' = [my EXCEPT ![t] = [my[t] EXCEPT ![f] = v]]
     \/ \E v, w : my' = [my EXCEPT ![t] = [my[t] EXCEPT !.sha = v, !.headed = w]]

LEMMA Moves ==
  ASSUME Inv, NEW t \in Terminals, pc[t] # "idle", NEW next, Moved(t, next),
         next \in ProvisionAt => pc[t] \in ProvisionAt,
         Boxes, pc[t] \in ProvisionAt \/ NothingNew
  PROVE  Goes(t) /\ pc'[t] = next
<1>1. DOMAIN pc = Terminals /\ DOMAIN my = Terminals /\ DOMAIN my[t] = Fields
  BY DEF Inv, Shape
<1>2. DOMAIN pc' = Terminals /\ pc'[t] = next /\ \A u \in Terminals \ {t} : pc'[u] = pc[u]
  BY <1>1 DEF Moved
<1>3. /\ DOMAIN my' = Terminals /\ DOMAIN my'[t] = Fields /\ my'[t].command = my[t].command
      /\ \A u \in Terminals \ {t} : my'[u] = my[u]
  <2>1. CASE my' = my
    BY <1>1, <2>1
  <2>2. ASSUME NEW f \in Fields \ {"command"}, NEW v, my' = [my EXCEPT ![t] = [my[t] EXCEPT ![f] = v]]
        PROVE  /\ DOMAIN my' = Terminals /\ DOMAIN my'[t] = Fields /\ my'[t].command = my[t].command
               /\ \A u \in Terminals \ {t} : my'[u] = my[u]
    BY <1>1, <2>2 DEF Fields
  <2>3. ASSUME NEW v, NEW w, my' = [my EXCEPT ![t] = [my[t] EXCEPT !.sha = v, !.headed = w]]
        PROVE  /\ DOMAIN my' = Terminals /\ DOMAIN my'[t] = Fields /\ my'[t].command = my[t].command
               /\ \A u \in Terminals \ {t} : my'[u] = my[u]
    BY <1>1, <2>3 DEF Fields
  <2>. QED  BY <2>1, <2>2, <2>3 DEF Moved
<1>4. pc'[t] \in ProvisionAt => my[t].command = "provision"
  BY <1>2 DEF Inv, Aware
<1>. QED  BY <1>2, <1>3, <1>4 DEF Goes, Boxes, Moved

LEMMA SameBoxes ==
  ASSUME Inv, box' = box
  PROVE  Boxes /\ Live' = Live
BY DEF Inv, Shape, Boxes, Live

\* A step within a command that changes nothing of the region.
LEMMA Plain ==
  ASSUME Inv, NEW t \in Terminals, pc[t] # "idle", NEW next, Moved(t, next), next \notin Watch,
         next \in ProvisionAt => pc[t] \in ProvisionAt, UNCHANGED aws
  PROVE  Inv'
<1>1. Boxes /\ NothingNew
  BY SameBoxes DEF aws, NothingNew
<1>2. Goes(t) /\ pc'[t] = next
  BY <1>1, Moves
<1>. QED  BY <1>2, KnowsNothing, OthersKnow

\* A step of a provision.
LEMMA Makes ==
  ASSUME Inv, NEW t \in Terminals, pc[t] \in ProvisionAt, NEW next, Moved(t, next),
         next \notin Watch, Boxes
  PROVE  Inv'
<1>1. pc[t] # "idle"
  BY DEF ProvisionAt
<1>2. Goes(t) /\ pc'[t] = next
  BY <1>1, Moves
<1>. QED  BY <1>2, KnowsNothing, OthersKnow

\* A command starts, and knows of those that run as they know of it.
LEMMA InvStart ==
  ASSUME Inv, NEW t \in Terminals, NEW command, NEW first, NEW locals, Start(t, command, first, locals),
         DOMAIN locals = Fields, first \in ProvisionAt => command = "provision", first \notin Watch
  PROVE  Inv'
<1> DEFINE others == {u \in Terminals \ {t} : pc[u] # "idle"}
<1>1. /\ pc[t] = "idle"
      /\ pc' = [pc EXCEPT ![t] = first]
      /\ my' = [my EXCEPT ![t] = [locals EXCEPT !.command = command]]
      /\ beside' = [u \in Terminals |->
                      IF u = t THEN {my[o].command : o \in others}
                      ELSE IF u \in others THEN beside[u] \cup {command} ELSE beside[u]]
      /\ UNCHANGED aws
  BY DEF Start
<1>2. /\ DOMAIN pc' = Terminals /\ pc'[t] = first
      /\ \A u \in Terminals \ {t} : pc'[u] = pc[u]
  BY <1>1 DEF Inv, Shape
<1>3. /\ DOMAIN my' = Terminals /\ my'[t].command = command /\ DOMAIN my'[t] = Fields
      /\ \A u \in Terminals \ {t} : my'[u] = my[u]
  <2>1. DOMAIN [locals EXCEPT !.command = command] = Fields
        /\ [locals EXCEPT !.command = command].command = command
    BY DEF Fields
  <2>. QED  BY <1>1, <2>1 DEF Inv, Shape
<1>4. \A u \in others : my[u].command \in beside'[t] /\ command \in beside'[u]
  BY <1>1
<1>5. \A u \in Terminals \ {t} : beside[u] \subseteq beside'[u]
  BY <1>1
<1>6. Shape'
  <2>1. Boxes
    BY <1>1, SameBoxes DEF aws
  <2>2. DOMAIN beside' = Terminals
    BY <1>1
  <2>3. \A u \in Terminals : DOMAIN my'[u] = Fields
    BY <1>3 DEF Inv, Shape
  <2>. QED  BY <1>2, <1>3, <2>1, <2>2, <2>3 DEF Shape, Boxes, Box
<1>7. Aware'
  <2>1. ASSUME NEW u \in Terminals, pc'[u] \in ProvisionAt PROVE my'[u].command = "provision"
    BY <1>2, <1>3, <2>1 DEF Inv, Aware
  <2>2. ASSUME NEW u \in Terminals, NEW v \in Terminals, u # v, pc'[u] # "idle", pc'[v] # "idle"
        PROVE  my'[v].command \in beside'[u]
    <3>1. CASE u = t
      BY <1>2, <1>3, <1>4, <2>2, <3>1
    <3>2. CASE v = t
      BY <1>2, <1>3, <1>4, <2>2, <3>2
    <3>3. CASE u # t /\ v # t
      BY <1>2, <1>3, <1>5, <2>2, <3>3 DEF Inv, Aware
    <3>. QED  BY <3>1, <3>2, <3>3
  <2>. QED  BY <2>1, <2>2 DEF Aware
<1>8. ASSUME NEW u \in Terminals PROVE Knows(u)'
  <2>1. CASE u = t
    BY <1>2, <2>1, KnowsNothing
  <2>2. CASE u # t
    <3>1. Knows(u) /\ beside[u] \subseteq beside'[u] /\ pc'[u] = pc[u] /\ my'[u] = my[u]
      BY <1>2, <1>3, <1>5, <2>2 DEF Inv
    <3>2. Live' = Live /\ keyPair' = keyPair /\ sg' = sg
      BY <1>1, SameBoxes DEF aws
    <3>. QED  BY <3>1, <3>2 DEF Knows
  <2>. QED  BY <2>1, <2>2
<1>. QED  BY <1>6, <1>7, <1>8 DEF Inv

LEMMA StartsEmpty == DOMAIN NoLocals = Fields
BY DEF NoLocals, Fields

\* A step of none of the commands.
LEMMA InvWorld ==
  ASSUME Inv, UNCHANGED <<pc, my>>, DOMAIN beside' = Terminals,
         \A t \in Terminals : beside[t] \subseteq beside'[t], Boxes, NothingNew
  PROVE  Inv'
<1>1. Shape'
  BY DEF Inv, Shape, Boxes, Box
<1>2. Aware'
  BY DEF Inv, Aware
<1>3. ASSUME NEW t \in Terminals PROVE Knows(t)'
  <2>1. Knows(t) /\ beside[t] \subseteq beside'[t]
    BY DEF Inv
  <2>. QED  BY <2>1 DEF Knows, NothingNew
<1>. QED  BY <1>1, <1>2, <1>3 DEF Inv

-------------------------------------------------------------------------------
(* The commands *)

LEMMA InvProvision ==
  ASSUME Inv, NEW t \in Terminals, Provision(t)
  PROVE  Inv'
<1> USE DEF Moved, To, bounds, aws, Watch, ProvisionAt, Fields
<1>1. CASE Start(t, "provision", "key?", NoLocals)
  BY <1>1, StartsEmpty, InvStart
<1>2. CASE EnsureKey(t)
  <2>1. PICK next \in {"sg?", "delkey", "mkkey"} : Moved(t, next)
    BY <1>2 DEF EnsureKey
  <2>. QED  BY <1>2, <2>1, Plain DEF EnsureKey
<1>3. CASE DeleteKey(t)
  BY <1>3, SameBoxes, Makes DEF DeleteKey
<1>4. CASE CreateKey(t)
  BY <1>4, SameBoxes, Makes DEF CreateKey
<1>5. CASE DuplicateKey(t)
  BY <1>5, Plain DEF DuplicateKey, Refused
<1>6. CASE OpenPem(t) \/ WritePem(t)
  BY <1>6, Plain DEF OpenPem, WritePem
<1>7. CASE EnsureSg(t)
  <2>1. PICK next \in {"ingress", "mksg"} : Moved(t, next)
    BY <1>7 DEF EnsureSg
  <2>. QED  BY <1>7, <2>1, Plain DEF EnsureSg
<1>8. CASE CreateSg(t)
  BY <1>8, SameBoxes, Makes DEF CreateSg
<1>9. CASE DuplicateSg(t)
  BY <1>9, Plain DEF DuplicateSg, Refused
<1>10. CASE Ingress(t)
  <2>1. PICK next \in {"launch", "idle"} : Moved(t, next)
    BY <1>10 DEF Ingress, Refused
  <2>. QED  BY <1>10, <2>1, Plain DEF Ingress
<1>11. CASE Launch(t)
  <2>1. Boxes
    BY <1>11 DEF Launch, Boxes, Inv, Shape
  <2>. QED  BY <1>11, <2>1, Makes DEF Launch
<1>12. CASE NoCapacity(t)
  BY <1>12, Plain DEF NoCapacity
<1>13. CASE LaunchRefused(t)
  BY <1>13, Plain DEF LaunchRefused, Refused
<1>14. CASE Ready(t)
  <2>1. PICK next \in {"save", "idle"} : Moved(t, next)
    BY <1>14 DEF Ready
  <2>. QED  BY <1>14, <2>1, Plain DEF Ready
<1>15. CASE SaveState(t)
  BY <1>15, Plain DEF SaveState
<1>. QED  BY <1>1, <1>2, <1>3, <1>4, <1>5, <1>6, <1>7, <1>8, <1>9, <1>10, <1>11, <1>12, <1>13, <1>14,
             <1>15 DEF Provision

\* A teardown or a guard goes on: it makes nothing.
LEMMA Watches ==
  ASSUME Inv, NEW t \in Terminals, pc[t] # "idle", NEW next, Moved(t, next),
         next \notin ProvisionAt, Boxes, NothingNew, Knows(t)'
  PROVE  Inv'
BY Moves, OthersKnow

LEMMA MovedTo ==
  ASSUME Inv, NEW t \in Terminals, NEW next, Moved(t, next)
  PROVE  pc'[t] = next /\ beside'[t] = beside[t]
BY DEF Inv, Shape, Moved

LEMMA InvTeardown ==
  ASSUME Inv, NEW t \in Terminals, Teardown(t)
  PROVE  Inv'
<1> USE DEF To, bounds, Fields
<1>0. Knows(t) /\ DOMAIN my[t] = Fields /\ DOMAIN my = Terminals
  BY DEF Inv, Shape
<1>1. CASE Start(t, "teardown", "list", NoLocals)
  BY <1>1, StartsEmpty, InvStart DEF Watch, ProvisionAt
<1>2. CASE Terminate(t)
  <2>1. Moved(t, "gone?")
    BY <1>2 DEF Terminate, Moved
  <2>2. Boxes /\ Live' = {}
    BY <1>2 DEF Terminate, Boxes, Live, Inv, Shape
  <2>3. NothingNew
    BY <1>2, <2>2 DEF Terminate, NothingNew
  <2>4. Knows(t)'
    BY <2>1, <2>2, MovedTo DEF Knows
  <2>. QED  BY <1>2, <2>1, <2>2, <2>3, <2>4, Watches DEF Terminate, ProvisionAt
<1>3. CASE AllGone(t)
  <2>1. Moved(t, "delsg") /\ Boxes /\ Live' = Live
    BY <1>3, SameBoxes DEF AllGone, Moved, aws
  <2>2. Knows(t)'
    BY <1>0, <1>3, <2>1, MovedTo DEF AllGone, Knows
  <2>. QED  BY <1>3, <2>1, <2>2, Watches DEF AllGone, NothingNew, aws, ProvisionAt
<1>4. CASE DeleteSg(t)
  <2>1. Moved(t, "dropkey") /\ Boxes /\ Live' = Live
    BY <1>4, SameBoxes DEF DeleteSg, Moved
  <2>2. Knows(t)'
    BY <1>0, <1>4, <2>1, MovedTo DEF DeleteSg, Knows
  <2>. QED  BY <1>4, <2>1, <2>2, Watches DEF DeleteSg, NothingNew, ProvisionAt
<1>5. CASE DropKey(t)
  <2>1. PICK next \in {"clear", "rmbucket"} : Moved(t, next)
    BY <1>5 DEF DropKey, Moved
  <2>2. Boxes /\ Live' = Live
    BY <1>5, SameBoxes DEF DropKey
  <2>3. Knows(t)'
    BY <1>0, <1>5, <2>1, <2>2, MovedTo DEF DropKey, Knows
  <2>. QED  BY <1>5, <2>1, <2>2, <2>3, Watches DEF DropKey, NothingNew, ProvisionAt
<1>6. CASE RemoveBucket(t)
  <2>1. Moved(t, "clear") /\ Boxes /\ Live' = Live
    BY <1>6, SameBoxes DEF RemoveBucket, Moved, aws
  <2>2. Knows(t)'
    BY <1>0, <1>6, <2>1, MovedTo DEF RemoveBucket, Knows, aws
  <2>. QED  BY <1>6, <2>1, <2>2, Watches DEF RemoveBucket, NothingNew, aws, ProvisionAt
<1>7. CASE ClearState(t)
  BY <1>7, Plain DEF ClearState, Moved, Watch, ProvisionAt
<1>. QED  BY <1>1, <1>2, <1>3, <1>4, <1>5, <1>6, <1>7 DEF Teardown

LEMMA InvGuard ==
  ASSUME Inv, NEW t \in Terminals, Guard(t)
  PROVE  Inv'
<1> USE DEF To, bounds
<1>0. Knows(t) /\ DOMAIN my[t] = Fields /\ DOMAIN my = Terminals
  BY DEF Inv, Shape
<1>1. CASE Start(t, "guard", "guard", NoLocals)
  BY <1>1, StartsEmpty, InvStart DEF Watch, ProvisionAt
<1>2. CASE GuardBoxes(t)
  <2>1. Moved(t, "guardsg") /\ Boxes /\ Live' = Live
    BY <1>2, SameBoxes DEF GuardBoxes, Moved, Fields, aws
  <2>2. my'[t].ids = Live
    BY <1>0, <1>2 DEF GuardBoxes, Fields
  <2>3. Knows(t)'
    BY <2>1, <2>2, MovedTo DEF Knows
  <2>. QED  BY <1>2, <2>1, <2>3, Watches DEF GuardBoxes, NothingNew, aws, ProvisionAt
<1>3. CASE GuardSgs(t)
  <2>1. Moved(t, "verdict") /\ Boxes /\ Live' = Live /\ sg' = sg
    BY <1>3, SameBoxes DEF GuardSgs, Moved, Fields, aws
  <2>2. my'[t].sg = sg /\ my'[t].ids = my[t].ids
    BY <1>0, <1>3 DEF GuardSgs, Fields
  <2>3. Knows(t)'
    BY <1>0, <1>3, <2>1, <2>2, MovedTo DEF GuardSgs, Knows
  <2>. QED  BY <1>3, <2>1, <2>3, Watches DEF GuardSgs, NothingNew, aws, ProvisionAt
<1>4. CASE Verdict(t)
  BY <1>4, Plain DEF Verdict, Moved, Watch, ProvisionAt
<1>. QED  BY <1>1, <1>2, <1>3, <1>4 DEF Guard

LEMMA InvTransfer ==
  ASSUME Inv, NEW t \in Terminals, Transfer(t)
  PROVE  Inv'
<1> USE DEF Moved, To, bounds, Watch, ProvisionAt, Fields
<1>1. CASE Start(t, "sync-up", "pack", NoLocals)
  BY <1>1, StartsEmpty, InvStart
<1>2. ASSUME NEW o \in DOMAIN object, Start(t, "sync-down", "head", [NoLocals EXCEPT !.object = o])
      PROVE  Inv'
  <2>1. DOMAIN [NoLocals EXCEPT !.object = o] = Fields
    BY StartsEmpty
  <2>. QED  BY <1>2, <2>1, InvStart
<1>3. ASSUME NEW content \in Contents, Pack(t, content) PROVE Inv'
  BY <1>3, Plain DEF Pack, aws
<1>4. CASE Hash(t)
  BY <1>4, Plain DEF Hash
<1>5. CASE EnsureBucket(t)
  <2>1. PICK next \in {"upload", "mkbucket"} : Moved(t, next)
    BY <1>5 DEF EnsureBucket
  <2>. QED  BY <1>5, <2>1, Plain DEF EnsureBucket
<1>6. CASE CreateBucket(t)
  BY <1>6, Plain DEF CreateBucket
<1>7. CASE Upload(t)
  BY <1>7, Plain DEF Upload
<1>8. CASE Head(t)
  <2>1. PICK next \in {"idle", "get"} : Moved(t, next)
    BY <1>8 DEF Head
  <2>. QED  BY <1>8, <2>1, Plain DEF Head
<1>9. CASE Get(t)
  <2>1. PICK next \in {"idle", "check"} : Moved(t, next)
    BY <1>9 DEF Get
  <2>. QED  BY <1>9, <2>1, Plain DEF Get
<1>10. CASE Check(t)
  BY <1>10, Plain DEF Check
<1>. QED  BY <1>1, <1>2, <1>3, <1>4, <1>5, <1>6, <1>7, <1>8, <1>9, <1>10 DEF Transfer

LEMMA InvRun ==
  ASSUME Inv, NEW t \in Terminals, Run(t)
  PROVE  Inv'
<1> USE DEF Moved, To, bounds, Watch, ProvisionAt, Fields, JobAt
<1>1. CASE StartRun(t)
  <2>1. \A o : DOMAIN [NoLocals EXCEPT !.box = state, !.object = o] = Fields
    BY StartsEmpty
  <2>. QED  BY <1>1, <2>1, InvStart DEF StartRun
<1>2. CASE Connect(t)
  BY <1>2, Plain DEF Connect
<1>3. CASE NoConnection(t)
  BY <1>3, Plain DEF NoConnection, Refused
<1>4. CASE Bootstrap(t)
  BY <1>4, Plain DEF Bootstrap
<1>5. CASE Fetch(t)
  BY <1>5, Plain DEF Fetch
<1>6. CASE Compute(t)
  BY <1>6, Plain DEF Compute
<1>7. CASE Digest(t)
  BY <1>7, Plain DEF Digest
<1>8. CASE Store(t)
  BY <1>8, Plain DEF Store
<1>9. CASE JobFails(t)
  BY <1>9, Plain DEF JobFails
<1>10. CASE Exit(t)
  BY <1>10, Plain DEF Exit
<1>. QED  BY <1>1, <1>2, <1>3, <1>4, <1>5, <1>6, <1>7, <1>8, <1>9, <1>10 DEF Run, Job

LEMMA InvCut ==
  ASSUME Inv, NEW t \in Terminals, Cut(t)
  PROVE  Inv'
<1>1. Moved(t, "idle") /\ pc[t] # "idle" /\ UNCHANGED aws
  BY DEF Cut, Moved
<1>. QED  BY <1>1, Plain DEF Watch, ProvisionAt

\* What AWS does of itself brings no box to life.
LEMMA InvItself ==
  ASSUME Inv, \/ \E b \in Box : Boots(b) \/ Ends(b) \/ Reclaimed(b)
              \/ LosePem \/ \E content \in Contents : HandPut(content)
  PROVE  Inv'
<1>1. ASSUME NEW b \in Box, Boots(b) \/ Ends(b) \/ Reclaimed(b) PROVE Inv'
  <2>1. PICK st \in {"running", "gone", "ending"} :
          Becomes(b, st) /\ (st = "running" => box[b].st = "pending")
    BY <1>1 DEF Boots, Ends, Reclaimed
  <2>2. Boxes /\ Live' \subseteq Live
    BY <2>1 DEF Becomes, Boxes, Live, Inv, Shape
  <2>. QED  BY <2>1, <2>2, InvWorld DEF Becomes, NothingNew, Inv, Shape
<1>2. CASE LosePem
  <2>1. DOMAIN beside' = Terminals /\ \A t \in Terminals : beside[t] \subseteq beside'[t]
    BY <1>2 DEF LosePem
  <2>. QED  BY <1>2, <2>1, SameBoxes, InvWorld DEF LosePem, NothingNew, aws
<1>3. ASSUME NEW content \in Contents, HandPut(content) PROVE Inv'
  BY <1>3, SameBoxes, InvWorld DEF HandPut, NothingNew, aws, Inv, Shape
<1>. QED  BY <1>1, <1>2, <1>3

LEMMA InvInductive == Inv /\ [Next]_vars => Inv'
<1> SUFFICES ASSUME Inv, [Next]_vars PROVE Inv'
  OBVIOUS
<1>1. CASE UNCHANGED vars
  BY <1>1, SameBoxes, InvWorld DEF vars, aws, bounds, NothingNew, Inv, Shape
<1>. QED  BY <1>1, InvProvision, InvTeardown, InvGuard, InvTransfer, InvRun, InvCut, InvItself DEF Next

LEMMA InvInit == Init => Inv
<1> SUFFICES ASSUME Init PROVE Inv
  OBVIOUS
<1>1. Shape
  BY StartsEmpty DEF Init, Shape
<1>2. Aware /\ \A t \in Terminals : Knows(t)
  BY DEF Init, Aware, Knows, ProvisionAt
<1>. QED  BY <1>1, <1>2 DEF Inv

-------------------------------------------------------------------------------
\* A teardown that gets to its end (teardown.py) with no provision beside it leaves
\* no instance; a guard without one never calls a region clean that has an instance
\* or a group; whatever was cut, reclaimed or lost before.
THEOREM NothingLeft == Spec => NothingLeftUnseen
<1>1. Inv /\ [Next]_vars =>
        [\A t \in Terminals : ~Beside(t, {"provision"}) =>
           /\ ClearState(t) => Live = {}
           /\ Verdict(t) => (Live # {} => my[t].ids # {}) /\ (sg # 0 => my[t].sg # 0)]_vars
  <2>1. ASSUME Inv, NEW t \in Terminals, ~Beside(t, {"provision"})
        PROVE  /\ ClearState(t) => Live = {}
               /\ Verdict(t) => (Live # {} => my[t].ids # {}) /\ (sg # 0 => my[t].sg # 0)
    BY <2>1 DEF Inv, Knows, Beside, ClearState, Verdict
  <2>. QED  BY <2>1
<1>. QED  BY <1>1, InvInit, InvInductive, PTL DEF Spec, NothingLeftUnseen

-------------------------------------------------------------------------------
(* The types *)

\* Where a provision may still make a key pair, and where a security group.
KeyAt == {"key?", "delkey", "mkkey"}
GroupAt == KeyAt \cup {"pem", "write", "sg?", "mksg"}
ToMakeKey == {t \in Terminals : pc[t] \in KeyAt}
ToMakeGroup == {t \in Terminals : pc[t] \in GroupAt}

\* What is made is numbered by the commands that were started: two each, less
\* those that are still to come.
Room ==
  /\ IsFiniteSet(ToMakeKey) /\ IsFiniteSet(ToMakeGroup) /\ made \in Nat
  /\ made + Cardinality(ToMakeKey) + Cardinality(ToMakeGroup) <= 2 * nCommands

Has(here, locals) ==
  /\ here \in {"head", "get"} => locals.object # ""
  /\ here \in RunAt => locals.box \in Box

UploadAt == {"pack", "hash", "bucket?", "mkbucket", "upload"}

\* A command is at its own calls; a sync-down has its object, and a run its box.
Named ==
  \A t \in Terminals :
    /\ pc[t] \in ProvisionAt => my[t].command = "provision"
    /\ pc[t] \in TeardownAt => my[t].command = "teardown"
    /\ pc[t] \in RunAt => my[t].command = "run"
    /\ pc[t] \in UploadAt => my[t].command = "sync-up"
    /\ pc[t] # "idle" => my[t].command \in Command
    /\ Has(pc[t], my[t])

\* What the commands leave in AWS and on the laptop.
Things ==
  /\ box \in [Box -> [st : {"none", "pending", "running", "ending", "gone"},
                      key : Version, sg : Version]]
  /\ nBoxes \in 0..MaxBoxes /\ state \in 0..MaxBoxes
  /\ keyPair \in Version /\ sg \in Version /\ pem \in Version \cup {Empty}
  /\ staging \in Content /\ bucket \in BOOLEAN
  /\ object \in [{"payload", "result"} -> [data : Content, sha : Content]]
  /\ files \in [Box -> [payload : Content, result : Content]]

TypeInv == TypeOK /\ Named /\ Room

\* A local or two are set, within their types, or none.
Sets(t) ==
  \/ my' = my
  \/ \E v \in Version : my' = [my EXCEPT ![t].key = v] \/ my' = [my EXCEPT ![t].sg = v]
  \/ \E b \in Box : my' = [my EXCEPT ![t].box = b]
  \/ \E ids \in SUBSET Box : my' = [my EXCEPT ![t].ids = ids]
  \/ \E c \in Content : my' = [my EXCEPT ![t].data = c] \/ my' = [my EXCEPT ![t].sha = c]
  \/ \E c, d \in Content : my' = [my EXCEPT ![t] = [my[t] EXCEPT !.sha = c, !.headed = d]]
  \/ \E ok \in BOOLEAN : my' = [my EXCEPT ![t].ok = ok]

SameNames(r, l) == r.command = l.command /\ r.object = l.object /\ r.box \in {l.box} \cup Box

LEMMA SetTypes ==
  ASSUME my \in [Terminals -> Local], NEW t \in Terminals, Sets(t)
  PROVE  /\ my' \in [Terminals -> Local]
         /\ \A u \in Terminals : SameNames(my'[u], my[u])
         /\ \A u \in Terminals \ {t} : my'[u] = my[u]
<1>1. my[t] \in Local
  OBVIOUS
<1>2. ASSUME NEW r \in Local, my' = [my EXCEPT ![t] = r], SameNames(r, my[t])
      PROVE  /\ my' \in [Terminals -> Local]
             /\ \A u \in Terminals : SameNames(my'[u], my[u])
             /\ \A u \in Terminals \ {t} : my'[u] = my[u]
  BY <1>2 DEF SameNames
<1>3. CASE my' = my
  BY <1>3 DEF SameNames
<1>4. ASSUME NEW v \in Version, my' = [my EXCEPT ![t].key = v] \/ my' = [my EXCEPT ![t].sg = v]
      PROVE  \E r \in Local : my' = [my EXCEPT ![t] = r] /\ SameNames(r, my[t])
  <2>1. [my[t] EXCEPT !.key = v] \in Local /\ SameNames([my[t] EXCEPT !.key = v], my[t])
    BY <1>1 DEF Local, SameNames
  <2>2. [my[t] EXCEPT !.sg = v] \in Local /\ SameNames([my[t] EXCEPT !.sg = v], my[t])
    BY <1>1 DEF Local, SameNames
  <2>. QED  BY <1>4, <2>1, <2>2
<1>5. ASSUME NEW b \in Box, my' = [my EXCEPT ![t].box = b]
      PROVE  \E r \in Local : my' = [my EXCEPT ![t] = r] /\ SameNames(r, my[t])
  <2>0. b \in 0..MaxBoxes
    BY CloudAssumption DEF Box
  <2>1. [my[t] EXCEPT !.box = b] \in Local /\ SameNames([my[t] EXCEPT !.box = b], my[t])
    BY <1>1, <2>0 DEF Local, SameNames
  <2>. QED  BY <1>5, <2>1
<1>6. ASSUME NEW ids \in SUBSET Box, my' = [my EXCEPT ![t].ids = ids]
      PROVE  \E r \in Local : my' = [my EXCEPT ![t] = r] /\ SameNames(r, my[t])
  <2>1. [my[t] EXCEPT !.ids = ids] \in Local /\ SameNames([my[t] EXCEPT !.ids = ids], my[t])
    BY <1>1 DEF Local, SameNames
  <2>. QED  BY <1>6, <2>1
<1>7. ASSUME NEW c \in Content, my' = [my EXCEPT ![t].data = c] \/ my' = [my EXCEPT ![t].sha = c]
      PROVE  \E r \in Local : my' = [my EXCEPT ![t] = r] /\ SameNames(r, my[t])
  <2>1. [my[t] EXCEPT !.data = c] \in Local /\ SameNames([my[t] EXCEPT !.data = c], my[t])
    BY <1>1 DEF Local, SameNames
  <2>2. [my[t] EXCEPT !.sha = c] \in Local /\ SameNames([my[t] EXCEPT !.sha = c], my[t])
    BY <1>1 DEF Local, SameNames
  <2>. QED  BY <1>7, <2>1, <2>2
<1>8. ASSUME NEW ok \in BOOLEAN, my' = [my EXCEPT ![t].ok = ok]
      PROVE  \E r \in Local : my' = [my EXCEPT ![t] = r] /\ SameNames(r, my[t])
  <2>1. [my[t] EXCEPT !.ok = ok] \in Local /\ SameNames([my[t] EXCEPT !.ok = ok], my[t])
    BY <1>1 DEF Local, SameNames
  <2>. QED  BY <1>8, <2>1
<1>9. ASSUME NEW c \in Content, NEW d \in Content,
             my' = [my EXCEPT ![t] = [my[t] EXCEPT !.sha = c, !.headed = d]]
      PROVE  \E r \in Local : my' = [my EXCEPT ![t] = r] /\ SameNames(r, my[t])
  <2>1. /\ [my[t] EXCEPT !.sha = c, !.headed = d] \in Local
        /\ SameNames([my[t] EXCEPT !.sha = c, !.headed = d], my[t])
    BY <1>1 DEF Local, SameNames
  <2>. QED  BY <1>9, <2>1
<1>. QED  BY <1>2, <1>3, <1>4, <1>5, <1>6, <1>7, <1>8, <1>9 DEF Sets

\* The next call is one of the same command.
Follows(here, next) ==
  /\ next \in At
  /\ next \in ProvisionAt => here \in ProvisionAt
  /\ next \in TeardownAt => here \in TeardownAt
  /\ next \in RunAt => here \in RunAt
  /\ next \in UploadAt => here \in UploadAt
  /\ next \in KeyAt => here \in KeyAt
  /\ next \in GroupAt => here \in GroupAt
  /\ next \in {"head", "get"} => here \in {"head", "get"}

\* What the call made is what it came to make.
Makers(here, next) ==
  made' = made + 1 => (here \in KeyAt /\ next \notin KeyAt) \/ (here \in GroupAt /\ next \notin GroupAt)

LEMMA RoomLeft ==
  ASSUME TypeInv, NEW t \in Terminals, NEW next, pc' = [pc EXCEPT ![t] = next],
         Follows(pc[t], next), made' \in {made, made + 1}, Makers(pc[t], next), nCommands' = nCommands
  PROVE  Room'
<1>1. pc \in [Terminals -> At] /\ Room /\ nCommands \in Nat /\ made \in Nat
  BY DEF TypeInv, TypeOK, Room
<1>2. pc'[t] = next /\ \A u \in Terminals \ {t} : pc'[u] = pc[u]
  BY <1>1
<1>3. ToMakeKey' \subseteq ToMakeKey /\ ToMakeGroup' \subseteq ToMakeGroup
  BY <1>2 DEF ToMakeKey, ToMakeGroup, Follows
<1>4. /\ IsFiniteSet(ToMakeKey') /\ IsFiniteSet(ToMakeGroup')
      /\ Cardinality(ToMakeKey') \in Nat /\ Cardinality(ToMakeGroup') \in Nat
      /\ Cardinality(ToMakeKey) \in Nat /\ Cardinality(ToMakeGroup) \in Nat
      /\ Cardinality(ToMakeKey') <= Cardinality(ToMakeKey)
      /\ Cardinality(ToMakeGroup') <= Cardinality(ToMakeGroup)
  BY <1>1, <1>3, FS_Subset, FS_CardinalityType DEF Room
<1>5. CASE made' = made
  BY <1>1, <1>4, <1>5 DEF Room
<1>6. CASE made' = made + 1
  <2>1. CASE pc[t] \in KeyAt /\ next \notin KeyAt
    <3>1. t \in ToMakeKey /\ ToMakeKey' \subseteq ToMakeKey \ {t}
      BY <1>2, <1>3, <2>1 DEF ToMakeKey
    <3>2. Cardinality(ToMakeKey') <= Cardinality(ToMakeKey) - 1
      BY <1>1, <1>4, <3>1, FS_RemoveElement, FS_Subset DEF Room
    <3>. QED  BY <1>1, <1>4, <1>6, <3>2 DEF Room
  <2>2. CASE pc[t] \in GroupAt /\ next \notin GroupAt
    <3>1. t \in ToMakeGroup /\ ToMakeGroup' \subseteq ToMakeGroup \ {t}
      BY <1>2, <1>3, <2>2 DEF ToMakeGroup
    <3>2. Cardinality(ToMakeGroup') <= Cardinality(ToMakeGroup) - 1
      BY <1>1, <1>4, <3>1, FS_RemoveElement, FS_Subset DEF Room
    <3>. QED  BY <1>1, <1>4, <1>6, <3>2 DEF Room
  <2>. QED  BY <1>6, <2>1, <2>2 DEF Makers
<1>. QED  BY <1>5, <1>6

\* A step within a command.
LEMMA TypeMoves ==
  ASSUME TypeInv, NEW t \in Terminals, pc[t] # "idle", NEW next, pc' = [pc EXCEPT ![t] = next],
         Follows(pc[t], next), Sets(t), Things', made' \in {made, made + 1}, Makers(pc[t], next),
         beside' = beside, torn' \in BOOLEAN, mixed' \in BOOLEAN, nCommands' = nCommands, nFaults' \in 0..MaxFaults
  PROVE  TypeInv'
<1>1. Room'
  BY RoomLeft
<1>2. /\ my' \in [Terminals -> Local]
      /\ \A u \in Terminals : SameNames(my'[u], my[u])
  BY SetTypes DEF TypeInv, TypeOK
<1>3. pc' \in [Terminals -> At] /\ pc'[t] = next /\ \A u \in Terminals \ {t} : pc'[u] = pc[u]
  BY DEF TypeInv, TypeOK, Follows
<1>4. Named'
  BY <1>2, <1>3 DEF TypeInv, Named, Follows, Has, SameNames
<1>5. nCommands' \in 0..MaxCommands /\ beside' \in [Terminals -> SUBSET (Command \cup {"lost"})]
  BY DEF TypeInv, TypeOK
<1>6. made' \in Version
  <2>1. Cardinality(ToMakeKey') \in Nat /\ Cardinality(ToMakeGroup') \in Nat
    BY <1>1, FS_CardinalityType DEF Room
  <2>. QED  BY <1>1, <1>5, <2>1, CloudAssumption DEF Room, Version
<1>7. TypeOK'
  BY <1>2, <1>3, <1>5, <1>6 DEF Things, TypeOK
<1>. QED  BY <1>1, <1>4, <1>7 DEF TypeInv

LEMMA Bounds == MaxBoxes \in Nat /\ MaxCommands \in Nat /\ MaxFaults \in Nat
BY CloudAssumption

LEMMA ABox ==
  ASSUME NEW b \in 0..MaxBoxes, b # 0
  PROVE  b \in Box
BY Bounds DEF Box

LEMMA Nothing == 0 \in Version /\ 0 \in Content /\ NoObject \in [data : Content, sha : Content]
<1>1. 0 \in Version /\ 0 \in Content
  BY Bounds DEF Version, Content
<1>. QED  BY <1>1 DEF NoObject

\* A command starts: it has a key pair and a group to make at most.
LEMMA TypeStart ==
  ASSUME TypeInv, NEW t \in Terminals, NEW command \in Command, NEW first \in At, NEW locals \in Local,
         Start(t, command, first, locals),
         first \in ProvisionAt => command = "provision",
         first \in TeardownAt => command = "teardown",
         first \in RunAt => command = "run",
         first \in UploadAt => command = "sync-up",
         Has(first, locals)
  PROVE  TypeInv'
<1> DEFINE others == {u \in Terminals \ {t} : pc[u] # "idle"}
           own == [locals EXCEPT !.command = command]
<1>1. /\ nCommands' = nCommands + 1 /\ nCommands < MaxCommands
      /\ pc' = [pc EXCEPT ![t] = first]
      /\ my' = [my EXCEPT ![t] = own]
      /\ beside' = [u \in Terminals |->
                      IF u = t THEN {my[o].command : o \in others}
                      ELSE IF u \in others THEN beside[u] \cup {command} ELSE beside[u]]
      /\ UNCHANGED <<aws, store, laptop, torn, mixed, nFaults>>
  BY DEF Start
<1>2. TypeOK /\ Named /\ Room /\ made' = made
  BY <1>1 DEF TypeInv, aws
<1>3. own \in Local /\ own.command = command /\ own.object = locals.object /\ own.box = locals.box
  BY DEF Local
<1> HIDE DEF own
<1>4. /\ my' \in [Terminals -> Local] /\ my'[t].command = command
      /\ my'[t].object = locals.object /\ my'[t].box = locals.box
      /\ \A u \in Terminals \ {t} : my'[u] = my[u]
  BY <1>1, <1>2, <1>3 DEF TypeOK
<1>5. /\ pc' \in [Terminals -> At] /\ pc'[t] = first
      /\ \A u \in Terminals \ {t} : pc'[u] = pc[u]
  BY <1>1, <1>2 DEF TypeOK
<1>6. Named'
  BY <1>2, <1>4, <1>5 DEF Named, Has
<1>7. beside' \in [Terminals -> SUBSET (Command \cup {"lost"})]
  <2>1. \A u \in others : beside[u] \cup {command} \in SUBSET (Command \cup {"lost"})
    BY <1>2 DEF TypeOK
  <2>2. ASSUME NEW o \in others, my[o].command \notin Command PROVE FALSE
    BY <1>2, <2>2 DEF Named
  <2>. QED  BY <1>1, <1>2, <2>1, <2>2 DEF TypeOK
<1>8. Room'
  <2>1. ToMakeKey' \subseteq ToMakeKey \cup {t} /\ ToMakeGroup' \subseteq ToMakeGroup \cup {t}
    BY <1>5 DEF ToMakeKey, ToMakeGroup
  <2>2. ASSUME NEW S, NEW T, IsFiniteSet(S), T \subseteq S \cup {t}
        PROVE  IsFiniteSet(T) /\ Cardinality(T) \in Nat /\ Cardinality(T) <= Cardinality(S) + 1
    <3>1. /\ IsFiniteSet(S \cup {t}) /\ Cardinality(S) \in Nat
          /\ Cardinality(S \cup {t}) = Cardinality(S) \/ Cardinality(S \cup {t}) = Cardinality(S) + 1
      BY <2>2, FS_AddElement, FS_CardinalityType
    <3>2. IsFiniteSet(T) /\ Cardinality(T) \in Nat /\ Cardinality(T) <= Cardinality(S \cup {t})
      BY <2>2, <3>1, FS_Subset, FS_CardinalityType
    <3>. QED  BY <3>1, <3>2
  <2>3. /\ Cardinality(ToMakeKey) \in Nat /\ Cardinality(ToMakeGroup) \in Nat
    BY <1>2, FS_CardinalityType DEF Room
  <2>4. /\ IsFiniteSet(ToMakeKey') /\ Cardinality(ToMakeKey') \in Nat
        /\ Cardinality(ToMakeKey') <= Cardinality(ToMakeKey) + 1
    BY <1>2, <2>1, <2>2 DEF Room
  <2>5. /\ IsFiniteSet(ToMakeGroup') /\ Cardinality(ToMakeGroup') \in Nat
        /\ Cardinality(ToMakeGroup') <= Cardinality(ToMakeGroup) + 1
    BY <1>2, <2>1, <2>2 DEF Room
  <2>6. nCommands \in Nat
    <3>1. nCommands \in 0..MaxCommands
      BY <1>2 DEF TypeOK
    <3>. QED  BY <3>1, Bounds
  <2>. QED  BY <1>1, <1>2, <2>3, <2>4, <2>5, <2>6 DEF Room
<1>9. TypeOK'
  <2>1. nCommands' \in 0..MaxCommands
    <3>1. nCommands \in 0..MaxCommands
      BY <1>2 DEF TypeOK
    <3>. QED  BY <1>1, <3>1, Bounds
  <2>. QED  BY <1>1, <1>2, <1>4, <1>5, <1>7, <2>1 DEF TypeOK, aws, store, laptop
<1>. QED  BY <1>6, <1>8, <1>9 DEF TypeInv

LEMMA LocalsTyped == NoLocals \in Local
BY CloudAssumption DEF NoLocals, Local, Version, Content

\* Where the commands are, spelled out.
LEMMA Calls ==
  /\ KeyAt \subseteq GroupAt /\ GroupAt \subseteq ProvisionAt
  /\ ProvisionAt \subseteq At /\ TeardownAt \subseteq At /\ RunAt \subseteq At
  /\ ProvisionAt \cap TeardownAt = {} /\ ProvisionAt \cap RunAt = {} /\ TeardownAt \cap RunAt = {}
BY DEF KeyAt, GroupAt, ProvisionAt, TeardownAt, RunAt, JobAt, At, GuardAt, TransferAt

\* A call that makes no key pair and no group.
LEMMA TypeGoes ==
  ASSUME TypeInv, NEW t \in Terminals, pc[t] # "idle", NEW next, To(t, next),
         Follows(pc[t], next), Sets(t), Things', made' = made
  PROVE  TypeInv'
<1>1. made' # made + 1 /\ made' \in {made, made + 1}
  BY DEF TypeInv, Room
<1>2. Makers(pc[t], next)
  BY <1>1 DEF Makers
<1>. QED  BY <1>1, <1>2, TypeMoves DEF To, bounds, TypeInv, TypeOK

\* A call that changes nothing but what the command knows.
LEMMA TypeReads ==
  ASSUME TypeInv, NEW t \in Terminals, pc[t] # "idle", NEW next, To(t, next),
         Follows(pc[t], next), Sets(t), UNCHANGED <<aws, store, laptop>>
  PROVE  TypeInv'
<1>1. Things' /\ made' = made
  BY DEF TypeInv, TypeOK, Things, aws, store, laptop
<1>. QED  BY <1>1, TypeGoes

LEMMA TypeProvision ==
  ASSUME TypeInv, NEW t \in Terminals, Provision(t)
  PROVE  TypeInv'
<1> USE DEF Sets, Follows, ProvisionAt, TeardownAt, RunAt, JobAt, UploadAt, KeyAt, GroupAt, At, GuardAt, TransferAt
<1>0. Things /\ made \in Version /\ made \in Nat
  BY DEF TypeInv, TypeOK, Things, Room
<1>1. CASE Start(t, "provision", "key?", NoLocals)
  BY <1>1, LocalsTyped, TypeStart DEF Command, Has
<1>2. CASE EnsureKey(t)
  <2>1. PICK next \in {"sg?", "delkey", "mkkey"} : To(t, next)
    BY <1>2 DEF EnsureKey
  <2>. QED  BY <1>2, <2>1, TypeReads DEF EnsureKey
<1>3. CASE DeleteKey(t)
  <2>1. Things'
    BY <1>0, <1>3, CloudAssumption DEF DeleteKey, Things, Version, store, laptop
  <2>. QED  BY <1>3, <2>1, TypeGoes DEF DeleteKey
<1>5. CASE OpenPem(t)
  <2>1. Things' /\ made' = made
    BY <1>0, <1>5 DEF OpenPem, Things, aws, store
  <2>. QED  BY <1>5, <2>1, TypeGoes DEF OpenPem
<1>6. CASE WritePem(t)
  <2>1. Things' /\ made' = made
    BY <1>0, <1>6, Nothing DEF WritePem, Things, aws, store, TypeInv, TypeOK, Local
  <2>2. Makers(pc[t], "sg?") /\ made' \in {made, made + 1}
    BY <1>0, <2>1 DEF Makers
  <2>. QED  BY <1>6, <2>1, <2>2, TypeMoves DEF WritePem, TypeInv, TypeOK
<1>7. CASE EnsureSg(t)
  <2>1. PICK next \in {"ingress", "mksg"} : To(t, next)
    BY <1>7 DEF EnsureSg
  <2>. QED  BY <1>0, <1>7, <2>1, TypeReads DEF EnsureSg, Things
<1>9. CASE DuplicateKey(t) \/ DuplicateSg(t) \/ LaunchRefused(t)
  BY <1>9, TypeReads DEF DuplicateKey, DuplicateSg, LaunchRefused, Refused
<1>10. CASE Ingress(t)
  <2>1. PICK next \in {"launch", "idle"} : To(t, next) /\ my' = my
    BY <1>10 DEF Ingress, Refused
  <2>. QED  BY <1>10, <2>1, TypeReads DEF Ingress
<1>12. CASE NoCapacity(t)
  BY <1>12, TypeReads DEF NoCapacity
<1>14. CASE Ready(t)
  <2>1. PICK next \in {"save", "idle"} : To(t, next)
    BY <1>14 DEF Ready
  <2>. QED  BY <1>14, <2>1, TypeReads DEF Ready
<1>15. CASE SaveState(t)
  <2>1. Things'
    BY <1>0, <1>15 DEF SaveState, Things, aws, store, TypeInv, TypeOK, Local
  <2>. QED  BY <1>15, <2>1, TypeGoes DEF SaveState, aws
<1>4. CASE CreateKey(t)
  <2>1. Room' /\ pc' = [pc EXCEPT ![t] = "pem"]
    BY <1>4, RoomLeft DEF CreateKey, To, bounds, Makers
  <2>2. made' \in Version
    <3>1. Cardinality(ToMakeKey') \in Nat /\ Cardinality(ToMakeGroup') \in Nat
      BY <2>1, FS_CardinalityType DEF Room
    <3>2. nCommands' \in 0..MaxCommands
      BY <1>4 DEF CreateKey, To, bounds, TypeInv, TypeOK
    <3>. QED  BY <2>1, <3>1, <3>2, CloudAssumption DEF Room, Version
  <2>3. Things'
    BY <1>0, <1>4, <2>2 DEF CreateKey, Things, store, laptop
  <2>. QED  BY <1>4, <2>1, <2>2, <2>3, TypeMoves DEF CreateKey, To, bounds, Makers, TypeInv, TypeOK
<1>8. CASE CreateSg(t)
  <2>1. Room' /\ pc' = [pc EXCEPT ![t] = "ingress"]
    BY <1>8, RoomLeft DEF CreateSg, To, bounds, Makers
  <2>2. made' \in Version
    <3>1. Cardinality(ToMakeKey') \in Nat /\ Cardinality(ToMakeGroup') \in Nat
      BY <2>1, FS_CardinalityType DEF Room
    <3>2. nCommands' \in 0..MaxCommands
      BY <1>8 DEF CreateSg, To, bounds, TypeInv, TypeOK
    <3>. QED  BY <2>1, <3>1, <3>2, CloudAssumption DEF Room, Version
  <2>3. Things'
    BY <1>0, <1>8, <2>2 DEF CreateSg, Things, store, laptop
  <2>. QED  BY <1>8, <2>1, <2>2, <2>3, TypeMoves DEF CreateSg, To, bounds, Makers, TypeInv, TypeOK
<1>11. CASE Launch(t)
  <2>1. nBoxes' \in Box /\ nBoxes' \in 0..MaxBoxes
    BY <1>0, <1>11, CloudAssumption DEF Launch, Things, Box
  <2>2. Things'
    BY <1>0, <1>11, <2>1 DEF Launch, Things, store, laptop
  <2>. QED  BY <1>11, <2>1, <2>2, TypeGoes DEF Launch
<1>. QED  BY <1>1, <1>2, <1>3, <1>4, <1>5, <1>6, <1>7, <1>8, <1>9, <1>10, <1>11, <1>12, <1>14, <1>15
          DEF Provision

LEMMA TypeTeardown ==
  ASSUME TypeInv, NEW t \in Terminals, Teardown(t) \/ Guard(t)
  PROVE  TypeInv'
<1> USE DEF Sets, Follows, ProvisionAt, TeardownAt, RunAt, JobAt, UploadAt, KeyAt, GroupAt, At, GuardAt, TransferAt
<1>0. Things /\ Live \subseteq Box
  BY DEF TypeInv, TypeOK, Things, Live
<1>1. CASE Start(t, "teardown", "list", NoLocals)
  BY <1>1, LocalsTyped, TypeStart DEF Command, Has
<1>2. CASE Terminate(t)
  <2>1. \A b \in Box : [box[b] EXCEPT !.st = "ending"] \in
          [st : {"none", "pending", "running", "ending", "gone"}, key : Version, sg : Version]
    BY <1>0 DEF Things
  <2>2. Things'
    BY <1>0, <1>2, <2>1 DEF Terminate, Things, store, laptop
  <2>. QED  BY <1>0, <1>2, <2>2, TypeGoes DEF Terminate
<1>3. CASE AllGone(t)
  BY <1>3, TypeReads DEF AllGone
<1>4. CASE DeleteSg(t)
  <2>1. Things'
    BY <1>0, <1>4, CloudAssumption DEF DeleteSg, Things, store, laptop, Version
  <2>. QED  BY <1>4, <2>1, TypeGoes DEF DeleteSg
<1>5. CASE DropKey(t)
  <2>1. PICK next \in {"clear", "rmbucket"} : To(t, next)
    BY <1>5 DEF DropKey
  <2>2. Things'
    BY <1>0, <1>5, CloudAssumption DEF DropKey, Things, store, laptop, Version
  <2>. QED  BY <1>5, <2>1, <2>2, TypeGoes DEF DropKey
<1>6. CASE RemoveBucket(t)
  <2>1. object' \in [{"payload", "result"} -> [data : Content, sha : Content]] /\ bucket' \in BOOLEAN
    BY <1>0, <1>6, Nothing DEF RemoveBucket, Things, store
  <2>2. Things' /\ made' = made
    BY <1>0, <1>6, <2>1 DEF RemoveBucket, Things, aws, laptop
  <2>. QED  BY <1>6, <2>2, TypeGoes DEF RemoveBucket
<1>7. CASE ClearState(t)
  <2>1. Things' /\ made' = made
    BY <1>0, <1>7, CloudAssumption DEF ClearState, Things, aws, store
  <2>. QED  BY <1>7, <2>1, TypeGoes DEF ClearState
<1>8. CASE Start(t, "guard", "guard", NoLocals)
  BY <1>8, LocalsTyped, TypeStart DEF Command, Has
<1>9. CASE GuardBoxes(t)
  BY <1>0, <1>9, TypeReads DEF GuardBoxes
<1>10. CASE GuardSgs(t)
  BY <1>0, <1>10, TypeReads DEF GuardSgs, Things
<1>11. CASE Verdict(t)
  BY <1>11, TypeReads DEF Verdict
<1>. QED  BY <1>1, <1>2, <1>3, <1>4, <1>5, <1>6, <1>7, <1>8, <1>9, <1>10, <1>11 DEF Teardown, Guard

LEMMA TypeTransfer ==
  ASSUME TypeInv, NEW t \in Terminals, Transfer(t) \/ Run(t)
  PROVE  TypeInv'
<1> USE DEF Sets, Follows, ProvisionAt, TeardownAt, RunAt, JobAt, UploadAt, KeyAt, GroupAt, At, GuardAt, TransferAt
<1>0. Things /\ my[t] \in Local
  BY DEF TypeInv, TypeOK, Things
<1>1. CASE Start(t, "sync-up", "pack", NoLocals)
  BY <1>1, LocalsTyped, TypeStart DEF Command, Has
<1>2. ASSUME NEW o \in DOMAIN object, Start(t, "sync-down", "head", [NoLocals EXCEPT !.object = o])
      PROVE  TypeInv'
  <2>1. [NoLocals EXCEPT !.object = o] \in Local
    BY <1>0, LocalsTyped DEF Things, Local
  <2>2. [NoLocals EXCEPT !.object = o].object # ""
    BY <1>0 DEF Things, NoLocals
  <2>3. Has("head", [NoLocals EXCEPT !.object = o])
    BY <2>2 DEF Has
  <2>. QED  BY <1>2, <2>1, <2>3, TypeStart DEF Command
<1>3. ASSUME NEW content \in Contents, Pack(t, content) PROVE TypeInv'
  <2>1. Things' /\ made' = made
    BY <1>0, <1>3 DEF Pack, Things, aws, store, Content
  <2>. QED  BY <1>3, <2>1, TypeGoes DEF Pack
<1>4. CASE Hash(t)
  BY <1>0, <1>4, TypeReads DEF Hash, Things
<1>5. CASE EnsureBucket(t)
  <2>1. PICK next \in {"upload", "mkbucket"} : To(t, next)
    BY <1>5 DEF EnsureBucket
  <2>. QED  BY <1>5, <2>1, TypeReads DEF EnsureBucket
<1>6. CASE CreateBucket(t)
  <2>1. Things' /\ made' = made
    BY <1>0, <1>6 DEF CreateBucket, Things, aws, laptop
  <2>. QED  BY <1>6, <2>1, TypeGoes DEF CreateBucket
<1>7. CASE Upload(t)
  <2>1. [data |-> staging, sha |-> my[t].sha] \in [data : Content, sha : Content]
    BY <1>0 DEF Things, Local
  <2>2. object' \in [{"payload", "result"} -> [data : Content, sha : Content]] /\ bucket' = bucket
    BY <1>0, <1>7, <2>1 DEF Upload, Things
  <2>3. Things' /\ made' = made
    BY <1>0, <1>7, <2>2 DEF Upload, Things, aws, laptop
  <2>4. Makers(pc[t], "idle") /\ made' \in {made, made + 1} /\ mixed' \in BOOLEAN
    BY <1>7, <2>3 DEF Makers, Upload, TypeInv, TypeOK, Room
  <2>. QED  BY <1>7, <2>3, <2>4, TypeMoves DEF Upload, TypeInv, TypeOK
<1>8. CASE Head(t)
  <2>1. PICK next \in {"idle", "get"} : To(t, next)
    BY <1>8 DEF Head
  <2>2. object[my[t].object].sha \in Content /\ object[my[t].object].data \in Content
    BY <1>0, <1>8 DEF Head, Things, TypeInv, Named, Has, Local
  <2>. QED  BY <1>8, <2>1, <2>2, TypeReads DEF Head
<1>9. CASE Get(t)
  <2>1. PICK next \in {"idle", "check"} : To(t, next)
    BY <1>9 DEF Get
  <2>2. object[my[t].object].data \in Content
    BY <1>0, <1>9 DEF Get, Things, TypeInv, Named, Has, Local
  <2>. QED  BY <1>9, <2>1, <2>2, TypeReads DEF Get
<1>10. CASE Check(t)
  <2>1. (my[t].sha \in {0, my[t].data}) \in BOOLEAN
    OBVIOUS
  <2>2. Sets(t)
    BY <1>10, <2>1 DEF Check
  <2>. QED  BY <1>10, <2>2, TypeReads DEF Check
<1>11. CASE StartRun(t)
  <2>1. PICK o \in {"", "result"} :
          Start(t, "run", "ssh", [NoLocals EXCEPT !.box = state, !.object = o])
    BY <1>11 DEF StartRun
  <2>2. [NoLocals EXCEPT !.box = state, !.object = o] \in Local
    BY <1>0, LocalsTyped DEF Things, Local
  <2>3. state \in Box
    <3>1. state \in 0..MaxBoxes /\ state # 0
      BY <1>0, <1>11 DEF StartRun, Things
    <3>. QED  BY <3>1, ABox
  <2>4. Has("ssh", [NoLocals EXCEPT !.box = state, !.object = o])
    BY <2>3 DEF Has, NoLocals
  <2>5. "run" \in Command
    BY DEF Command
  <2>. QED  BY <2>1, <2>2, <2>4, <2>5, TypeStart
<1>12. CASE Connect(t) \/ NoConnection(t) \/ Bootstrap(t) \/ JobFails(t) \/ Exit(t)
  BY <1>12, TypeReads DEF Connect, NoConnection, Bootstrap, JobFails, Exit, Refused
<1>13. CASE Fetch(t)
  <2>1. object["payload"].data \in Content
    BY <1>0 DEF Things
  <2>2. Things' /\ made' = made
    BY <1>0, <1>13, <2>1 DEF Fetch, Things, aws, laptop
  <2>. QED  BY <1>13, <2>1, <2>2, TypeGoes DEF Fetch
<1>14. CASE Compute(t)
  <2>1. my[t].box \in Box
    BY <1>14 DEF Compute, TypeInv, Named, Has
  <2>2. files[my[t].box].payload \in Content
    BY <1>0, <2>1 DEF Things
  <2>3. Things' /\ made' = made
    BY <1>0, <1>14, <2>2 DEF Compute, Things, aws, laptop
  <2>. QED  BY <1>14, <2>3, TypeGoes DEF Compute
<1>15. CASE Digest(t)
  <2>1. my[t].box \in Box
    BY <1>15 DEF Digest, TypeInv, Named, Has
  <2>2. files[my[t].box].result \in Content
    BY <1>0, <2>1 DEF Things
  <2>. QED  BY <1>15, <2>2, TypeReads DEF Digest
<1>16. CASE Store(t)
  <2>1. my[t].box \in Box
    BY <1>16 DEF Store, TypeInv, Named, Has
  <2>2. [data |-> files[my[t].box].result, sha |-> my[t].sha] \in [data : Content, sha : Content]
    BY <1>0, <2>1 DEF Things, Local
  <2>3. object' \in [{"payload", "result"} -> [data : Content, sha : Content]] /\ bucket' = bucket
    BY <1>0, <1>16, <2>2 DEF Store, Things
  <2>4. Things' /\ made' = made
    BY <1>0, <1>16, <2>3 DEF Store, Things, aws, laptop
  <2>5. Makers(pc[t], "exit") /\ made' \in {made, made + 1} /\ mixed' \in BOOLEAN
    BY <1>16, <2>4 DEF Makers, Store, TypeInv, TypeOK, Room
  <2>. QED  BY <1>16, <2>4, <2>5, TypeMoves DEF Store, TypeInv, TypeOK
<1>. QED  BY <1>1, <1>2, <1>3, <1>4, <1>5, <1>6, <1>7, <1>8, <1>9, <1>10, <1>11, <1>12, <1>13, <1>14,
             <1>15, <1>16 DEF Transfer, Run, Job

LEMMA TypeCut ==
  ASSUME TypeInv, NEW t \in Terminals, Cut(t)
  PROVE  TypeInv'
<1>1. Things' /\ made' = made /\ nFaults' \in 0..MaxFaults /\ torn' \in BOOLEAN
  BY CloudAssumption DEF Cut, TypeInv, TypeOK, Things, aws, store, laptop
<1>2. Follows(pc[t], "idle") /\ Sets(t)
  BY DEF Cut, Follows, Sets, ProvisionAt, TeardownAt, RunAt, JobAt, UploadAt, KeyAt, GroupAt, At
<1>3. Makers(pc[t], "idle")
  BY <1>1 DEF Makers, TypeInv, Room
<1>. QED  BY <1>1, <1>2, <1>3, TypeMoves DEF Cut, TypeInv, TypeOK

LEMMA TypeItself ==
  ASSUME TypeInv, \/ \E b \in Box : Boots(b) \/ Ends(b) \/ Reclaimed(b)
                  \/ LosePem \/ \E content \in Contents : HandPut(content)
  PROVE  TypeInv'
<1>1. ASSUME UNCHANGED <<pc, my, made, nCommands>>, TypeOK' PROVE TypeInv'
  BY <1>1 DEF TypeInv, Named, Room, ToMakeKey, ToMakeGroup
<1>2. ASSUME NEW b \in Box, Boots(b) \/ Ends(b) \/ Reclaimed(b) PROVE TypeInv'
  <2>1. PICK st \in {"running", "gone", "ending"} : Becomes(b, st)
    BY <1>2 DEF Boots, Ends, Reclaimed
  <2>2. nFaults' \in 0..MaxFaults
    BY <1>2, CloudAssumption DEF Boots, Ends, Reclaimed, Fault, TypeInv, TypeOK
  <2>3. TypeOK'
    BY <2>1, <2>2 DEF Becomes, TypeInv, TypeOK, store, laptop
  <2>. QED  BY <1>1, <2>1, <2>3 DEF Becomes
<1>3. CASE LosePem
  <2>1. nFaults' \in 0..MaxFaults
    BY <1>3, CloudAssumption DEF LosePem, Fault, TypeInv, TypeOK
  <2>2. TypeOK'
    BY <1>3, <2>1, CloudAssumption DEF LosePem, TypeInv, TypeOK, aws, store, Version
  <2>. QED  BY <1>1, <1>3, <2>2 DEF LosePem, aws
<1>4. ASSUME NEW content \in Contents, HandPut(content) PROVE TypeInv'
  <2>1. nFaults' \in 0..MaxFaults
    BY <1>4, CloudAssumption DEF HandPut, Fault, TypeInv, TypeOK
  <2>2. [data |-> content, sha |-> 0] \in [data : Content, sha : Content]
    BY Nothing DEF Content
  <2>3. TypeOK'
    BY <1>4, <2>1, <2>2 DEF HandPut, TypeInv, TypeOK, aws, laptop
  <2>. QED  BY <1>1, <1>4, <2>3 DEF HandPut, aws
<1>. QED  BY <1>2, <1>3, <1>4

LEMMA TypeInductive == TypeInv /\ [Next]_vars => TypeInv'
<1> SUFFICES ASSUME TypeInv, [Next]_vars PROVE TypeInv'
  OBVIOUS
<1>1. CASE UNCHANGED vars
  BY <1>1 DEF vars, aws, store, laptop, bounds, TypeInv, TypeOK, Named, Room, ToMakeKey, ToMakeGroup
<1>. QED  BY <1>1, TypeProvision, TypeTeardown, TypeTransfer, TypeCut, TypeItself DEF Next

LEMMA TypeInit == Init => TypeInv
<1> SUFFICES ASSUME Init PROVE TypeInv
  OBVIOUS
<1>1. ToMakeKey = {} /\ ToMakeGroup = {}
  BY DEF Init, ToMakeKey, ToMakeGroup, KeyAt, GroupAt
<1>2. Room
  BY <1>1, FS_EmptySet DEF Init, Room
<1>3. TypeOK
  <2>1. \A b \in Box : [st |-> "none", key |-> 0, sg |-> 0] \in
          [st : {"none", "pending", "running", "ending", "gone"}, key : Version, sg : Version]
    BY Nothing
  <2>2. 0 \in 0..MaxBoxes /\ 0 \in 0..MaxCommands /\ 0 \in 0..MaxFaults
    BY Bounds
  <2>. QED  BY LocalsTyped, Nothing, <2>1, <2>2 DEF Init, TypeOK, At
<1>4. Named
  BY DEF Init, Named, Has, ProvisionAt, TeardownAt, RunAt, JobAt, UploadAt
<1>. QED  BY <1>2, <1>3, <1>4 DEF TypeInv

\* Every variable keeps its type: no command makes more than the key pair and the
\* group it may (provision.py), and no box more than there may be.
THEOREM Typing == Spec => []TypeOK
<1>1. TypeInv => TypeOK
  BY DEF TypeInv
<1>. QED  BY <1>1, TypeInit, TypeInductive, PTL DEF Spec

-------------------------------------------------------------------------------
(* The key a saved box opens to *)

Alone(t) == ~Beside(t, {"provision", "teardown", "lost"})

\* With no provision between making a key pair and having written its .pem, and no
\* .pem left over from one that was, the two belong together where there are both.
PemAt == {"pem", "write"}
Settled ==
  ~torn /\ (\A t \in Terminals : pc[t] \notin PemAt) /\ keyPair # 0 /\ pem # 0 => pem = keyPair

\* How far a provision on its own has come: the key pair is the one it made, then
\* the .pem is its half, then the box opens to that.
AtRegion == {"sg?", "mksg", "ingress", "launch", "ondemand"}
AtBox == {"wait", "save"}
Kept(t) ==
  Alone(t) =>
    /\ pc[t] \in PemAt => keyPair = my[t].key
    /\ pc[t] = "write" => pem # 0
    /\ ~torn /\ pc[t] \in AtRegion => pem = keyPair
    /\ pc[t] \in AtBox => my[t].box \in 1..nBoxes
    /\ ~torn /\ pc[t] \in AtBox => pem = box[my[t].box].key

Opens == Settled /\ \A t \in Terminals : Kept(t)

\* Nothing the invariant speaks of is changed.
SameKeys ==
  /\ UNCHANGED <<keyPair, pem, torn, nBoxes>>
  /\ \A b \in Box : box'[b].key = box[b].key

\* The command of t goes on, and no other does.
Alters(t, next) ==
  /\ pc[t] # "idle" /\ pc' = [pc EXCEPT ![t] = next] /\ beside' = beside
  /\ \A u \in Terminals \ {t} : my'[u] = my[u]

LEMMA AltersPc ==
  ASSUME TypeInv, NEW t \in Terminals, NEW next, Alters(t, next)
  PROVE  pc'[t] = next /\ \A u \in Terminals \ {t} : pc'[u] = pc[u]
BY DEF TypeInv, TypeOK, Alters

\* A provision or a teardown at work is known to all that run beside it.
LEMMA NotAlone ==
  ASSUME Inv, TypeInv, NEW t \in Terminals, NEW u \in Terminals, t # u,
         pc[t] \in ProvisionAt \cup TeardownAt, pc[u] # "idle"
  PROVE  ~Alone(u)
<1>1. pc[t] # "idle"
  BY DEF ProvisionAt, TeardownAt
<1>2. my[t].command \in beside[u]
  BY <1>1 DEF Inv, Aware
<1>3. my[t].command \in {"provision", "teardown"}
  BY DEF TypeInv, Named
<1>. QED  BY <1>2, <1>3 DEF Alone, Beside

LEMMA SameKept ==
  ASSUME TypeInv, NEW u \in Terminals, Kept(u), SameKeys, pc'[u] = pc[u], my'[u] = my[u],
         beside[u] \subseteq beside'[u]
  PROVE  Kept(u)'
<1>1. Alone(u)' => Alone(u)
  BY DEF Alone, Beside
<1>2. my[u].box \in 1..nBoxes => my[u].box \in Box
  <2>1. nBoxes \in 0..MaxBoxes
    BY DEF TypeInv, TypeOK
  <2>. QED  BY <2>1, Bounds DEF Box
<1>. QED  BY <1>1, <1>2 DEF Kept, SameKeys

LEMMA OthersKept ==
  ASSUME Inv, TypeInv, Opens, NEW t \in Terminals, NEW next, Alters(t, next),
         pc[t] \in ProvisionAt \cup TeardownAt \/ SameKeys,
         Settled', Kept(t)'
  PROVE  Opens'
<1>1. ASSUME NEW u \in Terminals \ {t} PROVE Kept(u)'
  <2>1. pc'[u] = pc[u] /\ my'[u] = my[u] /\ beside' = beside
    BY AltersPc DEF Alters
  <2>2. CASE pc[u] = "idle"
    BY <2>1, <2>2 DEF Kept, AtRegion, AtBox, PemAt
  <2>3. CASE SameKeys
    BY <2>1, <2>3, SameKept DEF Opens
  <2>4. CASE pc[t] \in ProvisionAt \cup TeardownAt /\ pc[u] # "idle"
    <3>1. ~Alone(u)'
      BY <2>1, <2>4, NotAlone DEF Alone, Beside
    <3>. QED  BY <3>1 DEF Kept
  <2>. QED  BY <2>2, <2>3, <2>4
<1>. QED  BY <1>1 DEF Opens

LEMMA SettledStays ==
  ASSUME TypeInv, Settled, NEW t \in Terminals, NEW next, Alters(t, next), pc[t] \notin PemAt,
         UNCHANGED <<keyPair, pem, torn>>
  PROVE  Settled'
BY AltersPc DEF Settled

\* A step that leaves the keys alone, of a command with nothing to lose.
LEMMA OpensPlain ==
  ASSUME Inv, TypeInv, Opens, NEW t \in Terminals, NEW next, Alters(t, next), pc[t] \notin PemAt,
         SameKeys, next \notin AtRegion \cup AtBox \cup PemAt
  PROVE  Opens'
<1>1. Settled'
  BY SettledStays DEF SameKeys, Opens
<1>2. Kept(t)'
  BY AltersPc DEF Kept, PemAt
<1>. QED  BY <1>1, <1>2, OthersKept

\* A provision on its own goes on with its region or its box.
LEMMA OpensOn ==
  ASSUME Inv, TypeInv, Opens, NEW t \in Terminals, NEW next, Alters(t, next), SameKeys,
         \/ pc[t] \in AtRegion /\ next \in AtRegion
         \/ pc[t] \in AtBox /\ next \in AtBox /\ my'[t] = my[t]
  PROVE  Opens'
<1> USE DEF AtRegion, AtBox, PemAt
<1>1. pc'[t] = next /\ pc[t] \notin PemAt /\ Kept(t)
  BY AltersPc DEF Opens
<1>2. Settled'
  BY <1>1, SettledStays DEF SameKeys, Opens
<1>3. Kept(t)'
  <2>1. CASE pc[t] \in AtRegion /\ next \in AtRegion
    BY <1>1, <2>1 DEF Kept, SameKeys, Alters, Alone, Beside
  <2>2. CASE pc[t] \in AtBox /\ next \in AtBox /\ my'[t] = my[t]
    <3>1. nBoxes \in 0..MaxBoxes
      BY DEF TypeInv, TypeOK
    <3>2. my[t].box \in 1..nBoxes => my[t].box \in Box
      BY <3>1, Bounds DEF Box
    <3>. QED  BY <1>1, <2>2, <3>2 DEF Kept, SameKeys, Alters, Alone, Beside
  <2>. QED  BY <2>1, <2>2
<1>. QED  BY <1>2, <1>3, OthersKept

LEMMA OpensStart ==
  ASSUME Inv, TypeInv, Opens, NEW t \in Terminals, NEW command, NEW first, NEW locals,
         Start(t, command, first, locals), first \notin AtRegion \cup AtBox \cup PemAt
  PROVE  Opens'
<1>1. /\ pc[t] = "idle" /\ pc'[t] = first /\ SameKeys
      /\ \A u \in Terminals \ {t} : pc'[u] = pc[u] /\ my'[u] = my[u] /\ beside[u] \subseteq beside'[u]
  BY DEF Start, TypeInv, TypeOK, SameKeys, aws, laptop
<1>2. Settled'
  BY <1>1 DEF Opens, Settled, SameKeys, PemAt
<1>3. \A u \in Terminals \ {t} : Kept(u)'
  BY <1>1, SameKept DEF Opens
<1>4. Kept(t)'
  BY <1>1 DEF Kept, PemAt
<1>. QED  BY <1>2, <1>3, <1>4 DEF Opens

LEMMA OpensProvision ==
  ASSUME Inv, TypeInv, Opens, NEW t \in Terminals, Provision(t)
  PROVE  Opens'
<1> USE DEF AtRegion, AtBox, PemAt, To, bounds, Alters
<1>0. Kept(t) /\ my[t] \in Local /\ my \in [Terminals -> Local] /\ pc \in [Terminals -> At]
  BY DEF Opens, TypeInv, TypeOK
<1>1. CASE Start(t, "provision", "key?", NoLocals)
  BY <1>1, OpensStart
<1>2. CASE EnsureKey(t)
  <2>1. SameKeys /\ pc[t] = "key?" /\ my' = my /\ beside' = beside
    BY <1>2 DEF EnsureKey, SameKeys, aws, laptop
  <2>2. CASE keyPair # 0 /\ pem # 0
    <3>1. Alters(t, "sg?")
      BY <1>2, <2>2 DEF EnsureKey
    <3>2. pc'[t] = "sg?" /\ Settled'
      BY <2>1, <3>1, AltersPc, SettledStays DEF SameKeys, Opens
    <3>3. ASSUME Alone(t), ~torn PROVE pem = keyPair
      <4>1. ASSUME NEW u \in Terminals, pc[u] \in PemAt PROVE FALSE
        BY <2>1, <3>3, <4>1, NotAlone DEF ProvisionAt
      <4>. QED  BY <2>2, <3>3, <4>1 DEF Opens, Settled
    <3>4. Kept(t)'
      BY <2>1, <3>2, <3>3 DEF Kept, SameKeys, Alone, Beside
    <3>. QED  BY <2>1, <3>1, <3>2, <3>4, OthersKept
  <2>3. CASE ~(keyPair # 0 /\ pem # 0)
    <3>1. PICK next \in {"delkey", "mkkey"} : Alters(t, next)
      BY <1>2, <2>3 DEF EnsureKey
    <3>. QED  BY <2>1, <3>1, OpensPlain
  <2>. QED  BY <2>2, <2>3
<1>3. CASE DeleteKey(t)
  <2>1. Alters(t, "mkkey") /\ keyPair' = 0 /\ pc[t] = "delkey"
    BY <1>3 DEF DeleteKey
  <2>2. Settled' /\ Kept(t)'
    BY <2>1, AltersPc DEF Settled, Kept
  <2>. QED  BY <2>1, <2>2, OthersKept DEF ProvisionAt
<1>4. CASE CreateKey(t)
  <2>1. Alters(t, "pem") /\ keyPair' = made' /\ pc[t] = "mkkey" /\ my'[t].key = made'
    BY <1>4, <1>0 DEF CreateKey, Local
  <2>2. Settled' /\ Kept(t)'
    BY <2>1, AltersPc DEF Settled, Kept
  <2>. QED  BY <2>1, <2>2, OthersKept DEF ProvisionAt
<1>5. CASE DuplicateKey(t) \/ DuplicateSg(t) \/ LaunchRefused(t)
  BY <1>5, OpensPlain DEF DuplicateKey, DuplicateSg, LaunchRefused, Refused, SameKeys, aws, laptop
<1>14. CASE OpenPem(t)
  <2>1. Alters(t, "write") /\ pem' = Empty /\ keyPair' = keyPair /\ pc[t] = "pem" /\ my' = my
    BY <1>14 DEF OpenPem, aws
  <2>2. Empty # 0
    BY CloudAssumption DEF Empty
  <2>3. Settled' /\ Kept(t)'
    BY <1>0, <2>1, <2>2, AltersPc DEF Settled, Kept, Alone, Beside
  <2>. QED  BY <2>1, <2>3, OthersKept DEF ProvisionAt
<1>6. CASE WritePem(t)
  <2>1. /\ Alters(t, "sg?") /\ pem' = (IF pem = 0 THEN 0 ELSE my[t].key) /\ keyPair' = keyPair
        /\ pc[t] = "write"
        /\ torn' = (my[t].key # keyPair)
    BY <1>6 DEF WritePem, aws
  <2>2. Settled' /\ Kept(t)'
    <3>1. pc'[t] = "sg?" /\ \A u \in Terminals \ {t} : pc'[u] = pc[u]
      BY <2>1, AltersPc
    <3>2. Settled'
      BY <2>1 DEF Settled
    <3>3. Kept(t)'
      BY <1>0, <2>1, <3>1 DEF Kept, Alone, Beside
    <3>. QED  BY <3>2, <3>3
  <2>. QED  BY <2>1, <2>2, OthersKept DEF ProvisionAt
<1>7. CASE EnsureSg(t)
  <2>1. PICK next \in {"ingress", "mksg"} : Alters(t, next)
    BY <1>0, <1>7 DEF EnsureSg
  <2>. QED  BY <1>0, <1>7, <2>1, OpensOn DEF EnsureSg, SameKeys, aws, laptop
<1>8. CASE CreateSg(t)
  <2>1. Alters(t, "ingress") /\ SameKeys /\ pc[t] = "mksg"
    BY <1>8 DEF CreateSg, SameKeys, laptop
  <2>. QED  BY <2>1, OpensOn
<1>9. CASE Ingress(t)
  <2>1. SameKeys /\ pc[t] = "ingress"
    BY <1>9 DEF Ingress, SameKeys, Refused, aws, laptop
  <2>2. PICK next \in {"launch", "idle"} : Alters(t, next)
    BY <1>9 DEF Ingress, Refused
  <2>. QED  BY <2>1, <2>2, OpensOn, OpensPlain
<1>10. CASE Launch(t)
  <2>1. /\ Alters(t, "wait") /\ pc[t] \in {"launch", "ondemand"}
        /\ UNCHANGED <<keyPair, pem, torn>> /\ nBoxes' = nBoxes + 1
        /\ my'[t].box = nBoxes'
    BY <1>10, <1>0 DEF Launch, Local, laptop
  <2>2. nBoxes' \in Box
    <3>1. nBoxes \in 0..MaxBoxes /\ nBoxes < MaxBoxes
      BY <1>10 DEF Launch, TypeInv, TypeOK
    <3>. QED  BY <2>1, <3>1, Bounds DEF Box
  <2>3. box'[nBoxes'].key = keyPair
    BY <1>10, <2>2 DEF Launch, TypeInv, TypeOK
  <2>4. my'[t].box \in 1..nBoxes'
    BY <2>1, <2>2, Bounds DEF Box
  <2>5. Settled' /\ pc'[t] = "wait"
    BY <2>1, AltersPc, SettledStays DEF Opens
  <2>6. Kept(t)'
    BY <1>0, <2>1, <2>3, <2>4, <2>5 DEF Kept, Alone, Beside
  <2>. QED  BY <2>1, <2>5, <2>6, OthersKept DEF ProvisionAt
<1>11. CASE NoCapacity(t)
  BY <1>11, OpensOn DEF NoCapacity, SameKeys, aws, laptop
<1>12. CASE Ready(t)
  <2>1. SameKeys /\ pc[t] = "wait" /\ my' = my
    BY <1>12 DEF Ready, SameKeys, aws, laptop
  <2>2. PICK next \in {"save", "idle"} : Alters(t, next)
    BY <1>12 DEF Ready
  <2>. QED  BY <2>1, <2>2, OpensOn, OpensPlain
<1>13. CASE SaveState(t)
  BY <1>13, OpensPlain DEF SaveState, SameKeys, aws
<1>. QED  BY <1>1, <1>2, <1>3, <1>4, <1>5, <1>6, <1>7, <1>8, <1>9, <1>10, <1>11, <1>12, <1>13,
             <1>14 DEF Provision

LEMMA OpensTeardown ==
  ASSUME Inv, TypeInv, Opens, NEW t \in Terminals, Teardown(t)
  PROVE  Opens'
<1> USE DEF AtRegion, AtBox, PemAt, To, bounds, Alters
<1>1. CASE Start(t, "teardown", "list", NoLocals)
  BY <1>1, OpensStart
<1>2. CASE Terminate(t)
  <2>1. SameKeys
    <3>1. \A b \in Box : [box[b] EXCEPT !.st = "ending"].key = box[b].key
      BY DEF TypeInv, TypeOK
    <3>. QED  BY <1>2, <3>1 DEF Terminate, SameKeys, laptop
  <2>2. Alters(t, "gone?") /\ pc[t] = "list"
    BY <1>2 DEF Terminate, TypeInv, TypeOK
  <2>. QED  BY <2>1, <2>2, OpensPlain
<1>3. CASE AllGone(t)
  BY <1>3, OpensPlain DEF AllGone, SameKeys, aws, laptop
<1>4. CASE DeleteSg(t)
  BY <1>4, OpensPlain DEF DeleteSg, SameKeys, laptop
<1>5. CASE DropKey(t)
  <2>1. PICK next \in {"clear", "rmbucket"} : Alters(t, next)
    BY <1>5 DEF DropKey
  <2>2. keyPair' \in {0, keyPair} /\ UNCHANGED <<pem, torn>> /\ pc[t] = "dropkey"
    BY <1>5 DEF DropKey, laptop
  <2>3. Settled' /\ Kept(t)'
    BY <2>1, <2>2, AltersPc DEF Opens, Settled, Kept
  <2>. QED  BY <2>1, <2>2, <2>3, OthersKept DEF TeardownAt
<1>6. CASE RemoveBucket(t)
  BY <1>6, OpensPlain DEF RemoveBucket, SameKeys, aws, laptop
<1>7. CASE ClearState(t)
  BY <1>7, OpensPlain DEF ClearState, SameKeys, aws
<1>. QED  BY <1>1, <1>2, <1>3, <1>4, <1>5, <1>6, <1>7 DEF Teardown

LEMMA OpensGuardOrTransfer ==
  ASSUME Inv, TypeInv, Opens, NEW t \in Terminals, Guard(t) \/ Transfer(t)
  PROVE  Opens'
<1> USE DEF AtRegion, AtBox, PemAt, To, bounds, Alters, SameKeys, aws, laptop
<1>0. my \in [Terminals -> Local]
  BY DEF TypeInv, TypeOK
<1>1. CASE Start(t, "guard", "guard", NoLocals) \/ Start(t, "sync-up", "pack", NoLocals)
  BY <1>1, OpensStart
<1>2. CASE GuardBoxes(t)
  BY <1>0, <1>2, OpensPlain DEF GuardBoxes
<1>3. CASE GuardSgs(t)
  BY <1>0, <1>3, OpensPlain DEF GuardSgs
<1>4. CASE Verdict(t)
  BY <1>4, OpensPlain DEF Verdict
<1>5. ASSUME NEW o \in DOMAIN object, Start(t, "sync-down", "head", [NoLocals EXCEPT !.object = o])
      PROVE  Opens'
  BY <1>5, OpensStart
<1>6. ASSUME NEW content \in Contents, Pack(t, content) PROVE Opens'
  BY <1>6, OpensPlain DEF Pack
<1>7. CASE Hash(t)
  BY <1>0, <1>7, OpensPlain DEF Hash
<1>8. CASE EnsureBucket(t)
  <2>1. PICK next \in {"upload", "mkbucket"} : Alters(t, next)
    BY <1>8 DEF EnsureBucket
  <2>. QED  BY <1>8, <2>1, OpensPlain DEF EnsureBucket
<1>9. CASE CreateBucket(t)
  BY <1>9, OpensPlain DEF CreateBucket
<1>10. CASE Upload(t)
  BY <1>10, OpensPlain DEF Upload
<1>11. CASE Head(t)
  <2>1. PICK next \in {"idle", "get"} : Alters(t, next)
    BY <1>0, <1>11 DEF Head
  <2>. QED  BY <1>0, <1>11, <2>1, OpensPlain DEF Head
<1>12. CASE Get(t)
  <2>1. PICK next \in {"idle", "check"} : Alters(t, next)
    BY <1>0, <1>12 DEF Get
  <2>. QED  BY <1>0, <1>12, <2>1, OpensPlain DEF Get
<1>13. CASE Check(t)
  BY <1>0, <1>13, OpensPlain DEF Check
<1>. QED  BY <1>1, <1>2, <1>3, <1>4, <1>5, <1>6, <1>7, <1>8, <1>9, <1>10, <1>11, <1>12, <1>13
          DEF Guard, Transfer

LEMMA OpensRun ==
  ASSUME Inv, TypeInv, Opens, NEW t \in Terminals, Run(t)
  PROVE  Opens'
<1> USE DEF AtRegion, AtBox, PemAt, To, bounds, Alters, SameKeys, aws, laptop
<1>0. my \in [Terminals -> Local]
  BY DEF TypeInv, TypeOK
<1>1. CASE StartRun(t)
  BY <1>1, OpensStart DEF StartRun
<1>2. CASE Connect(t)
  BY <1>2, OpensPlain DEF Connect
<1>3. CASE NoConnection(t)
  BY <1>3, OpensPlain DEF NoConnection, Refused
<1>4. CASE Bootstrap(t)
  BY <1>0, <1>4, OpensPlain DEF Bootstrap
<1>5. CASE Fetch(t)
  BY <1>0, <1>5, OpensPlain DEF Fetch
<1>6. CASE Compute(t)
  BY <1>6, OpensPlain DEF Compute
<1>7. CASE Digest(t)
  BY <1>0, <1>7, OpensPlain DEF Digest
<1>8. CASE Store(t)
  BY <1>0, <1>8, OpensPlain DEF Store
<1>9. CASE JobFails(t)
  BY <1>9, OpensPlain DEF JobFails, JobAt
<1>10. CASE Exit(t)
  BY <1>10, OpensPlain DEF Exit
<1>. QED  BY <1>1, <1>2, <1>3, <1>4, <1>5, <1>6, <1>7, <1>8, <1>9, <1>10 DEF Run, Job

\* A provision that ends before its .pem is written leaves no .pem, or a torn one.
LEMMA OpensCut ==
  ASSUME Inv, TypeInv, Opens, NEW t \in Terminals, Cut(t)
  PROVE  Opens'
<1>1. Alters(t, "idle") /\ UNCHANGED <<aws, laptop>> /\ torn' = (torn \/ (pc[t] \in PemAt /\ pem # 0))
  BY DEF Cut, Alters, PemAt
<1>2. Kept(t)'
  BY <1>1, AltersPc DEF Kept, AtRegion, AtBox, PemAt
<1>3. CASE pc[t] \in PemAt
  <2>1. Settled'
    BY <1>1, <1>3 DEF Settled, laptop
  <2>. QED  BY <1>1, <1>2, <1>3, <2>1, OthersKept DEF ProvisionAt, PemAt
<1>4. CASE pc[t] \notin PemAt
  <2>1. SameKeys
    BY <1>1, <1>4 DEF SameKeys, aws, laptop, TypeInv, TypeOK
  <2>. QED  BY <1>1, <1>4, <2>1, OpensPlain DEF AtRegion, AtBox, PemAt
<1>. QED  BY <1>3, <1>4

LEMMA OpensItself ==
  ASSUME Inv, TypeInv, Opens, \/ \E b \in Box : Boots(b) \/ Ends(b) \/ Reclaimed(b)
                              \/ LosePem \/ \E content \in Contents : HandPut(content)
  PROVE  Opens'
<1>1. ASSUME NEW b \in Box, Boots(b) \/ Ends(b) \/ Reclaimed(b) PROVE Opens'
  <2>1. PICK st : Becomes(b, st)
    BY <1>1 DEF Boots, Ends, Reclaimed
  <2>2. SameKeys /\ UNCHANGED <<pc, my, beside>>
    BY <2>1 DEF Becomes, SameKeys, laptop, TypeInv, TypeOK
  <2>3. Settled'
    BY <2>2 DEF Opens, Settled, SameKeys
  <2>4. \A u \in Terminals : Kept(u)'
    BY <2>2, SameKept DEF Opens
  <2>. QED  BY <2>3, <2>4 DEF Opens
<1>2. CASE LosePem
  <2>1. Settled'
    BY <1>2 DEF LosePem, Settled
  <2>2. ASSUME NEW u \in Terminals PROVE Kept(u)'
    <3>1. CASE pc[u] = "idle"
      BY <1>2, <3>1 DEF LosePem, Kept, AtRegion, AtBox, PemAt
    <3>2. CASE pc[u] # "idle"
      <4>1. ~Alone(u)'
        BY <1>2, <3>2 DEF LosePem, Alone, Beside
      <4>. QED  BY <4>1 DEF Kept
    <3>. QED  BY <3>1, <3>2
  <2>. QED  BY <2>1, <2>2 DEF Opens
<1>3. ASSUME NEW content \in Contents, HandPut(content) PROVE Opens'
  BY <1>3, SameKept DEF HandPut, Opens, Settled, SameKeys, aws, laptop
<1>. QED  BY <1>1, <1>2, <1>3

LEMMA OpensInductive == Inv /\ TypeInv /\ Opens /\ [Next]_vars => Opens'
<1> SUFFICES ASSUME Inv, TypeInv, Opens, [Next]_vars PROVE Opens'
  OBVIOUS
<1>1. CASE UNCHANGED vars
  BY <1>1, SameKept DEF vars, aws, laptop, bounds, Opens, Settled, SameKeys
<1>. QED  BY <1>1, OpensProvision, OpensTeardown, OpensGuardOrTransfer, OpensRun, OpensCut, OpensItself DEF Next

LEMMA OpensInit == Init => Opens
BY DEF Init, Opens, Settled, Kept, AtRegion, AtBox, PemAt

\* The box a provision on its own writes to .state.json (provision.py) opens to the
\* .pem on disk, however many boxes, key pairs and commands cut short came before.
THEOREM SavedOpens == Spec => SavedBoxOpens
<1>1. Opens /\ [Next]_vars =>
        [\A t \in Terminals :
           SaveState(t) /\ ~Beside(t, {"provision", "teardown", "lost"}) /\ ~torn
             => pem = box[my[t].box].key]_vars
  BY DEF Opens, Kept, Alone, AtBox, SaveState
<1>. QED  BY <1>1, InvInit, InvInductive, TypeInit, TypeInductive, OpensInit, OpensInductive, PTL
          DEF Spec, SavedBoxOpens

-------------------------------------------------------------------------------
(* What a run or a sync-down reports *)

\* The payload about to be uploaded is the one its digest was taken of.
Packed(t) ==
  pc[t] \in {"bucket?", "mkbucket", "upload"} /\ ~Beside(t, {"sync-up"}) => staging = my[t].sha

\* What lies in the bucket is what its digest says, where there is one.
Whole == ~mixed => \A o \in DOMAIN object : object[o].sha \in {0, object[o].data}

\* The digest a sync-down asked for was that of the archive that was there.
Asked(t) == pc[t] \in {"get", "check"} /\ ~mixed => my[t].sha \in {0, my[t].headed}

\* A job on its own has on its box what it fetched and made of it, and reports
\* success only once that is stored.
Stored(t) ==
  LET here == files[my[t].box] IN
  /\ pc[t] \in {"ssh"} \cup JobAt => ~my[t].ok
  /\ ~Beside(t, {"run"}) =>
       /\ pc[t] = "compute" => here.payload = my[t].data
       /\ pc[t] \in {"digest", "store"} => here.result = my[t].data
       /\ pc[t] = "store" => my[t].sha = my[t].data
  /\ pc[t] = "exit" /\ my[t].ok /\ my[t].object = "result" /\ ~Beside(t, {"run", "teardown"})
       => object["result"] = [data |-> my[t].data, sha |-> my[t].data]

Own(t) == Packed(t) /\ Asked(t) /\ Stored(t)
Reports == Whole /\ \A t \in Terminals : Own(t)

\* What a command beside t that changes a thing of its kind is known by.
LEMMA KnownBeside ==
  ASSUME Inv, TypeInv, NEW t \in Terminals, NEW u \in Terminals, t # u, pc[t] # "idle", pc[u] # "idle"
  PROVE  /\ pc[t] \in UploadAt => Beside(u, {"sync-up"})
         /\ pc[t] \in RunAt => Beside(u, {"run"})
         /\ pc[t] \in RunAt \cup TeardownAt => Beside(u, {"run", "teardown"})
<1>1. my[t].command \in beside[u]
  BY DEF Inv, Aware
<1>2. /\ pc[t] \in UploadAt => my[t].command = "sync-up"
      /\ pc[t] \in RunAt => my[t].command = "run"
      /\ pc[t] \in TeardownAt => my[t].command = "teardown"
  BY DEF TypeInv, Named
<1>. QED  BY <1>1, <1>2 DEF Beside

\* Only a sync-up changes the packed archive, a run what is on a box, and a run or
\* a teardown the result in the bucket.
LEMMA OthersOwn ==
  ASSUME Inv, TypeInv, Reports, NEW t \in Terminals, NEW next, Alters(t, next), mixed' \in {mixed, TRUE},
         pc[t] \in UploadAt \/ staging' = staging,
         pc[t] \in RunAt \/ files' = files,
         pc[t] \in RunAt \cup TeardownAt \/ object'["result"] = object["result"],
         Whole', Own(t)'
  PROVE  Reports'
<1>1. ASSUME NEW u \in Terminals \ {t} PROVE Own(u)'
  <2>1. pc'[u] = pc[u] /\ my'[u] = my[u] /\ beside' = beside /\ Own(u) /\ pc[t] # "idle"
    BY AltersPc DEF Alters, Reports
  <2>2. Packed(u)'
    <3>1. CASE pc[t] \in UploadAt
      BY <2>1, <3>1, KnownBeside DEF Packed, Beside
    <3>2. CASE staging' = staging
      BY <2>1, <3>2 DEF Own, Packed, Beside
    <3>. QED  BY <3>1, <3>2
  <2>3. Asked(u)'
    <3>1. mixed' = FALSE => mixed = FALSE
      BY DEF TypeInv, TypeOK
    <3>2. mixed' \in BOOLEAN /\ mixed \in BOOLEAN
      BY DEF TypeInv, TypeOK
    <3>. QED  BY <2>1, <3>1, <3>2 DEF Own, Asked
  <2>4. Stored(u)'
    <3>1. CASE pc[u] = "idle"
      BY <2>1, <3>1 DEF Stored, JobAt
    <3>2. CASE pc[u] # "idle" /\ pc[t] \in RunAt
      <4>1. Beside(u, {"run"}) /\ Beside(u, {"run", "teardown"})
        BY <2>1, <3>2, KnownBeside
      <4>. QED  BY <2>1, <4>1 DEF Own, Stored, Beside
    <3>3. CASE pc[u] # "idle" /\ files' = files /\ object'["result"] = object["result"]
      BY <2>1, <3>3 DEF Own, Stored, Beside
    <3>4. CASE pc[u] # "idle" /\ files' = files /\ pc[t] \in TeardownAt
      <4>1. Beside(u, {"run", "teardown"})
        BY <2>1, <3>4, KnownBeside
      <4>. QED  BY <2>1, <3>4, <4>1 DEF Own, Stored, Beside
    <3>. QED  BY <3>1, <3>2, <3>3, <3>4
  <2>. QED  BY <2>2, <2>3, <2>4 DEF Own
<1>. QED  BY <1>1 DEF Reports

\* A step that leaves the archives alone, of a command that has nothing to report.
LEMMA OwnPlain ==
  ASSUME Inv, TypeInv, Reports, NEW t \in Terminals, NEW next, Alters(t, next),
         next \notin RunAt \cup UploadAt \cup {"get", "check"},
         UNCHANGED <<object, files, staging, mixed>>
  PROVE  Reports'
<1>1. Whole'
  BY DEF Reports, Whole
<1>2. pc'[t] = next
  BY AltersPc
<1>3. Own(t)'
  BY <1>2 DEF Own, Packed, Asked, Stored, RunAt, JobAt, UploadAt
<1>. QED  BY <1>1, <1>3, OthersOwn

LEMMA OwnStart ==
  ASSUME Inv, TypeInv, Reports, NEW t \in Terminals, NEW command, NEW first, NEW locals \in Local,
         Start(t, command, first, locals), ~locals.ok,
         first \notin JobAt \cup {"bucket?", "mkbucket", "upload", "get", "check", "exit"}
  PROVE  Reports'
<1>1. /\ pc[t] = "idle" /\ pc'[t] = first /\ UNCHANGED <<object, files, staging, mixed>>
      /\ \A u \in Terminals \ {t} : pc'[u] = pc[u] /\ my'[u] = my[u] /\ beside[u] \subseteq beside'[u]
  BY DEF Start, TypeInv, TypeOK, store, laptop
<1>2. my'[t].ok = locals.ok
  BY DEF Start, TypeInv, TypeOK, Local
<1>3. Own(t)'
  BY <1>1, <1>2 DEF Own, Packed, Asked, Stored, JobAt
<1>4. ASSUME NEW u \in Terminals \ {t} PROVE Own(u)'
  <2>1. Own(u)
    BY DEF Reports
  <2>. QED  BY <1>1, <2>1 DEF Own, Packed, Asked, Stored, Beside
<1>5. Whole'
  BY <1>1 DEF Reports, Whole
<1>. QED  BY <1>3, <1>4, <1>5 DEF Reports

LEMMA NothingReported == NoLocals \in Local /\ ~NoLocals.ok
BY LocalsTyped DEF NoLocals

LEMMA ReportsProvision ==
  ASSUME Inv, TypeInv, Reports, NEW t \in Terminals, Provision(t)
  PROVE  Reports'
<1> USE DEF RunAt, JobAt, UploadAt, To, bounds, Alters, store, laptop
<1>0. my \in [Terminals -> Local]
  BY DEF TypeInv, TypeOK
<1>1. CASE Start(t, "provision", "key?", NoLocals)
  BY <1>1, NothingReported, OwnStart
<1>2. CASE EnsureKey(t)
  <2>1. PICK next \in {"sg?", "delkey", "mkkey"} : Alters(t, next)
    BY <1>2 DEF EnsureKey
  <2>. QED  BY <1>2, <2>1, OwnPlain DEF EnsureKey
<1>3. CASE DeleteKey(t)
  BY <1>3, OwnPlain DEF DeleteKey
<1>4. CASE CreateKey(t)
  BY <1>0, <1>4, OwnPlain DEF CreateKey
<1>5. CASE DuplicateKey(t) \/ DuplicateSg(t) \/ LaunchRefused(t)
  BY <1>5, OwnPlain DEF DuplicateKey, DuplicateSg, LaunchRefused, Refused
<1>6. CASE OpenPem(t) \/ WritePem(t)
  BY <1>6, OwnPlain DEF OpenPem, WritePem
<1>7. CASE EnsureSg(t)
  <2>1. PICK next \in {"ingress", "mksg"} : Alters(t, next)
    BY <1>0, <1>7 DEF EnsureSg
  <2>. QED  BY <1>7, <2>1, OwnPlain DEF EnsureSg
<1>8. CASE CreateSg(t)
  BY <1>0, <1>8, OwnPlain DEF CreateSg
<1>9. CASE Ingress(t)
  <2>1. PICK next \in {"launch", "idle"} : Alters(t, next)
    BY <1>9 DEF Ingress, Refused
  <2>. QED  BY <1>9, <2>1, OwnPlain DEF Ingress, Refused
<1>10. CASE Launch(t)
  BY <1>0, <1>10, OwnPlain DEF Launch
<1>11. CASE NoCapacity(t)
  BY <1>11, OwnPlain DEF NoCapacity
<1>12. CASE Ready(t)
  <2>1. PICK next \in {"save", "idle"} : Alters(t, next)
    BY <1>12 DEF Ready
  <2>. QED  BY <1>12, <2>1, OwnPlain DEF Ready
<1>13. CASE SaveState(t)
  BY <1>13, OwnPlain DEF SaveState
<1>. QED  BY <1>1, <1>2, <1>3, <1>4, <1>5, <1>6, <1>7, <1>8, <1>9, <1>10, <1>11, <1>12, <1>13 DEF Provision

LEMMA ReportsTeardown ==
  ASSUME Inv, TypeInv, Reports, NEW t \in Terminals, Teardown(t) \/ Guard(t)
  PROVE  Reports'
<1> USE DEF RunAt, JobAt, UploadAt, To, bounds, Alters, store, laptop
<1>0. my \in [Terminals -> Local] /\ DOMAIN object = {"payload", "result"}
  BY DEF TypeInv, TypeOK
<1>1. CASE Start(t, "teardown", "list", NoLocals) \/ Start(t, "guard", "guard", NoLocals)
  BY <1>1, NothingReported, OwnStart
<1>2. CASE Terminate(t)
  BY <1>0, <1>2, OwnPlain DEF Terminate
<1>3. CASE AllGone(t)
  BY <1>3, OwnPlain DEF AllGone
<1>4. CASE DeleteSg(t)
  BY <1>4, OwnPlain DEF DeleteSg
<1>5. CASE DropKey(t)
  <2>1. PICK next \in {"clear", "rmbucket"} : Alters(t, next)
    BY <1>5 DEF DropKey
  <2>. QED  BY <1>5, <2>1, OwnPlain DEF DropKey
<1>6. CASE RemoveBucket(t)
  <2>1. Alters(t, "clear") /\ pc[t] = "rmbucket" /\ UNCHANGED <<files, staging, mixed>>
    BY <1>6 DEF RemoveBucket
  <2>2. Whole'
    <3>1. CASE object' = [o \in DOMAIN object |-> NoObject]
      BY <3>1 DEF Whole, NoObject
    <3>2. CASE object' = object
      BY <2>1, <3>2 DEF Reports, Whole
    <3>. QED  BY <1>6, <3>1, <3>2 DEF RemoveBucket
  <2>3. Own(t)'
    BY <2>1, AltersPc DEF Own, Packed, Asked, Stored
  <2>4. pc[t] \in TeardownAt
    BY <2>1 DEF TeardownAt
  <2>. QED  BY <2>1, <2>2, <2>3, <2>4, OthersOwn
<1>7. CASE ClearState(t)
  BY <1>7, OwnPlain DEF ClearState
<1>8. CASE GuardBoxes(t)
  BY <1>0, <1>8, OwnPlain DEF GuardBoxes
<1>9. CASE GuardSgs(t)
  BY <1>0, <1>9, OwnPlain DEF GuardSgs
<1>10. CASE Verdict(t)
  BY <1>10, OwnPlain DEF Verdict
<1>. QED  BY <1>1, <1>2, <1>3, <1>4, <1>5, <1>6, <1>7, <1>8, <1>9, <1>10 DEF Teardown, Guard

LEMMA ReportsTransfer ==
  ASSUME Inv, TypeInv, Reports, NEW t \in Terminals, Transfer(t)
  PROVE  Reports'
<1> USE DEF To, bounds, Alters, store, laptop
<1>0. /\ my \in [Terminals -> Local] /\ my[t] \in Local /\ DOMAIN object = {"payload", "result"}
      /\ mixed \in BOOLEAN /\ Whole /\ Own(t)
  BY DEF TypeInv, TypeOK, Reports
<1>1. CASE Start(t, "sync-up", "pack", NoLocals)
  BY <1>1, NothingReported, OwnStart DEF JobAt
<1>2. ASSUME NEW o \in DOMAIN object, Start(t, "sync-down", "head", [NoLocals EXCEPT !.object = o])
      PROVE  Reports'
  <2>1. [NoLocals EXCEPT !.object = o] \in Local
    BY <1>0, LocalsTyped DEF Local
  <2>2. ~[NoLocals EXCEPT !.object = o].ok
    BY DEF NoLocals
  <2>. QED  BY <1>2, <2>1, <2>2, OwnStart DEF JobAt
<1>3. ASSUME NEW content \in Contents, Pack(t, content) PROVE Reports'
  <2>1. Alters(t, "hash") /\ pc[t] = "pack" /\ UNCHANGED <<object, files, mixed>>
    BY <1>3 DEF Pack
  <2>2. Own(t)' /\ Whole'
    BY <1>0, <2>1, AltersPc DEF Own, Packed, Asked, Stored, JobAt, Whole
  <2>. QED  BY <2>1, <2>2, OthersOwn DEF UploadAt
<1>4. CASE Hash(t)
  <2>1. Alters(t, "bucket?") /\ pc[t] = "hash" /\ UNCHANGED <<object, files, staging, mixed>>
    BY <1>0, <1>4 DEF Hash
  <2>2. my'[t].sha = staging
    BY <1>0, <1>4 DEF Hash, Local
  <2>3. Own(t)' /\ Whole'
    BY <1>0, <2>1, <2>2, AltersPc DEF Own, Packed, Asked, Stored, JobAt, Whole
  <2>. QED  BY <2>1, <2>3, OthersOwn
<1>5. CASE EnsureBucket(t) \/ CreateBucket(t)
  <2>1. PICK next \in {"upload", "mkbucket"} : Alters(t, next)
    BY <1>5 DEF EnsureBucket, CreateBucket
  <2>2. pc[t] \in {"bucket?", "mkbucket"} /\ my' = my /\ UNCHANGED <<object, files, staging, mixed>>
    BY <1>5 DEF EnsureBucket, CreateBucket
  <2>3. Own(t)' /\ Whole'
    BY <1>0, <2>1, <2>2, AltersPc DEF Own, Packed, Asked, Stored, JobAt, Whole, Beside
  <2>. QED  BY <2>1, <2>2, <2>3, OthersOwn
<1>7. CASE Upload(t)
  <2>1. /\ Alters(t, "idle") /\ pc[t] = "upload" /\ UNCHANGED <<files, staging>>
        /\ mixed' = (mixed \/ Beside(t, {"sync-up"}))
    BY <1>7 DEF Upload
  <2>2. object'["result"] = object["result"] /\ DOMAIN object' = DOMAIN object
    BY <1>0, <1>7 DEF Upload
  <2>3. object'["payload"] \in {object["payload"], [data |-> staging, sha |-> my[t].sha]}
    BY <1>0, <1>7 DEF Upload
  <2>4. Whole'
    <3>1. ASSUME ~mixed' PROVE ~mixed /\ staging = my[t].sha
      BY <1>0, <2>1, <3>1 DEF Own, Packed
    <3>. QED  BY <1>0, <2>2, <2>3, <3>1 DEF Whole
  <2>5. Own(t)'
    BY <2>1, AltersPc DEF Own, Packed, Asked, Stored, JobAt
  <2>6. mixed' \in {mixed, TRUE}
    BY <1>0, <2>1
  <2>. QED  BY <2>1, <2>2, <2>4, <2>5, <2>6, OthersOwn
<1>8. CASE Head(t)
  <2>1. PICK next \in {"idle", "get"} : Alters(t, next)
    BY <1>0, <1>8 DEF Head
  <2>2. /\ my'[t].sha = object[my[t].object].sha /\ my'[t].headed = object[my[t].object].data
        /\ pc[t] = "head" /\ UNCHANGED <<object, files, staging, mixed>>
    BY <1>0, <1>8 DEF Head, Local
  <2>3. my[t].object \in DOMAIN object
    BY <1>0, <2>2 DEF TypeInv, Named, Has, Local
  <2>4. Asked(t)'
    BY <1>0, <2>2, <2>3 DEF Whole, Asked
  <2>5. Own(t)' /\ Whole'
    BY <1>0, <2>1, <2>2, <2>4, AltersPc DEF Own, Packed, Stored, JobAt, Whole
  <2>. QED  BY <2>1, <2>2, <2>5, OthersOwn
<1>9. CASE Get(t)
  <2>1. PICK next \in {"idle", "check"} : Alters(t, next)
    BY <1>0, <1>9 DEF Get
  <2>2. /\ my'[t].sha = my[t].sha /\ my'[t].headed = my[t].headed
        /\ pc[t] = "get" /\ UNCHANGED <<object, files, staging, mixed>>
    BY <1>0, <1>9 DEF Get, Local
  <2>3. Own(t)' /\ Whole'
    BY <1>0, <2>1, <2>2, AltersPc DEF Own, Packed, Asked, Stored, JobAt, Whole
  <2>. QED  BY <2>1, <2>2, <2>3, OthersOwn
<1>10. CASE Check(t)
  BY <1>0, <1>10, OwnPlain DEF Check, RunAt, JobAt, UploadAt
<1>. QED  BY <1>1, <1>2, <1>3, <1>4, <1>5, <1>7, <1>8, <1>9, <1>10 DEF Transfer

LEMMA ReportsRun ==
  ASSUME Inv, TypeInv, Reports, NEW t \in Terminals, Run(t)
  PROVE  Reports'
<1> USE DEF To, bounds, Alters, store, laptop
<1>0. /\ my \in [Terminals -> Local] /\ my[t] \in Local /\ DOMAIN object = {"payload", "result"}
      /\ files \in [Box -> [payload : Content, result : Content]] /\ mixed \in BOOLEAN
      /\ Whole /\ Own(t)
  BY DEF TypeInv, TypeOK, Reports
<1>1. CASE StartRun(t)
  <2>1. PICK o \in {"", "result"} :
          Start(t, "run", "ssh", [NoLocals EXCEPT !.box = state, !.object = o])
    BY <1>1 DEF StartRun
  <2>2. state \in 0..MaxBoxes
    BY DEF TypeInv, TypeOK
  <2>3. [NoLocals EXCEPT !.box = state, !.object = o] \in Local
        /\ ~[NoLocals EXCEPT !.box = state, !.object = o].ok
    BY <2>2, LocalsTyped DEF Local, NoLocals
  <2>. QED  BY <2>1, <2>3, OwnStart DEF JobAt
<1>2. CASE Connect(t)
  <2>1. Alters(t, "job") /\ pc[t] = "ssh" /\ my' = my /\ UNCHANGED <<object, files, staging, mixed>>
    BY <1>2 DEF Connect
  <2>2. Own(t)' /\ Whole'
    BY <1>0, <2>1, AltersPc DEF Own, Packed, Asked, Stored, Whole
  <2>. QED  BY <2>1, <2>2, OthersOwn
<1>3. CASE NoConnection(t)
  BY <1>3, OwnPlain DEF NoConnection, Refused, RunAt, JobAt, UploadAt
<1>4. CASE Bootstrap(t)
  <2>1. /\ Alters(t, "exit") /\ pc[t] = "job" /\ my[t].object = ""
        /\ UNCHANGED <<object, files, staging, mixed>>
    BY <1>0, <1>4 DEF Bootstrap
  <2>2. my'[t].object = ""
    BY <1>0, <1>4 DEF Bootstrap, Local
  <2>3. pc'[t] = "exit"
    BY <2>1, AltersPc
  <2>4. Stored(t)'
    BY <2>2, <2>3 DEF Stored, JobAt
  <2>5. Own(t)' /\ Whole'
    BY <1>0, <2>1, <2>3, <2>4 DEF Own, Packed, Asked, Whole
  <2>. QED  BY <2>1, <2>5, OthersOwn
<1>5. CASE Fetch(t)
  <2>1. Alters(t, "compute") /\ pc[t] = "job" /\ UNCHANGED <<object, staging, mixed>>
    BY <1>0, <1>5 DEF Fetch
  <2>2. my[t].box \in Box
    BY <2>1 DEF TypeInv, Named, Has, RunAt, JobAt
  <2>3. /\ my'[t].data = object["payload"].data /\ my'[t].box = my[t].box /\ my'[t].ok = my[t].ok
        /\ files'[my[t].box].payload = object["payload"].data
    BY <1>0, <1>5, <2>2 DEF Fetch, Local
  <2>4. Own(t)' /\ Whole'
    BY <1>0, <2>1, <2>3, AltersPc DEF Own, Packed, Asked, Stored, JobAt, Whole
  <2>. QED  BY <2>1, <2>4, OthersOwn DEF RunAt, JobAt
<1>6. CASE Compute(t)
  <2>1. Alters(t, "digest") /\ pc[t] = "compute" /\ my' = my /\ UNCHANGED <<object, staging, mixed>>
    BY <1>6 DEF Compute
  <2>2. my[t].box \in Box
    BY <2>1 DEF TypeInv, Named, Has, RunAt, JobAt
  <2>3. files'[my[t].box].result = files[my[t].box].payload
    BY <1>0, <1>6, <2>2 DEF Compute
  <2>4. pc'[t] = "digest" /\ beside' = beside
    BY <2>1, AltersPc
  <2>5. Stored(t)'
    BY <1>0, <2>1, <2>3, <2>4 DEF Own, Stored, JobAt, Beside
  <2>6. Own(t)' /\ Whole'
    BY <1>0, <2>1, <2>4, <2>5 DEF Own, Packed, Asked, Whole
  <2>. QED  BY <2>1, <2>6, OthersOwn DEF RunAt, JobAt
<1>7. CASE Digest(t)
  <2>1. Alters(t, "store") /\ pc[t] = "digest" /\ UNCHANGED <<object, files, staging, mixed>>
    BY <1>0, <1>7 DEF Digest
  <2>2. /\ my'[t].sha = files[my[t].box].result /\ my'[t].data = my[t].data
        /\ my'[t].box = my[t].box /\ my'[t].ok = my[t].ok
    BY <1>0, <1>7 DEF Digest, Local
  <2>3. Own(t)' /\ Whole'
    BY <1>0, <2>1, <2>2, AltersPc DEF Own, Packed, Asked, Stored, JobAt, Whole, Beside
  <2>. QED  BY <2>1, <2>3, OthersOwn
<1>8. CASE Store(t)
  <2>1. /\ Alters(t, "exit") /\ pc[t] = "store" /\ UNCHANGED <<files, staging>>
        /\ mixed' = (mixed \/ Beside(t, {"run"}))
    BY <1>0, <1>8 DEF Store
  <2>2. /\ DOMAIN object' = DOMAIN object /\ object'["payload"] = object["payload"]
        /\ object'["result"] = [data |-> files[my[t].box].result, sha |-> my[t].sha]
    BY <1>0, <1>8 DEF Store
  <2>3. my'[t].data = my[t].data
    BY <1>0, <1>8 DEF Store, Local
  <2>4. ~Beside(t, {"run"}) => files[my[t].box].result = my[t].data /\ my[t].sha = my[t].data
    BY <1>0, <2>1 DEF Own, Stored
  <2>5. Whole'
    <3>1. ASSUME ~mixed' PROVE ~mixed /\ files[my[t].box].result = my[t].sha
      BY <1>0, <2>1, <2>4, <3>1
    <3>. QED  BY <1>0, <2>2, <3>1 DEF Whole
  <2>6. beside' = beside /\ pc'[t] = "exit"
    BY <2>1, AltersPc
  <2>7. Own(t)'
    BY <2>2, <2>3, <2>4, <2>6 DEF Own, Packed, Asked, Stored, JobAt, Beside
  <2>8. mixed' \in {mixed, TRUE}
    BY <1>0, <2>1
  <2>. QED  BY <2>1, <2>5, <2>7, <2>8, OthersOwn DEF RunAt, JobAt
<1>9. CASE JobFails(t)
  <2>1. /\ Alters(t, "exit") /\ pc[t] \in JobAt /\ my' = my
        /\ UNCHANGED <<object, files, staging, mixed>>
    BY <1>9 DEF JobFails, JobAt
  <2>2. pc'[t] = "exit" /\ ~my'[t].ok
    BY <1>0, <2>1, AltersPc DEF Own, Stored
  <2>3. Stored(t)'
    BY <2>2 DEF Stored, JobAt
  <2>4. Own(t)' /\ Whole'
    BY <1>0, <2>1, <2>2, <2>3 DEF Own, Packed, Asked, Whole
  <2>. QED  BY <2>1, <2>4, OthersOwn
<1>10. CASE Exit(t)
  BY <1>10, OwnPlain DEF Exit, RunAt, JobAt, UploadAt
<1>. QED  BY <1>1, <1>2, <1>3, <1>4, <1>5, <1>6, <1>7, <1>8, <1>9, <1>10 DEF Run, Job

LEMMA ReportsItself ==
  ASSUME Inv, TypeInv, Reports,
         \/ \E b \in Box : Boots(b) \/ Ends(b) \/ Reclaimed(b)
         \/ LosePem \/ \E content \in Contents : HandPut(content)
  PROVE  Reports'
<1>1. /\ UNCHANGED <<pc, my, files, staging, mixed>> /\ object'["result"] = object["result"]
      /\ \A u \in Terminals : beside[u] \subseteq beside'[u]
  BY DEF Boots, Ends, Reclaimed, Becomes, LosePem, HandPut, store, laptop, TypeInv, TypeOK
<1>2. ASSUME NEW u \in Terminals PROVE Own(u)'
  <2>1. Own(u)
    BY DEF Reports
  <2>. QED  BY <1>1, <2>1 DEF Own, Packed, Asked, Stored, Beside
<1>3. object' = object \/ \E content : object' = [object EXCEPT !["payload"] = [data |-> content, sha |-> 0]]
  BY DEF Boots, Ends, Reclaimed, Becomes, LosePem, HandPut, store
<1>4. Whole'
  BY <1>1, <1>3 DEF Reports, Whole, TypeInv, TypeOK
<1>. QED  BY <1>2, <1>4 DEF Reports

LEMMA ReportsInductive == Inv /\ TypeInv /\ Reports /\ [Next]_vars => Reports'
<1> SUFFICES ASSUME Inv, TypeInv, Reports, [Next]_vars PROVE Reports'
  OBVIOUS
<1>1. CASE UNCHANGED vars
  BY <1>1 DEF vars, store, laptop, bounds, Reports, Whole, Own, Packed, Asked, Stored, Beside
<1>2. ASSUME NEW t \in Terminals, Cut(t) PROVE Reports'
  BY <1>2, OwnPlain DEF Cut, Alters, store, laptop, RunAt, JobAt, UploadAt
<1>. QED  BY <1>1, <1>2, ReportsProvision, ReportsTeardown, ReportsTransfer, ReportsRun, ReportsItself
          DEF Next

LEMMA ReportsInit == Init => Reports
BY DEF Init, Reports, Whole, NoObject, Own, Packed, Asked, Stored, JobAt

\* What a sync-down (transfer.py, download) accepts under a digest is the archive
\* that was in the bucket when it asked, unless one was once stored that another
\* command may have rewritten under its digest; a run (run.py, train.sh) that reports
\* success has left there the result of the payload it fetched, unless another run
\* or a teardown came beside it.
THEOREM Trusted == Spec => ResultsTrusted
<1>1. TypeInv /\ Reports /\ [Next]_vars =>
        [\A t \in Terminals :
           /\ Check(t) /\ my'[t].ok /\ my[t].sha # 0 /\ ~mixed => my[t].data = my[t].headed
           /\ Exit(t) /\ my[t].ok /\ my[t].object = "result" /\ ~Beside(t, {"run", "teardown"})
                => object["result"] = [data |-> my[t].data, sha |-> my[t].data]]_vars
  <2>1. ASSUME TypeInv, Reports, NEW t \in Terminals, Check(t), my'[t].ok, my[t].sha # 0, ~mixed
        PROVE  my[t].data = my[t].headed
    <3>1. my[t].sha \in {0, my[t].data}
      BY <2>1 DEF Check, TypeInv, TypeOK, Local
    <3>2. my[t].sha \in {0, my[t].headed}
      BY <2>1 DEF Check, Reports, Own, Asked
    <3>. QED  BY <2>1, <3>1, <3>2
  <2>2. ASSUME Reports, NEW t \in Terminals, Exit(t), my[t].ok, my[t].object = "result",
               ~Beside(t, {"run", "teardown"})
        PROVE  object["result"] = [data |-> my[t].data, sha |-> my[t].data]
    BY <2>2 DEF Reports, Own, Stored, Exit
  <2>. QED  BY <2>1, <2>2
<1>. QED  BY <1>1, InvInit, InvInductive, TypeInit, TypeInductive, ReportsInit, ReportsInductive, PTL
          DEF Spec, ResultsTrusted
===============================================================================
