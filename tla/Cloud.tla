--------------------------------- MODULE Cloud ---------------------------------
(***************************************************************************)
(* The rented GPU box (src/cloud): the commands of cloud/cli.py, each a    *)
(* row of calls to AWS, and what they leave there and on the laptop.       *)
(*                                                                         *)
(* Two terminals may run commands at once, and any command may end between *)
(* two of its calls: a ClientError, a waiter that gives up, Ctrl-C.  What  *)
(* is modelled is which box, key pair, security group, archive and state   *)
(* file there are and which belong together; not sizes, AMIs, addresses,   *)
(* nor the adapter infer.sh may fetch beside its payload.                  *)
(* AWS itself is external: a key pair has one name, an instance keeps the  *)
(* public key it was launched with, a security group in use stays.         *)
(***************************************************************************)
EXTENDS Naturals, FiniteSets

CONSTANTS
  Terminals,
  UseSpot,      \* use_spot of config.toml
  Contents,     \* bound: what a directory may hold when it is packed
  MaxBoxes,     \* bound: instances launched
  MaxCommands,  \* bound: commands started
  MaxFaults     \* bound: commands cut short, boxes reclaimed, keys lost

ASSUME CloudAssumption ==
  /\ UseSpot \in BOOLEAN
  /\ Contents \subseteq Nat \ {0}
  /\ {MaxBoxes, MaxCommands, MaxFaults} \subseteq Nat

VARIABLES
  \* AWS
  box,      \* the instances, in order of launch
  nBoxes,
  keyPair,  \* the key pair named key_name: which of those ever made, or 0
  sg,       \* the security group named sg_name, likewise
  made,     \* key pairs and security groups ever made
  bucket,   \* the run bucket exists
  object,   \* payload and result in the bucket: content, and the sha256 beside it, if any
  files,    \* a box's ~/cricket: the payload fetched and the result packed
  \* the laptop
  pem,      \* the private key at key_path, or 0
  state,    \* the box of .state.json, or 0
  staging,  \* the archive in cloud/_artifacts, or 0
  \* the terminals
  pc, my,   \* where the command is, and its local variables
  beside,   \* history: the commands that ran beside it, and "lost" if the .pem was
  torn,     \* history: a provision that died or was overtaken left a .pem not of the key pair
  mixed,    \* history: an archive was stored that another command may have rewritten
  nCommands, nFaults

aws == <<box, nBoxes, keyPair, sg, made>>
store == <<bucket, object, files>>
laptop == <<pem, state, staging>>
bounds == <<beside, torn, mixed, nCommands, nFaults>>
vars == <<aws, store, laptop, pc, my, bounds>>

Box == 1..MaxBoxes
\* A provision makes a key pair and a security group at most.
Version == 0..2 * MaxCommands
\* A .pem that is there and holds no key.
Empty == 2 * MaxCommands + 1
Content == {0} \cup Contents
NoObject == [data |-> 0, sha |-> 0]
Command == {"provision", "teardown", "guard", "sync-up", "sync-down", "run"}
Local == [command : Command \cup {""}, key : Version, sg : Version, box : 0..MaxBoxes,
          ids : SUBSET Box, object : {"", "payload", "result"}, data : Content, sha : Content,
          headed : Content, ok : BOOLEAN]
NoLocals == [command |-> "", key |-> 0, sg |-> 0, box |-> 0, ids |-> {},
             object |-> "", data |-> 0, sha |-> 0, headed |-> 0, ok |-> FALSE]

ProvisionAt == {"key?", "delkey", "mkkey", "pem", "write", "sg?", "mksg", "ingress",
                "launch", "ondemand", "wait", "save"}
TeardownAt == {"list", "gone?", "delsg", "dropkey", "rmbucket", "clear"}
GuardAt == {"guard", "guardsg", "verdict"}
TransferAt == {"pack", "hash", "bucket?", "mkbucket", "upload", "head", "get", "check"}
JobAt == {"job", "compute", "digest", "store"}
RunAt == {"ssh", "exit"} \cup JobAt
At == {"idle"} \cup ProvisionAt \cup TeardownAt \cup GuardAt \cup TransferAt \cup RunAt

TypeOK ==
  /\ box \in [Box -> [st : {"none", "pending", "running", "ending", "gone"},
                      key : Version, sg : Version]]
  /\ nBoxes \in 0..MaxBoxes /\ state \in 0..MaxBoxes
  /\ {keyPair, sg, made} \subseteq Version /\ pem \in Version \cup {Empty} /\ staging \in Content
  /\ bucket \in BOOLEAN
  /\ object \in [{"payload", "result"} -> [data : Content, sha : Content]]
  /\ files \in [Box -> [payload : Content, result : Content]]
  /\ pc \in [Terminals -> At] /\ my \in [Terminals -> Local]
  /\ beside \in [Terminals -> SUBSET (Command \cup {"lost"})] /\ {torn, mixed} \subseteq BOOLEAN
  /\ nCommands \in 0..MaxCommands /\ nFaults \in 0..MaxFaults

Init ==
  /\ box = [b \in Box |-> [st |-> "none", key |-> 0, sg |-> 0]] /\ nBoxes = 0
  /\ keyPair = 0 /\ sg = 0 /\ made = 0
  /\ bucket = FALSE /\ object = [o \in {"payload", "result"} |-> NoObject]
  /\ files = [b \in Box |-> [payload |-> 0, result |-> 0]]
  /\ pem = 0 /\ state = 0 /\ staging = 0
  /\ pc = [t \in Terminals |-> "idle"] /\ my = [t \in Terminals |-> NoLocals]
  /\ beside = [t \in Terminals |-> {}] /\ torn = FALSE /\ mixed = FALSE
  /\ nCommands = 0 /\ nFaults = 0

\* Those of the states describe_instances is asked for that a box of these
\* commands can be in ("ending" is AWS's shutting-down, which is not asked for).
Live == {b \in Box : box[b].st \in {"pending", "running"}}
\* Instances that still hold their security group.
Holding == {b \in Box : box[b].st \in {"pending", "running", "ending"}}

Beside(t, commands) == beside[t] \cap commands # {}

-------------------------------------------------------------------------------
(* Commands *)

\* A command is typed, its arguments read, and its locals set.
Start(t, command, first, locals) ==
  /\ pc[t] = "idle" /\ nCommands < MaxCommands
  /\ nCommands' = nCommands + 1
  /\ pc' = [pc EXCEPT ![t] = first]
  /\ my' = [my EXCEPT ![t] = [locals EXCEPT !.command = command]]
  /\ LET others == {u \in Terminals \ {t} : pc[u] # "idle"}
     IN  beside' = [u \in Terminals |->
                      IF u = t THEN {my[o].command : o \in others}
                      ELSE IF u \in others THEN beside[u] \cup {command} ELSE beside[u]]
  /\ UNCHANGED <<aws, store, laptop, torn, mixed, nFaults>>

\* The command goes on to its next call.
To(t, next) == pc' = [pc EXCEPT ![t] = next] /\ UNCHANGED bounds

\* The command ends between two calls.  (A job has a terminal of its own, run.py's
\* get_pty, and is hung up with it.)
Cut(t) ==
  /\ pc[t] # "idle" /\ nFaults < MaxFaults
  /\ nFaults' = nFaults + 1
  /\ torn' = (torn \/ (pc[t] \in {"pem", "write"} /\ pem # 0))
  /\ pc' = [pc EXCEPT ![t] = "idle"]
  /\ UNCHANGED <<aws, store, laptop, my, beside, mixed, nCommands>>

\* A call is refused, and the exception ends the command.
Refused(t) == To(t, "idle") /\ UNCHANGED <<aws, store, laptop, my>>

-------------------------------------------------------------------------------
(* provision *)

\* mutant: a key pair found is used, its .pem at hand or not
EnsureKeyTrusting(t) ==
  /\ pc[t] = "key?"
  /\ To(t, IF keyPair # 0 THEN "sg?" ELSE "mkkey")
  /\ UNCHANGED <<aws, store, laptop, my>>

\* _ensure_key: the key pair is kept if the .pem is here too, made anew if not.
EnsureKey(t) ==
  /\ pc[t] = "key?"
  /\ To(t, IF keyPair # 0 /\ pem # 0 THEN "sg?" ELSE IF keyPair # 0 THEN "delkey" ELSE "mkkey")
  /\ UNCHANGED <<aws, store, laptop, my>>

DeleteKey(t) ==
  /\ pc[t] = "delkey"
  /\ keyPair' = 0
  /\ To(t, "mkkey")
  /\ UNCHANGED <<box, nBoxes, sg, made, store, laptop, my>>

\* create_key_pair, refused if another terminal made it first
CreateKey(t) ==
  /\ pc[t] = "mkkey" /\ keyPair = 0
  /\ made' = made + 1 /\ keyPair' = made'
  /\ my' = [my EXCEPT ![t].key = made']
  /\ To(t, "pem")
  /\ UNCHANGED <<box, nBoxes, sg, store, laptop>>

DuplicateKey(t) == pc[t] = "mkkey" /\ keyPair # 0 /\ Refused(t)

\* open(key_path, "w"): the file is there, and empty.
OpenPem(t) ==
  /\ pc[t] = "pem"
  /\ pem' = Empty
  /\ To(t, "write")
  /\ UNCHANGED <<aws, store, state, staging, my>>

\* The key is written, or goes with a file that was lost meanwhile.
WritePem(t) ==
  /\ pc[t] = "write"
  /\ pem' = IF pem = 0 THEN 0 ELSE my[t].key
  /\ pc' = [pc EXCEPT ![t] = "sg?"] /\ torn' = (my[t].key # keyPair)
  /\ UNCHANGED <<aws, store, state, staging, my, beside, mixed, nCommands, nFaults>>

\* _ensure_sg: looked up by name, made if missing, opened to this address.
EnsureSg(t) ==
  /\ pc[t] = "sg?"
  /\ my' = [my EXCEPT ![t].sg = sg]
  /\ To(t, IF sg # 0 THEN "ingress" ELSE "mksg")
  /\ UNCHANGED <<aws, store, laptop>>

CreateSg(t) ==
  /\ pc[t] = "mksg" /\ sg = 0
  /\ made' = made + 1 /\ sg' = made'
  /\ my' = [my EXCEPT ![t].sg = made']
  /\ To(t, "ingress")
  /\ UNCHANGED <<box, nBoxes, keyPair, store, laptop>>

DuplicateSg(t) == pc[t] = "mksg" /\ sg # 0 /\ Refused(t)

Ingress(t) ==
  /\ pc[t] = "ingress"
  /\ IF my[t].sg = sg THEN To(t, "launch") /\ UNCHANGED my ELSE Refused(t)
  /\ UNCHANGED <<aws, store, laptop>>

\* run_instances: the key pair is given by name, the group by id.
Launch(t) ==
  /\ pc[t] \in {"launch", "ondemand"} /\ nBoxes < MaxBoxes
  /\ keyPair # 0 /\ my[t].sg = sg
  /\ nBoxes' = nBoxes + 1
  /\ box' = [box EXCEPT ![nBoxes'] = [st |-> "pending", key |-> keyPair, sg |-> sg]]
  /\ my' = [my EXCEPT ![t].box = nBoxes']
  /\ To(t, "wait")
  /\ UNCHANGED <<keyPair, sg, made, store, laptop>>

\* No spot capacity: once more, on demand.
NoCapacity(t) ==
  /\ pc[t] = "launch" /\ UseSpot
  /\ To(t, "ondemand")
  /\ UNCHANGED <<aws, store, laptop, my>>

LaunchRefused(t) ==
  /\ pc[t] \in {"launch", "ondemand"} /\ (keyPair = 0 \/ my[t].sg # sg)
  /\ Refused(t)

\* The two waiters and describe_instances; they fail on an instance that ends.
Ready(t) ==
  /\ pc[t] = "wait"
  /\ \/ box[my[t].box].st = "running" /\ To(t, "save")
     \/ box[my[t].box].st \in {"ending", "gone"} /\ To(t, "idle")
  /\ UNCHANGED <<aws, store, laptop, my>>

SaveState(t) ==
  /\ pc[t] = "save"
  /\ state' = my[t].box
  /\ To(t, "idle")
  /\ UNCHANGED <<aws, store, pem, staging, my>>

Provision(t) ==
  \/ Start(t, "provision", "key?", NoLocals)
  \/ EnsureKey(t) \/ DeleteKey(t) \/ CreateKey(t) \/ DuplicateKey(t)
  \/ OpenPem(t) \/ WritePem(t)
  \/ EnsureSg(t) \/ CreateSg(t) \/ DuplicateSg(t) \/ Ingress(t)
  \/ Launch(t) \/ NoCapacity(t) \/ LaunchRefused(t) \/ Ready(t) \/ SaveState(t)

-------------------------------------------------------------------------------
(* teardown and guard *)

\* mutant: the box of the state file is the one to end
TerminateKnown(t) ==
  /\ pc[t] = "list"
  /\ LET ids == Live \cap {state}
     IN  /\ my' = [my EXCEPT ![t].ids = ids]
         /\ box' = [b \in Box |-> IF b \in ids THEN [box[b] EXCEPT !.st = "ending"] ELSE box[b]]
  /\ To(t, "gone?")
  /\ UNCHANGED <<nBoxes, keyPair, sg, made, store, laptop>>

\* mutant: and that of the state file, if there is none too
TerminateSaved(t) ==
  /\ pc[t] = "list"
  /\ my' = [my EXCEPT ![t].ids = Live \cup {state}]
  /\ box' = [b \in Box |-> IF b \in Live THEN [box[b] EXCEPT !.st = "ending"] ELSE box[b]]
  /\ To(t, "gone?")
  /\ UNCHANGED <<nBoxes, keyPair, sg, made, store, laptop>>

\* Every tagged instance that is alive is told to end: the state file may be
\* stale.  Listing and ending are two calls; a box launched between them is one
\* launched after.
Terminate(t) ==
  /\ pc[t] = "list"
  /\ my' = [my EXCEPT ![t].ids = Live]
  /\ box' = [b \in Box |-> IF b \in Live THEN [box[b] EXCEPT !.st = "ending"] ELSE box[b]]
  /\ To(t, "gone?")
  /\ UNCHANGED <<nBoxes, keyPair, sg, made, store, laptop>>

\* The waiter, on those alone that this command ended.
AllGone(t) ==
  /\ pc[t] = "gone?" /\ \A b \in my[t].ids : box[b].st = "gone"
  /\ To(t, "delsg")
  /\ UNCHANGED <<aws, store, laptop, my>>

\* A group that an instance still holds stays: the error is printed.
DeleteSg(t) ==
  /\ pc[t] = "delsg"
  /\ sg' = IF \E b \in Holding : box[b].sg = sg THEN sg ELSE 0
  /\ To(t, "dropkey")
  /\ UNCHANGED <<box, nBoxes, keyPair, made, store, laptop, my>>

\* An error is printed, and the key pair left.  The .pem stays on the laptop.
DropKey(t) ==
  /\ pc[t] = "dropkey"
  /\ keyPair' \in {0, keyPair}
  /\ \E keepBucket \in BOOLEAN : To(t, IF keepBucket THEN "clear" ELSE "rmbucket")
  /\ UNCHANGED <<box, nBoxes, sg, made, store, laptop, my>>

\* --no-keep-bucket: its objects, then itself; an error is printed.
RemoveBucket(t) ==
  /\ pc[t] = "rmbucket"
  /\ \/ bucket' \in {FALSE, bucket} /\ object' = [o \in DOMAIN object |-> NoObject]
     \/ UNCHANGED <<bucket, object>>
  /\ To(t, "clear")
  /\ UNCHANGED <<aws, files, laptop, my>>

ClearState(t) ==
  /\ pc[t] = "clear"
  /\ state' = 0
  /\ To(t, "guard")
  /\ UNCHANGED <<aws, store, pem, staging, my>>

\* guard: the instances, then the groups; a volume carries no tag.
GuardBoxes(t) ==
  /\ pc[t] = "guard"
  /\ my' = [my EXCEPT ![t].ids = Live]
  /\ To(t, "guardsg")
  /\ UNCHANGED <<aws, store, laptop>>

\* mutant: the report is that of the instances
GuardSgsUnseen(t) ==
  /\ pc[t] = "guardsg"
  /\ To(t, "verdict")
  /\ UNCHANGED <<aws, store, laptop, my>>

GuardSgs(t) ==
  /\ pc[t] = "guardsg"
  /\ my' = [my EXCEPT ![t].sg = sg]
  /\ To(t, "verdict")
  /\ UNCHANGED <<aws, store, laptop>>

\* "clean", or the list.
Verdict(t) == pc[t] = "verdict" /\ To(t, "idle") /\ UNCHANGED <<aws, store, laptop, my>>

Teardown(t) ==
  \/ Start(t, "teardown", "list", NoLocals)
  \/ Terminate(t) \/ AllGone(t) \/ DeleteSg(t) \/ DropKey(t) \/ RemoveBucket(t) \/ ClearState(t)

Guard(t) ==
  \/ Start(t, "guard", "guard", NoLocals)
  \/ GuardBoxes(t) \/ GuardSgs(t) \/ Verdict(t)

-------------------------------------------------------------------------------
(* sync-up and sync-down *)

\* pack: every sync-up of one key name writes the same file of _artifacts.
Pack(t, content) ==
  /\ pc[t] = "pack"
  /\ staging' = content
  /\ To(t, "hash")
  /\ UNCHANGED <<aws, store, pem, state, my>>

\* _sha256: the file is read back.
Hash(t) ==
  /\ pc[t] = "hash"
  /\ my' = [my EXCEPT ![t].sha = staging]
  /\ To(t, "bucket?")
  /\ UNCHANGED <<aws, store, laptop>>

\* ensure_bucket: looked up, then made; to make one's own bucket twice is no error.
EnsureBucket(t) ==
  /\ pc[t] = "bucket?"
  /\ To(t, IF bucket THEN "upload" ELSE "mkbucket")
  /\ UNCHANGED <<aws, store, laptop, my>>

CreateBucket(t) ==
  /\ pc[t] = "mkbucket"
  /\ bucket' = TRUE
  /\ To(t, "upload")
  /\ UNCHANGED <<aws, object, files, laptop, my>>

\* upload: the file as it is now, under the digest taken before.
Upload(t) ==
  /\ pc[t] = "upload"
  /\ IF bucket THEN object' = [object EXCEPT !["payload"] = [data |-> staging, sha |-> my[t].sha]]
               ELSE UNCHANGED object
  /\ pc' = [pc EXCEPT ![t] = "idle"] /\ mixed' = (mixed \/ Beside(t, {"sync-up"}))
  /\ UNCHANGED <<aws, bucket, files, laptop, my, beside, torn, nCommands, nFaults>>

\* download: the metadata, then the object, which may be another by then.
Head(t) ==
  /\ pc[t] = "head"
  /\ my' = [my EXCEPT ![t] = [@ EXCEPT !.sha = object[my[t].object].sha,
                                        !.headed = object[my[t].object].data]]
  /\ To(t, IF object[my[t].object] = NoObject THEN "idle" ELSE "get")
  /\ UNCHANGED <<aws, store, laptop>>

Get(t) ==
  /\ pc[t] = "get"
  /\ my' = [my EXCEPT ![t].data = object[my[t].object].data]
  /\ To(t, IF object[my[t].object] = NoObject THEN "idle" ELSE "check")
  /\ UNCHANGED <<aws, store, laptop>>

\* mutant: the digest is printed, not compared
CheckReported(t) ==
  /\ pc[t] = "check"
  /\ my' = [my EXCEPT ![t].ok = TRUE]
  /\ To(t, "idle")
  /\ UNCHANGED <<aws, store, laptop>>

\* The archive is accepted if it has that digest, or there was none; the file stays
\* if it is not.
Check(t) ==
  /\ pc[t] = "check"
  /\ my' = [my EXCEPT ![t].ok = my[t].sha \in {0, my[t].data}]
  /\ To(t, "idle")
  /\ UNCHANGED <<aws, store, laptop>>

Transfer(t) ==
  \/ Start(t, "sync-up", "pack", NoLocals)
  \/ \E content \in Contents : Pack(t, content)
  \/ Hash(t) \/ EnsureBucket(t) \/ CreateBucket(t) \/ Upload(t)
  \/ \E o \in DOMAIN object : Start(t, "sync-down", "head", [NoLocals EXCEPT !.object = o])
  \/ Head(t) \/ Get(t) \/ Check(t)

-------------------------------------------------------------------------------
(* run: a job on the box, watched from the terminal *)

\* require_state; a job that has a result to store (train, infer), or none (bootstrap).
StartRun(t) ==
  /\ state # 0
  /\ \E o \in {"", "result"} :
       Start(t, "run", "ssh", [NoLocals EXCEPT !.box = state, !.object = o])

\* _client, ten times over: the box is up and has this key.
Connect(t) ==
  /\ pc[t] = "ssh"
  /\ box[my[t].box].st = "running" /\ pem # 0 /\ box[my[t].box].key = pem
  /\ To(t, "job")
  /\ UNCHANGED <<aws, store, laptop, my>>

NoConnection(t) ==
  /\ pc[t] = "ssh"
  /\ box[my[t].box].st # "running" \/ box[my[t].box].key # pem
  /\ Refused(t)

\* bootstrap.sh sets the box up and stores nothing.
Bootstrap(t) ==
  /\ pc[t] = "job" /\ my[t].object = ""
  /\ my' = [my EXCEPT ![t].ok = TRUE]
  /\ To(t, "exit")
  /\ UNCHANGED <<aws, store, laptop>>

\* train.sh, infer.sh: the payload is fetched to the box,
Fetch(t) ==
  /\ pc[t] = "job" /\ my[t].object = "result" /\ object["payload"] # NoObject
  /\ files' = [files EXCEPT ![my[t].box].payload = object["payload"].data]
  /\ my' = [my EXCEPT ![t].data = object["payload"].data]
  /\ To(t, "compute")
  /\ UNCHANGED <<aws, bucket, object, laptop>>

\* the result is computed and packed,
Compute(t) ==
  /\ pc[t] = "compute"
  /\ files' = [files EXCEPT ![my[t].box].result = files[my[t].box].payload]
  /\ To(t, "digest")
  /\ UNCHANGED <<aws, bucket, object, laptop, my>>

\* sha256sum reads it back,
Digest(t) ==
  /\ pc[t] = "digest"
  /\ my' = [my EXCEPT ![t].sha = files[my[t].box].result]
  /\ To(t, "store")
  /\ UNCHANGED <<aws, store, laptop>>

\* mutant: an upload that fails does not fail the job
StoreUnchecked(t) ==
  /\ pc[t] = "store"
  /\ \/ /\ bucket
        /\ object' = [object EXCEPT !["result"] =
                        [data |-> files[my[t].box].result, sha |-> my[t].sha]]
     \/ UNCHANGED object
  /\ my' = [my EXCEPT ![t].ok = TRUE]
  /\ pc' = [pc EXCEPT ![t] = "exit"] /\ mixed' = (mixed \/ Beside(t, {"run"}))
  /\ UNCHANGED <<aws, bucket, files, laptop, beside, torn, nCommands, nFaults>>

\* and the file as it is by then is stored under that digest.
Store(t) ==
  /\ pc[t] = "store" /\ bucket
  /\ object' = [object EXCEPT !["result"] =
                  [data |-> files[my[t].box].result, sha |-> my[t].sha]]
  /\ my' = [my EXCEPT ![t].ok = TRUE]
  /\ pc' = [pc EXCEPT ![t] = "exit"] /\ mixed' = (mixed \/ Beside(t, {"run"}))
  /\ UNCHANGED <<aws, bucket, files, laptop, beside, torn, nCommands, nFaults>>

\* A line of the job fails and ends it (set -e), or the box ends under it and closes
\* the link (one that vanished would be polled for ever: _exec has no keepalive).
JobFails(t) ==
  /\ pc[t] \in JobAt
  /\ To(t, "exit")
  /\ UNCHANGED <<aws, store, laptop, my>>

\* On a box that runs the job goes on, or fails.
Job(t) ==
  \/ pc[t] \in JobAt /\ box[my[t].box].st = "running"
     /\ (Bootstrap(t) \/ Fetch(t) \/ Compute(t) \/ Digest(t) \/ Store(t))
  \/ JobFails(t)

\* _exec: the exit status is that of the command.
Exit(t) == pc[t] = "exit" /\ To(t, "idle") /\ UNCHANGED <<aws, store, laptop, my>>

Run(t) == StartRun(t) \/ Connect(t) \/ NoConnection(t) \/ Job(t) \/ Exit(t)

-------------------------------------------------------------------------------
(* What AWS and the laptop do of themselves *)

Becomes(b, st) ==
  /\ box' = [box EXCEPT ![b].st = st]
  /\ UNCHANGED <<nBoxes, keyPair, sg, made, store, laptop, pc, my, beside, torn, mixed, nCommands>>

Boots(b) == box[b].st = "pending" /\ Becomes(b, "running") /\ UNCHANGED nFaults
Ends(b) == box[b].st = "ending" /\ Becomes(b, "gone") /\ UNCHANGED nFaults

Fault == nFaults < MaxFaults /\ nFaults' = nFaults + 1

\* A spot instance is reclaimed.
Reclaimed(b) == UseSpot /\ box[b].st = "running" /\ Becomes(b, "ending") /\ Fault

\* The .pem is lost: another checkout, a cleaned directory.
LosePem ==
  /\ pem # 0 /\ Fault
  /\ pem' = 0
  /\ beside' = [t \in Terminals |->
                  IF pc[t] = "idle" THEN beside[t] ELSE beside[t] \cup {"lost"}]
  /\ UNCHANGED <<aws, store, state, staging, pc, my, torn, mixed, nCommands>>

\* A payload is put in the bucket by hand, with no digest beside it.
HandPut(content) ==
  /\ bucket /\ Fault
  /\ object' = [object EXCEPT !["payload"] = [data |-> content, sha |-> 0]]
  /\ UNCHANGED <<aws, bucket, files, laptop, pc, my, beside, torn, mixed, nCommands>>

Next ==
  \/ \E t \in Terminals :
       Provision(t) \/ Teardown(t) \/ Guard(t) \/ Transfer(t) \/ Run(t) \/ Cut(t)
  \/ \E b \in Box : Boots(b) \/ Ends(b) \/ Reclaimed(b)
  \/ LosePem
  \/ \E content \in Contents : HandPut(content)

Spec == Init /\ [][Next]_vars

-------------------------------------------------------------------------------
(* Properties *)

\* "A half-failed teardown or a forgotten box can't quietly bill you"
\* (teardown.py:5-6): a teardown that gets to the end with no provision beside
\* it leaves no instance, whatever state file and interrupted commands it started
\* from (the group and the key pair it may leave, and says so); and a guard without
\* one never calls a region clean that has an instance or a group.
NothingLeftUnseen ==
  [][\A t \in Terminals : ~Beside(t, {"provision"}) =>
       /\ ClearState(t) => Live = {}
       /\ Verdict(t) => (Live # {} => my[t].ids # {}) /\ (sg # 0 => my[t].sg # 0)]_vars

\* The box a provision writes to the state file opens to the .pem on disk,
\* unless another provision or a teardown ran beside it, or the file was lost, or
\* earlier ones died or overtook each other between making a key pair and having
\* written it.
SavedBoxOpens ==
  [][\A t \in Terminals :
       SaveState(t) /\ ~Beside(t, {"provision", "teardown", "lost"}) /\ ~torn
         => pem = box[my[t].box].key]_vars

\* "SHA-256 of the compressed archive is recorded as S3 object metadata and verified
\* on download" (transfer.py:4-5): what a sync-down accepts under a digest is the
\* archive that was in the bucket when it asked for it, whatever was stored between
\* its two calls, unless an archive was once stored that another sync-up, or a job
\* on the same box, may have rewritten between its digest and its upload; and a job
\* of train.sh or infer.sh that reports success has left there the result of the
\* payload it fetched, unless another run or a teardown came beside it.
ResultsTrusted ==
  [][\A t \in Terminals :
       /\ Check(t) /\ my'[t].ok /\ my[t].sha # 0 /\ ~mixed => my[t].data = my[t].headed
       /\ Exit(t) /\ my[t].ok /\ my[t].object = "result" /\ ~Beside(t, {"run", "teardown"})
            => object["result"] = [data |-> my[t].data, sha |-> my[t].data]]_vars
===============================================================================
