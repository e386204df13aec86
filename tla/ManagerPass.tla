----------------------------- MODULE ManagerPass -----------------------------
(***************************************************************************)
(* The passes of the manager call by call: what it looks up, applies and   *)
(* deletes, in which order, and what a call that fails takes with it.      *)
(*                                                                         *)
(* Around it: informers that lag, API calls that fail before or after they *)
(* took effect, a manager that dies in a pass, users that change the       *)
(* YurtCluster, edit the objects it applies and mark them with the         *)
(* skip-reconcile annotation, other writers of the RBAC objects it extends *)
(* and a control plane that grows and shrinks.                             *)
(***************************************************************************)
EXTENDS Naturals, Sequences

CONSTANTS
  InitialSpecs, \* the specs the user may create the object with
  UpdateSpecs,  \* the specs the user may change it to
  Sizes,        \* the numbers of control-plane nodes there may be
  Editable,     \* the objects that users edit
  Removable,    \* the objects that users remove
  MaxMoves,     \* bound on what users, other writers and nodes do
  MaxFaults     \* bound on failed API calls and crashes

Templates == {"trans", "yurthub", "yurttunnel"}

\* `identity' stands for the server's service account, cluster role and cluster role binding,
\* which are applied one after the other and never deleted.
ServerObjects == {"identity", "svc", "internalSvc", "nodePortSvc", "cfg", "serverDS", "serverDeploy"}
Workloads == {"serverDS", "serverDeploy", "agentDS"}
Objects == Templates \cup ServerObjects \cup {"agentDS"}

\* The manifests that carry the skip-reconcile annotation themselves.
MarkedByManifest == Templates \cup {"internalSvc", "cfg"}

Grants == {"role", "binding"}  \* the ClusterRole system:node and its binding

Specs == [server : {"on", "off", "nil"}, agent : {"on", "off", "nil"},
          publicIP : BOOLEAN, serverCount : Nat]

ASSUME SpecsAssumption == InitialSpecs \subseteq Specs /\ UpdateSpecs \subseteq Specs

ASSUME ObjectsAssumption ==
  Sizes \subseteq Nat /\ Editable \subseteq Objects /\ Removable \subseteq ServerObjects \ Workloads

ASSUME BoundsAssumption == MaxMoves \in Nat /\ MaxFaults \in Nat

VARIABLES
  (* the API server *)
  yc,       \* the YurtCluster: whether it exists and is being deleted, and its spec
  obj,      \* the objects that the manager applies and deletes
  rbac,     \* the RBAC objects it extends: its own rule, and one of others
  cp,       \* the number of control-plane nodes
  (* the manager *)
  seenYC,   \* its cached YurtCluster
  seenCP,   \* the control-plane nodes in its cache
  asked,    \* the YurtCluster the pass read
  todo,     \* the calls that are left of the pass
  step,     \* where the first of them is
  size,     \* the size of the control plane the pass counted
  copy,     \* the RBAC object that the pass has read and is about to write
  fresh,    \* nobody has written the object since the pass looked it up
  errs,     \* whether a call of the pass has failed
  running,  \* whether a pass is under way
  result,   \* what the last pass returned, if it lived to
  (* history *)
  missed,   \* the last clean-up of yurt tunnel succeeded and left workloads behind
  missing,  \* the pass under way has left workloads of yurt tunnel behind
  before,   \* what the pass under way found: templates, and whether workloads exist
  (* bounds *)
  moves, faults

clusterVars == <<yc, obj, rbac, cp>>
cacheVars   == <<seenYC, seenCP>>
passVars    == <<asked, todo, step, size, copy, errs, running, missing, before>>
outcomeVars == <<result, missed>>
boundVars   == <<moves, faults>>
vars == <<clusterVars, cacheVars, passVars, fresh, outcomeVars, boundVars>>

Absent == [exists |-> FALSE, skip |-> FALSE, edited |-> FALSE, count |-> 0, replicas |-> 0]

NoGrant == [ours |-> FALSE, others |-> FALSE]

Templated == {t \in Templates : obj[t].exists}
Up == \E w \in Workloads : obj[w].exists

----------------------------------------------------------------------------
(* What a pass is made of *)

Call(group, kind, o) == [group |-> group, kind |-> kind, obj |-> o]

Calls(group, kind, objects) == [i \in DOMAIN objects |-> Call(group, kind, objects[i])]

When(condition, calls) == IF condition THEN calls ELSE <<>>

ServerDeletes ==
  Calls("tunnel", "delete", <<"serverDS", "serverDeploy", "svc", "internalSvc", "nodePortSvc">>)

AgentDeletes == Calls("tunnel", "delete", <<"agentDS">>)

ServerApplies(spec) ==
  When(~spec.publicIP, Calls("tunnel", "delete", <<"nodePortSvc">>))
    \o Calls("tunnel", "apply", <<"identity", "svc", "internalSvc", "cfg", "serverDS", "serverDeploy">>)
    \o When(spec.publicIP, Calls("tunnel", "apply", <<"nodePortSvc">>))

\* The calls for a component that can be switched on and off; a nil switch is dereferenced.
Switched(switch, on, off) ==
  CASE switch = "on" -> on [] switch = "off" -> off
    [] OTHER -> <<Call("tunnel", "panic", "yurttunnel")>>

LoadTemplate == <<Call("tunnel", "load", "yurttunnel")>>

ApplyPlan(spec) ==
  Calls("trans", "apply", <<"trans">>)
    \o Calls("hub", "apply", <<"yurthub">>) \o Calls("hub", "grant", <<"role", "binding">>)
    \o Calls("tunnel", "apply", <<"yurttunnel">>) \o LoadTemplate
    \o Switched(spec.server, ServerApplies(spec), ServerDeletes)
    \o Switched(spec.agent, Calls("tunnel", "apply", <<"agentDS">>), AgentDeletes)

DeletePlan == LoadTemplate \o ServerDeletes \o AgentDeletes

Larger(a, b) == IF a > b THEN a ELSE b

ServersTotal(spec, n) == Larger(n, spec.serverCount)

\* Slips: replicas that go below zero, and a deployment that counts the servers of the daemon set.
ExtraServersUnchecked(spec, n) == spec.serverCount - n

ManifestTwice(o, spec, n) ==
  [exists   |-> TRUE, edited |-> FALSE,
   skip     |-> o \in MarkedByManifest \/ obj[o].skip,
   count    |-> IF o \in {"serverDS", "serverDeploy"} THEN ServersTotal(spec, n) ELSE 0,
   replicas |-> IF o = "serverDeploy" THEN ServersTotal(spec, n) ELSE 0]

\* The daemon set puts a server on every control-plane node; the deployment adds what is missing.
ExtraServers(spec, n) == IF spec.serverCount > n THEN spec.serverCount - n ELSE 0

\* What the manifest of o says; an annotation that it does not mention stays.
Manifest(o, spec, n) ==
  [exists   |-> TRUE, edited |-> FALSE,
   skip     |-> o \in MarkedByManifest \/ obj[o].skip,
   count    |-> IF o \in {"serverDS", "serverDeploy"} THEN ServersTotal(spec, n) ELSE 0,
   replicas |-> IF o = "serverDeploy" THEN ExtraServers(spec, n) ELSE 0]

----------------------------------------------------------------------------
(* A pass *)

Fault == faults < MaxFaults /\ faults' = faults + 1 /\ UNCHANGED moves

\* A step of a user, of another writer or of a node.
Move == moves < MaxMoves /\ moves' = moves + 1 /\ UNCHANGED faults

NoPass ==
  /\ todo' = <<>> /\ step' = "look" /\ size' = 0 /\ copy' = NoGrant /\ errs' = FALSE
  /\ running' = FALSE /\ missing' = FALSE /\ before' = [tpls |-> {}, up |-> FALSE]

Current == Head(todo)
At(kind, where) == todo # <<>> /\ Current.kind = kind /\ step = where

\* The call is over, and the next one begins.
Onward == todo' = Tail(todo) /\ step' = "look" /\ copy' = NoGrant

\* An error: what is left of the same group is not attempted, and the next group begins.
GiveUp ==
  /\ \E n \in 1 .. Len(todo) :
       /\ \A i \in 1 .. n : todo[i].group = Current.group
       /\ n < Len(todo) => todo[n + 1].group # Current.group
       /\ todo' = SubSeq(todo, n + 1, Len(todo))
  /\ step' = "look" /\ copy' = NoGrant /\ errs' = TRUE

Begin ==
  /\ ~running /\ seenYC.exists /\ running' = TRUE
  /\ asked' = seenYC
  /\ todo' = IF seenYC.deleting THEN DeletePlan ELSE ApplyPlan(seenYC.spec)
  /\ before' = [tpls |-> Templated, up |-> Up]
  /\ UNCHANGED <<clusterVars, cacheVars, step, size, copy, errs, missing, fresh,
                 outcomeVars, boundVars>>

\* A slip: no lookup before an object is applied or deleted.
LookNever ==
  /\ At("apply", "look") \/ At("delete", "look")
  /\ step' = (IF Current.kind = "apply" THEN "write" ELSE "get") /\ fresh' = TRUE
  /\ UNCHANGED <<clusterVars, cacheVars, asked, todo, size, copy, errs, running, missing, before,
                 outcomeVars, boundVars>>

\* Every apply and every delete looks first whether the object is marked; a failed lookup says
\* that it is not.
Look ==
  /\ At("apply", "look") \/ At("delete", "look")
  /\ LET o == Current.obj
         next == IF Current.kind = "apply" THEN "write" ELSE "get"
     IN  \/ /\ obj[o].skip /\ Onward /\ fresh' = FALSE
            /\ missing' = (missing \/ (Current.kind = "delete" /\ o \in Workloads))
            /\ UNCHANGED boundVars
         \/ /\ ~obj[o].skip /\ step' = next /\ fresh' = TRUE
            /\ UNCHANGED <<todo, copy, missing, boundVars>>
         \/ Fault /\ step' = next /\ fresh' = FALSE /\ UNCHANGED <<todo, copy, missing>>
  /\ UNCHANGED <<clusterVars, cacheVars, asked, size, errs, running, before, outcomeVars>>

\* A delete looks a second time, for the object itself; a failed lookup says that it is gone.
\* Before that it asks where the API server serves the kind, and a failure there is an error.
LookAgain ==
  /\ At("delete", "get")
  /\ LET o == Current.obj
     IN  \/ /\ obj[o].exists /\ step' = "write"
            /\ UNCHANGED <<todo, copy, fresh, errs, missing, boundVars>>
         \/ ~obj[o].exists /\ Onward /\ fresh' = FALSE /\ UNCHANGED <<errs, missing, boundVars>>
         \/ /\ obj[o].exists /\ Fault /\ Onward /\ fresh' = FALSE
            /\ missing' = (missing \/ o \in Workloads) /\ UNCHANGED errs
         \/ Fault /\ GiveUp /\ fresh' = FALSE /\ UNCHANGED missing
  /\ UNCHANGED <<clusterVars, cacheVars, asked, size, running, before, outcomeVars>>

\* A call that changes the object to x: it succeeds, or it fails before or after it did so.
Changes(o, x) ==
  /\ \/ obj' = [obj EXCEPT ![o] = x] /\ Onward /\ UNCHANGED <<errs, boundVars>>
     \/ obj' \in {obj, [obj EXCEPT ![o] = x]} /\ GiveUp /\ Fault
  /\ fresh' = FALSE
  /\ UNCHANGED <<yc, rbac, cp, cacheVars, asked, size, running, missing, before, outcomeVars>>

Patch == At("apply", "write") /\ Changes(Current.obj, Manifest(Current.obj, asked.spec, size))

\* An object that is no longer there is an error.
DeleteObject ==
  /\ At("delete", "write")
  /\ \/ obj[Current.obj].exists /\ Changes(Current.obj, Absent)
     \/ /\ ~obj[Current.obj].exists /\ GiveUp /\ fresh' = FALSE
        /\ UNCHANGED <<clusterVars, cacheVars, asked, size, running, missing, before,
                       outcomeVars, boundVars>>

\* The template is read back, and where the server is switched on the control-plane nodes in the
\* cache are counted: none, if listing them fails.
Load ==
  /\ At("load", "look")
  /\ \/ /\ obj["yurttunnel"].exists /\ Onward /\ UNCHANGED errs
        /\ \/ size' = seenCP /\ UNCHANGED boundVars
           \/ ~asked.deleting /\ asked.spec.server = "on" /\ size' = 0 /\ Fault
     \/ ~obj["yurttunnel"].exists /\ GiveUp /\ UNCHANGED <<size, boundVars>>
     \/ Fault /\ GiveUp /\ UNCHANGED size
  /\ UNCHANGED <<clusterVars, cacheVars, asked, running, missing, before, fresh, outcomeVars>>

\* The RBAC object is read, and if it lacks the rule it is to be written back with it.
Read ==
  /\ At("grant", "look")
  /\ \/ rbac[Current.obj].ours /\ Onward /\ UNCHANGED <<fresh, errs, boundVars>>
     \/ /\ ~rbac[Current.obj].ours /\ step' = "write"
        /\ copy' = rbac[Current.obj] /\ fresh' = TRUE
        /\ UNCHANGED <<todo, errs, boundVars>>
     \/ GiveUp /\ Fault /\ UNCHANGED fresh
  /\ UNCHANGED <<clusterVars, cacheVars, asked, size, running, missing, before, outcomeVars>>

\* A slip: a write of the copy that does not carry the resource version it was read with.
UpdateBlindly ==
  /\ At("grant", "write") /\ Onward /\ fresh' = FALSE
  /\ rbac' = [rbac EXCEPT ![Current.obj] = [copy EXCEPT !.ours = TRUE]]
  /\ UNCHANGED <<yc, obj, cp, cacheVars, asked, size, errs, running, missing, before,
                 outcomeVars, boundVars>>

\* The whole object is written, with the resource version it was read with: the API server
\* refuses it if somebody wrote in between.
Update ==
  /\ At("grant", "write") /\ fresh' = FALSE
  /\ LET written == [rbac EXCEPT ![Current.obj] = [copy EXCEPT !.ours = TRUE]]
     IN  \/ fresh /\ rbac' = written /\ Onward /\ UNCHANGED <<errs, boundVars>>
         \/ ~fresh /\ GiveUp /\ UNCHANGED <<rbac, boundVars>>
         \/ fresh /\ rbac' \in {rbac, written} /\ GiveUp /\ Fault
  /\ UNCHANGED <<yc, obj, cp, cacheVars, asked, size, running, missing, before, outcomeVars>>

Panic ==
  /\ At("panic", "look") /\ NoPass /\ result' = "panic"
  /\ UNCHANGED <<clusterVars, cacheVars, asked, fresh, missed, boundVars>>

\* A slip: the errors of the pass are not aggregated, and only the last one is returned.
EndWell ==
  /\ running /\ todo = <<>> /\ NoPass
  /\ result' = "ok" /\ missed' = missing
  /\ UNCHANGED <<clusterVars, cacheVars, asked, fresh, boundVars>>

End ==
  /\ running /\ todo = <<>> /\ NoPass
  /\ result' = IF errs THEN "error" ELSE "ok"
  /\ missed' = IF errs THEN missed ELSE missing
  /\ UNCHANGED <<clusterVars, cacheVars, asked, fresh, boundVars>>

\* The manager dies in a pass, and its successor lists everything anew.
Crash ==
  /\ running /\ Fault /\ NoPass /\ result' = "none"
  /\ seenYC' = yc /\ seenCP' = cp
  /\ UNCHANGED <<clusterVars, asked, fresh, missed>>

Pass ==
  \/ Begin \/ Look \/ LookAgain \/ Patch \/ DeleteObject \/ Load
  \/ Read \/ Update \/ Panic \/ End

----------------------------------------------------------------------------
(* The cluster around it *)

SeeYC ==
  /\ seenYC # yc /\ seenYC' = yc
  /\ UNCHANGED <<clusterVars, seenCP, passVars, fresh, outcomeVars, boundVars>>

\* The informer delivers the Nodes, at the latest with the next heartbeat of a kubelet.
SeeNodes ==
  /\ seenCP' = cp
  /\ UNCHANGED <<clusterVars, seenYC, passVars, fresh, outcomeVars, boundVars>>

\* Somebody else writes object o, which the pass may have looked up a moment ago.
Touches(o) == fresh' = (fresh /\ ~(todo # <<>> /\ Current.obj = o))

\* `kubectl edit' of an object, with or without the annotation.
UserEdits(o, mark) ==
  /\ Move
  /\ obj[o].exists /\ obj' = [obj EXCEPT ![o].edited = TRUE, ![o].skip = @ \/ mark]
  /\ Touches(o)
  /\ UNCHANGED <<yc, rbac, cp, cacheVars, passVars, outcomeVars>>

UserRemoves(o) ==
  /\ Move
  /\ obj[o].exists /\ obj' = [obj EXCEPT ![o] = Absent]
  /\ Touches(o)
  /\ UNCHANGED <<yc, rbac, cp, cacheVars, passVars, outcomeVars>>

\* Another component adds its rule to an RBAC object or takes it away.
OthersGrant(g) ==
  /\ Move
  /\ rbac' = [rbac EXCEPT ![g].others = ~@]
  /\ Touches(g)
  /\ UNCHANGED <<yc, obj, cp, cacheVars, passVars, outcomeVars>>

UserUpdates(s) ==
  /\ yc.exists /\ s # yc.spec
  /\ Move
  /\ yc' = [yc EXCEPT !.spec = s]
  /\ UNCHANGED <<obj, rbac, cp, cacheVars, passVars, fresh, outcomeVars>>

UserDeletes ==
  /\ yc.exists /\ ~yc.deleting
  /\ Move
  /\ yc' = [yc EXCEPT !.deleting = TRUE]
  /\ UNCHANGED <<obj, rbac, cp, cacheVars, passVars, fresh, outcomeVars>>

\* A pass over the deleted object succeeded and the nodes are reverted: the finalizer goes.
Released ==
  /\ yc.exists /\ ~running /\ result = "ok" /\ asked.deleting
  /\ yc' = [yc EXCEPT !.exists = FALSE]
  /\ UNCHANGED <<obj, rbac, cp, cacheVars, passVars, fresh, outcomeVars, boundVars>>

\* A control-plane node joins or leaves.
Resize(n) ==
  /\ n # cp /\ cp' = n
  /\ Move
  /\ UNCHANGED <<yc, obj, rbac, cacheVars, passVars, fresh, outcomeVars>>

Environment ==
  \/ \E o \in Editable, mark \in BOOLEAN : UserEdits(o, mark)
  \/ \E o \in Removable : UserRemoves(o)
  \/ \E g \in Grants : OthersGrant(g)
  \/ \E s \in UpdateSpecs : UserUpdates(s)
  \/ UserDeletes \/ Released
  \/ \E n \in Sizes : Resize(n)

Init ==
  /\ yc \in [exists : {TRUE}, deleting : {FALSE}, spec : InitialSpecs]
  /\ obj = [o \in Objects |-> Absent]
  /\ rbac = [g \in Grants |-> [ours |-> FALSE, others |-> TRUE]]
  /\ cp \in Sizes
  /\ seenYC = yc /\ seenCP = cp
  /\ asked = yc /\ todo = <<>> /\ step = "look" /\ size = 0 /\ copy = NoGrant
  /\ fresh = FALSE /\ errs = FALSE /\ running = FALSE /\ result = "none"
  /\ missed = FALSE /\ missing = FALSE /\ before = [tpls |-> {}, up |-> FALSE]
  /\ moves = 0 /\ faults = 0

Next == Pass \/ Crash \/ SeeYC \/ SeeNodes \/ Environment

Spec == Init /\ [][Next]_vars

\* Every event of the object and every heartbeat of a node queues a pass, calls time out and
\* informers deliver.  Nothing is assumed of users and faults.
Fairness == WF_vars(Pass) /\ WF_vars(SeeYC) /\ WF_vars(SeeNodes)

FairSpec == Spec /\ Fairness

----------------------------------------------------------------------------
(* Properties *)

\* Every variable has the type its declaration says.
TypeOK ==
  /\ yc \in [exists : BOOLEAN, deleting : BOOLEAN, spec : Specs]
  /\ obj \in [Objects -> [exists : BOOLEAN, skip : BOOLEAN, edited : BOOLEAN,
                          count : Nat, replicas : Nat]]
  /\ rbac \in [Grants -> [ours : BOOLEAN, others : BOOLEAN]]
  /\ cp \in Nat /\ seenCP \in Nat /\ size \in Nat
  /\ seenYC \in [exists : BOOLEAN, deleting : BOOLEAN, spec : Specs]
  /\ asked \in [exists : BOOLEAN, deleting : BOOLEAN, spec : Specs]
  /\ todo \in Seq([group : {"trans", "hub", "tunnel"},
                   kind : {"apply", "delete", "grant", "load", "panic"}, obj : Objects \cup Grants])
  /\ step \in {"look", "get", "write"}
  /\ copy \in [ours : BOOLEAN, others : BOOLEAN]
  /\ fresh \in BOOLEAN /\ errs \in BOOLEAN /\ running \in BOOLEAN
  /\ result \in {"none", "ok", "error", "panic"}
  /\ missed \in BOOLEAN /\ missing \in BOOLEAN
  /\ before \in [tpls : SUBSET Templates, up : BOOLEAN]
  /\ moves \in Nat /\ faults \in Nat

\* What a user edited and marked, a pass leaves alone, unless the lookup of the mark failed or the
\* user was in between the lookup and the write.
EditsSurvive ==
  [][\A o \in Objects :
       obj[o].edited /\ obj[o].skip /\ obj'[o] # obj[o] => ~fresh \/ moves' # moves]_vars

\* The manager adds its rule to objects that it does not own without losing what others write
\* there, however their writes fall between its reads and its writes.
OthersKeepTheirs ==
  [][\A g \in Grants : rbac'[g].others # rbac[g].others => moves' # moves]_vars

\* Seen from outside, each pass is one step that does what YurtOperator takes it to do: success
\* means that everything asked for was applied or cleaned up.
Seen == INSTANCE ManagerRuns WITH
  wanted <- IF asked.deleting THEN "deleted" ELSE asked.spec.server,
  tpls <- IF running THEN before.tpls ELSE Templated,
  up   <- IF running THEN before.up ELSE Up

PassesAsSeen == Seen!Spec

\* Not marked by a user, who then is in charge of it.
InCharge(o) == obj[o].skip => o \in MarkedByManifest

\* The object that the current spec and the current control plane ask for.
AsAsked(o) ==
  InCharge(o) =>
    /\ obj[o].exists
    /\ o = "serverDeploy" => obj[o].replicas = ExtraServers(yc.spec, cp)
    /\ o \in {"serverDS", "serverDeploy"} =>
         ~obj[o].edited /\ obj[o].count = ServersTotal(yc.spec, cp)

Gone(o) == InCharge(o) => ~obj[o].exists

\* When edits, faults and changes of the control plane are over, the cluster has what the spec
\* asks for, the servers add up to the larger of server count and control plane, and what was
\* switched off is gone.
Deploys ==
  <>[](yc.exists /\ ~yc.deleting /\ yc.spec.server # "nil" /\ yc.spec.agent # "nil" =>
         /\ \A g \in Grants : rbac[g].ours
         /\ IF yc.spec.server = "on"
              THEN \A o \in ServerObjects \ {"nodePortSvc"} : AsAsked(o)
              ELSE \A o \in {"svc", "serverDS", "serverDeploy"} : Gone(o)
         /\ IF yc.spec.server = "on" /\ yc.spec.publicIP
              THEN AsAsked("nodePortSvc") ELSE Gone("nodePortSvc")
         /\ IF yc.spec.agent = "on" THEN AsAsked("agentDS") ELSE Gone("agentDS"))
=============================================================================
