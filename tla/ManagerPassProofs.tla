-------------------------- MODULE ManagerPassProofs --------------------------
(***************************************************************************)
(* Proofs about ManagerPass for any specs, any bounds and any sizes of the *)
(* control plane: what a pass may never do to objects that others write,   *)
(* and that a pass, call by call, is the one step that ManagerRuns has.    *)
(***************************************************************************)
EXTENDS ManagerPass, SequenceTheorems, TLAPS

----------------------------------------------------------------------------
(* What the pass knows of the object it is about to write *)

Grant == [ours : BOOLEAN, others : BOOLEAN]

\* Both properties rest on `fresh': as long as nobody else wrote the object that the current call
\* has looked up, the object is not marked, and an RBAC object is what the pass has read.
Looked ==
  step # "look" /\ fresh =>
    /\ Current.kind \in {"apply", "delete"} /\ Current.obj \in Objects => ~obj[Current.obj].skip
    /\ Current.kind = "grant" /\ Current.obj \in Grants => copy = rbac[Current.obj]

\* A call is past its lookup only within a pass, and only if there is a call.
Begun ==
  /\ ~running => todo = <<>> /\ step = "look"
  /\ step # "look" => todo # <<>>

Typed ==
  /\ moves \in Nat
  /\ DOMAIN obj = Objects
  /\ rbac \in [Grants -> Grant]

Inv == Typed /\ Looked /\ Begun

LEMMA InitInv == Init => Inv
  BY DEF Init, Inv, Typed, Looked, Begun, Grant, NoGrant

LEMMA TypedStep ==
  ASSUME Inv, [Next]_vars
  PROVE  Typed'
<1> USE DEF Inv, Typed
<1>1. CASE Begin \/ Look \/ LookAgain \/ Load \/ Read
  BY <1>1 DEF Begin, Look, LookAgain, Load, Read, clusterVars, boundVars, Fault
<1>2. CASE Panic \/ End \/ Crash
  BY <1>2 DEF Panic, End, Crash, clusterVars, boundVars, Fault
<1>3. CASE Patch \/ DeleteObject
  <2>1. UNCHANGED <<rbac, moves>>
    BY <1>3 DEF Patch, DeleteObject, Changes, clusterVars, boundVars, Fault
  <2>2. DOMAIN obj' = DOMAIN obj
    BY <1>3 DEF Patch, DeleteObject, Changes, clusterVars
  <2> QED
    BY <2>1, <2>2
<1>4. CASE Update
  <2>1. UNCHANGED <<obj, moves>>
    BY <1>4 DEF Update, boundVars, Fault
  <2>2. rbac' = rbac \/ (fresh /\ rbac' = [rbac EXCEPT ![Current.obj] = [copy EXCEPT !.ours = TRUE]])
    BY <1>4 DEF Update
  <2>3. fresh /\ Current.obj \in Grants => [copy EXCEPT !.ours = TRUE] \in Grant
    BY <1>4 DEF Update, At, Looked, Grant
  <2> QED
    BY <2>1, <2>2, <2>3
<1>5. CASE SeeYC \/ SeeNodes \/ UNCHANGED vars
  BY <1>5 DEF SeeYC, SeeNodes, clusterVars, boundVars, vars
<1>6. ASSUME NEW o \in Editable, NEW mark \in BOOLEAN, UserEdits(o, mark) PROVE Typed'
  BY <1>6 DEF UserEdits, Move
<1>7. ASSUME NEW o \in Removable, UserRemoves(o) PROVE Typed'
  BY <1>7 DEF UserRemoves, Move
<1>8. ASSUME NEW g \in Grants, OthersGrant(g) PROVE Typed'
  <2>1. [rbac[g] EXCEPT !.others = ~@] \in Grant
    BY DEF Grant
  <2> QED
    BY <1>8, <2>1 DEF OthersGrant, Move
<1>9. CASE \/ \E s \in UpdateSpecs : UserUpdates(s)
           \/ UserDeletes \/ Released
           \/ \E n \in Sizes : Resize(n)
  BY <1>9 DEF UserUpdates, UserDeletes, Released, Resize, Move, boundVars
<1> QED
  BY <1>1, <1>2, <1>3, <1>4, <1>5, <1>6, <1>7, <1>8, <1>9 DEF Next, Pass, Environment

\* A call that ends leaves nothing looked up.
LEMMA LookAnew == step' = "look" /\ (running' \/ todo' = <<>>) => Looked' /\ Begun'
  BY DEF Looked, Begun

LEMMA PassStep ==
  ASSUME Inv, Pass
  PROVE  Looked' /\ Begun'
<1> USE DEF Inv
<1>1. CASE Begin
  BY <1>1, LookAnew DEF Begin, Begun
<1>2. CASE Look
  <2>1. CASE Onward
    BY <1>2, <2>1, LookAnew DEF Onward, Look, At, Begun
  <2>2. CASE ~Onward
    <3>1. UNCHANGED <<obj, todo, running>> /\ (fresh' => ~obj[Current.obj].skip)
      BY <1>2, <2>2 DEF Look, clusterVars
    <3>2. todo # <<>> /\ running
      BY <1>2 DEF Look, At, Begun
    <3>3. Current.kind \in {"apply", "delete"}
      BY <1>2 DEF Look, At
    <3> QED
      BY <3>1, <3>2, <3>3 DEF Looked, Begun, Current
  <2> QED
    BY <2>1, <2>2
<1>3. CASE LookAgain
  <2>1. CASE Onward \/ GiveUp
    BY <1>3, <2>1, LookAnew DEF Onward, GiveUp, LookAgain, At, Begun
  <2>2. CASE ~(Onward \/ GiveUp)
    BY <1>3, <2>2 DEF LookAgain, At, clusterVars, Current, Looked, Begun
  <2> QED
    BY <2>1, <2>2
<1>4. CASE Patch \/ DeleteObject \/ Load \/ Update
  <2>1. running /\ (Onward \/ GiveUp) /\ UNCHANGED running
    BY <1>4 DEF Patch, DeleteObject, Changes, Load, Update, At, Begun
  <2> QED
    BY <2>1, LookAnew DEF Onward, GiveUp
<1>5. CASE Read
  <2>1. CASE Onward \/ GiveUp
    BY <1>5, <2>1, LookAnew DEF Onward, GiveUp, Read, At, Begun
  <2>2. CASE ~(Onward \/ GiveUp)
    <3>1. UNCHANGED <<todo, rbac, running>> /\ todo # <<>> /\ running
      BY <1>5, <2>2 DEF Read, At, clusterVars, Begun
    <3>2. copy' = rbac[Current.obj] /\ Current.kind = "grant"
      BY <1>5, <2>2 DEF Read, At
    <3> QED
      BY <3>1, <3>2 DEF Current, Looked, Begun
  <2> QED
    BY <2>1, <2>2
<1>6. CASE Panic \/ End
  BY <1>6, LookAnew DEF Panic, End, NoPass
<1> QED
  BY <1>1, <1>2, <1>3, <1>4, <1>5, <1>6 DEF Pass

LEMMA EnvironmentStep ==
  ASSUME Inv, Crash \/ SeeYC \/ SeeNodes \/ Environment \/ UNCHANGED vars
  PROVE  Looked' /\ Begun'
<1> USE DEF Inv
<1>1. CASE Crash
  BY <1>1, LookAnew DEF Crash, NoPass
<1>2. CASE UNCHANGED <<obj, rbac, passVars, fresh>>
  BY <1>2 DEF passVars, Current, Looked, Begun
<1>3. ASSUME NEW o \in Editable \cup Removable, Touches(o), UNCHANGED <<rbac, passVars>>,
             \A p \in Objects : p # o => obj'[p] = obj[p]
      PROVE  Looked' /\ Begun'
  BY <1>3 DEF Touches, passVars, Current, Looked, Begun
<1>4. ASSUME NEW g \in Grants, OthersGrant(g) PROVE Looked' /\ Begun'
  BY <1>4 DEF OthersGrant, Touches, passVars, Current, Looked, Begun, Typed
<1>5. CASE \/ \E o \in Editable, mark \in BOOLEAN : UserEdits(o, mark)
           \/ \E o \in Removable : UserRemoves(o)
  BY <1>3, <1>5 DEF UserEdits, UserRemoves, Typed
<1> QED
  BY <1>1, <1>2, <1>4, <1>5 DEF Environment, SeeYC, SeeNodes, UserUpdates, UserDeletes, Released, Resize,
     clusterVars, vars

LEMMA InvStep ==
  ASSUME Inv, [Next]_vars
  PROVE  Inv'
  BY PassStep, EnvironmentStep, TypedStep DEF Next, Inv

----------------------------------------------------------------------------
(* Edits of users *)

\* No pass, however it is cut short and whatever calls of it fail, changes an object that a user
\* edited and marked to be skipped, unless it was misled by a failed lookup or the user came in
\* between its lookup and its write (Apply and Delete of pkg/util/kubernetes.go, ShouldSkip).
THEOREM UsersKeepEdits == Spec => EditsSurvive
<1>1. ASSUME Inv, [Next]_vars
      PROVE  [\A o \in Objects :
                obj[o].edited /\ obj[o].skip /\ obj'[o] # obj[o] => ~fresh \/ moves' # moves]_vars
  <2> SUFFICES ASSUME Next, NEW o \in Objects, obj[o].skip, obj'[o] # obj[o], fresh
               PROVE  moves' # moves
    BY <1>1
  <2>1. CASE Patch \/ DeleteObject
    <3>1. Current.obj = o
      BY <1>1, <2>1 DEF Patch, DeleteObject, Changes, Inv, Typed, clusterVars
    <3> QED
      BY <1>1, <2>1, <3>1 DEF Patch, DeleteObject, At, Inv, Looked
  <2>2. CASE \/ \E p \in Editable, mark \in BOOLEAN : UserEdits(p, mark)
             \/ \E p \in Removable : UserRemoves(p)
    <3>1. Move
      BY <2>2 DEF UserEdits, UserRemoves
    <3> QED
      BY <1>1, <3>1 DEF Move, Inv, Typed
  <2> QED
    BY <2>1, <2>2 DEF Next, Pass, Begin, Look, LookAgain, Load, Read, Update, Panic, End, Crash, SeeYC,
       SeeNodes, Environment, OthersGrant, UserUpdates, UserDeletes, Released, Resize, clusterVars
<1> QED
  BY InitInv, InvStep, <1>1, PTL DEF Spec, EditsSurvive

----------------------------------------------------------------------------
(* Rules of others *)

\* A pass adds its rule to the RBAC objects of others without losing a rule that somebody wrote
\* between its read and its write (reconcileYurtHubRBAC).
THEOREM RulesOfOthersKept == Spec => OthersKeepTheirs
<1>1. ASSUME Inv, [Next]_vars
      PROVE  [\A g \in Grants : rbac'[g].others # rbac[g].others => moves' # moves]_vars
  <2> SUFFICES ASSUME Next, NEW g \in Grants, rbac'[g].others # rbac[g].others
               PROVE  moves' # moves
    BY <1>1
  <2>1. CASE Update
    <3>1. fresh /\ Current.obj = g /\ rbac'[g] = [copy EXCEPT !.ours = TRUE]
      BY <1>1, <2>1 DEF Update, Inv, Typed
    <3>2. copy = rbac[g]
      BY <1>1, <2>1, <3>1 DEF Update, At, Inv, Looked
    <3> QED
      BY <1>1, <3>1, <3>2 DEF Inv, Typed, Grant
  <2>2. CASE \E h \in Grants : OthersGrant(h)
    BY <1>1, <2>2 DEF OthersGrant, Move, Inv, Typed
  <2> QED
    BY <2>1, <2>2 DEF Next, Pass, Begin, Look, LookAgain, Patch, DeleteObject, Changes, Load, Read,
       Panic, End, Crash, SeeYC, SeeNodes, Environment, UserEdits, UserRemoves, UserUpdates,
       UserDeletes, Released, Resize, clusterVars
<1> QED
  BY InitInv, InvStep, <1>1, PTL DEF Spec, OthersKeepTheirs

----------------------------------------------------------------------------
(* The plans of the passes *)

\* The calls of a pass: their objects are objects of the model.
RealCalls ==
  {c \in [group : {"trans", "hub", "tunnel"},
          kind : {"apply", "delete", "grant", "load", "panic"}, obj : Objects \cup Grants] :
     /\ c.kind \in {"apply", "delete"} => c.obj \in Objects
     /\ c.kind = "grant" => c.obj \in Grants}

\* The calls that are left of the pass.
Left == Range(todo)

Wanted == IF asked.deleting THEN "deleted" ELSE asked.spec.server

\* Calls that come before the template of yurt tunnel is read.
Early(c) == c.kind = "grant" \/ (c.kind = "apply" /\ c.obj \in Templates)

\* No object is deleted twice, yurt tunnel comes last, its template is read before its objects are
\* touched, and a nil switch is met before its workloads are.
Before(c, d) ==
  /\ c.kind = "delete" => c # d
  /\ c.obj \in Workloads => d.kind # "panic"
  /\ c.group = "tunnel" => d.group = "tunnel"
  /\ d.kind = "load" => Early(c)

Sorted(s) == \A i, j \in DOMAIN s : i < j => Before(s[i], s[j])

GroupOf == [trans |-> "trans", yurthub |-> "hub", yurttunnel |-> "tunnel"]
TemplateCall(t) == Call(GroupOf[t], "apply", t)
LoadCall  == Call("tunnel", "load", "yurttunnel")
PanicCall == Call("tunnel", "panic", "yurttunnel")
DeleteCall(w) == Call("tunnel", "delete", w)
AgentCall == Call("tunnel", "apply", "agentDS")

\* What calls a pass for w is made of.
Fits(c, w) ==
  /\ c.kind = "delete" => c.obj \notin Templates /\ c.group = "tunnel"
  /\ c.kind = "delete" /\ c.obj \in Workloads => w # "on"
  /\ c.kind = "apply" /\ c.obj \in Workloads => w \in {"on", "nil"}
  /\ c.kind = "apply" /\ c.obj \in Templates => w # "deleted" /\ c = TemplateCall(c.obj)
  /\ c.kind = "load" => c = LoadCall
  /\ c.kind = "panic" => w = "nil"
  /\ c.obj \in Workloads => c.group = "tunnel"

Orderly(s, w) ==
  /\ s \in Seq(RealCalls) /\ Sorted(s)
  /\ \A c \in Range(s) : Fits(c, w)

LEMMA JoinedRange ==
  ASSUME NEW w, NEW a, NEW b, Orderly(a, w), Orderly(b, w)
  PROVE  Range(a \o b) = Range(a) \cup Range(b)
  BY RangeConcatenation DEF Orderly

LEMMA Joined ==
  ASSUME NEW w, NEW a, NEW b, Orderly(a, w), Orderly(b, w),
         \A c \in Range(a), d \in Range(b) : Before(c, d)
  PROVE  Orderly(a \o b, w)
<1>1. a \in Seq(RealCalls) /\ b \in Seq(RealCalls)
  BY DEF Orderly
<1>2. Range(a \o b) = Range(a) \cup Range(b)
  BY JoinedRange
<1>3. a \o b \in Seq(RealCalls)
  BY <1>1, ConcatProperties
<1>4. Sorted(a \o b)
  <2> DEFINE k == Len(a)  l == Len(b)  ab == a \o b
  <2>1. k \in Nat /\ l \in Nat /\ DOMAIN a = 1 .. k /\ DOMAIN b = 1 .. l
    BY <1>1
  <2>2. /\ DOMAIN ab = 1 .. k + l
        /\ \A i \in 1 .. k + l : ab[i] = IF i <= k THEN a[i] ELSE b[i - k]
    BY <1>1, <1>3, ConcatProperties
  <2> HIDE DEF k, l, ab
  <2> SUFFICES ASSUME NEW i \in DOMAIN ab, NEW j \in DOMAIN ab, i < j
               PROVE  Before(ab[i], ab[j])
    BY DEF Sorted, ab
  <2>3. CASE j <= k
    <3>1. i \in DOMAIN a /\ j \in DOMAIN a /\ ab[i] = a[i] /\ ab[j] = a[j]
      BY <2>1, <2>2, <2>3
    <3> QED
      BY <3>1 DEF Orderly, Sorted
  <2>4. CASE i <= k /\ ~(j <= k)
    <3>1. i \in DOMAIN a /\ j - k \in DOMAIN b /\ ab[i] = a[i] /\ ab[j] = b[j - k]
      BY <2>1, <2>2, <2>4
    <3> QED
      BY <3>1 DEF Range
  <2>5. CASE ~(i <= k)
    <3>1. /\ i - k \in DOMAIN b /\ j - k \in DOMAIN b /\ i - k < j - k
          /\ ab[i] = b[i - k] /\ ab[j] = b[j - k]
      BY <2>1, <2>2, <2>5
    <3> QED
      BY <3>1 DEF Orderly, Sorted
  <2>6. i \in Int /\ j \in Int /\ k \in Int
    BY <2>1, <2>2
  <2> QED
    BY <2>3, <2>4, <2>5, <2>6
<1> QED
  BY <1>2, <1>3, <1>4 DEF Orderly

\* Applies or deletes of one group, of objects that differ.
LEMMA Alike ==
  ASSUME NEW w, NEW group \in {"trans", "hub", "tunnel"}, NEW kind \in {"apply", "delete"},
         NEW objects \in Seq(Objects),
         \A i, j \in DOMAIN objects : i < j => objects[i] # objects[j],
         \A o \in Range(objects) : Fits(Call(group, kind, o), w)
  PROVE  /\ Orderly(Calls(group, kind, objects), w)
         /\ Range(Calls(group, kind, objects)) = {Call(group, kind, o) : o \in Range(objects)}
<1> DEFINE s == Calls(group, kind, objects)
<1>1. s \in Seq(RealCalls) /\ DOMAIN s = DOMAIN objects
  <2>1. \A i \in DOMAIN objects : Call(group, kind, objects[i]) \in RealCalls
    BY DEF Call, RealCalls
  <2>2. Len(objects) \in Nat /\ DOMAIN objects = 1 .. Len(objects)
    OBVIOUS
  <2> QED
    BY <2>1, <2>2 DEF Calls
<1>2. Range(s) = {Call(group, kind, o) : o \in Range(objects)}
  BY DEF Calls, Range
<1>3. \A i \in DOMAIN objects : s[i] = Call(group, kind, objects[i])
  BY DEF Calls
<1>4. Sorted(s)
  BY <1>1, <1>3 DEF Sorted, Before, Call
<1> QED
  BY <1>1, <1>2, <1>4 DEF Orderly

LEMMA OneCall ==
  ASSUME NEW w, NEW c \in RealCalls, Fits(c, w)
  PROVE  Orderly(<<c>>, w) /\ Range(<<c>>) = {c}
<1>1. <<c>> \in Seq(RealCalls) /\ DOMAIN <<c>> = {1} /\ <<c>>[1] = c
  OBVIOUS
<1>2. Range(<<c>>) = {c}
  BY <1>1 DEF Range
<1> QED
  BY <1>1, <1>2 DEF Orderly, Sorted

\* Its switches agree, or the one of the server is nil: the pass panics before the agent's matters.
Paired(spec) == spec.server # "nil" => spec.agent = spec.server

SwitchesPaired == \A spec \in InitialSpecs \cup UpdateSpecs : Paired(spec)

LEMMA ServerDeletions ==
  ASSUME NEW w, w # "on"
  PROVE  /\ Orderly(ServerDeletes, w)
         /\ Range(ServerDeletes) = {DeleteCall(o) : o \in ServerObjects \ {"identity", "cfg"}}
<1> DEFINE objects == <<"serverDS", "serverDeploy", "svc", "internalSvc", "nodePortSvc">>
           names == {"serverDS", "serverDeploy", "svc", "internalSvc", "nodePortSvc"}
<1>1. objects \in Seq(Objects) /\ DOMAIN objects = 1 .. 5 /\ Range(objects) = names
  BY DEF Objects, ServerObjects, Range
<1>2. \A i, j \in 1 .. 5 : i < j => objects[i] # objects[j]
  OBVIOUS
<1>3. \A o \in names : Fits(Call("tunnel", "delete", o), w)
  BY DEF Fits, Call, Templates
<1>4. names = ServerObjects \ {"identity", "cfg"}
  BY DEF ServerObjects
<1> HIDE DEF objects, names
<1>6. /\ \A i, j \in DOMAIN objects : i < j => objects[i] # objects[j]
      /\ \A o \in Range(objects) : Fits(Call("tunnel", "delete", o), w)
  BY <1>1, <1>2, <1>3 DEF objects
<1>5. /\ Orderly(Calls("tunnel", "delete", objects), w)
      /\ Range(Calls("tunnel", "delete", objects)) = {Call("tunnel", "delete", o) : o \in names}
  BY <1>1, <1>6, Alike
<1> QED
  BY <1>4, <1>5 DEF objects, ServerDeletes, DeleteCall

LEMMA AgentDeletion ==
  ASSUME NEW w, w # "on"
  PROVE  Orderly(AgentDeletes, w) /\ Range(AgentDeletes) = {DeleteCall("agentDS")}
<1>1. DeleteCall("agentDS") \in RealCalls /\ Fits(DeleteCall("agentDS"), w)
  BY DEF DeleteCall, Call, RealCalls, Objects, Fits, Templates
<1>2. AgentDeletes = <<DeleteCall("agentDS")>>
  BY DEF AgentDeletes, Calls, DeleteCall
<1> QED
  BY <1>1, <1>2, OneCall

LEMMA Loading ==
  ASSUME NEW w
  PROVE  Orderly(LoadTemplate, w) /\ Range(LoadTemplate) = {LoadCall}
<1>1. LoadCall \in RealCalls /\ Fits(LoadCall, w)
  BY DEF LoadCall, Call, RealCalls, Objects, Templates, Fits, Workloads
<1> QED
  BY <1>1, OneCall DEF LoadTemplate, LoadCall

\* The pass over a deleted object reads the template and then deletes every workload.
LEMMA DeletePlanOrderly ==
  /\ Orderly(DeletePlan, "deleted")
  /\ LoadCall \in Range(DeletePlan)
  /\ \A o \in Workloads : DeleteCall(o) \in Range(DeletePlan)
<1> DEFINE l == LoadTemplate  s == ServerDeletes  a == AgentDeletes
<1>1. /\ Orderly(l, "deleted") /\ Range(l) = {LoadCall}
      /\ Orderly(s, "deleted")
      /\ Range(s) = {DeleteCall(o) : o \in ServerObjects \ {"identity", "cfg"}}
      /\ Orderly(a, "deleted") /\ Range(a) = {DeleteCall("agentDS")}
  BY Loading, ServerDeletions, AgentDeletion
<1> HIDE DEF l, s, a
<1>2. \A c \in Range(l), d \in Range(s) : Before(c, d)
  <2> SUFFICES ASSUME NEW o PROVE Before(LoadCall, DeleteCall(o))
    BY <1>1
  <2> QED
    BY DEF Before, LoadCall, DeleteCall, Call, Workloads
<1>3. Orderly(l \o s, "deleted") /\ Range(l \o s) = Range(l) \cup Range(s)
  BY <1>1, <1>2, Joined, JoinedRange
<1>4. \A c \in Range(l \o s), d \in Range(a) : Before(c, d)
  BY <1>1, <1>3 DEF Before, LoadCall, DeleteCall, Call, Workloads, ServerObjects
<1>5. /\ Orderly((l \o s) \o a, "deleted")
      /\ Range((l \o s) \o a) = Range(l \o s) \cup Range(a)
  BY <1>1, <1>3, <1>4, Joined, JoinedRange
<1>6. DeletePlan = (l \o s) \o a
  BY DEF DeletePlan, l, s, a
<1> QED
  BY <1>1, <1>3, <1>5, <1>6 DEF Workloads, ServerObjects

ServerCalls(spec) == Switched(spec.server, ServerApplies(spec), ServerDeletes)
AgentCalls(spec)  == Switched(spec.agent, Calls("tunnel", "apply", <<"agentDS">>), AgentDeletes)

LEMMA Panicking ==
  /\ Orderly(<<PanicCall>>, "nil") /\ Range(<<PanicCall>>) = {PanicCall}
  /\ PanicCall = Call("tunnel", "panic", "yurttunnel")
<1>1. PanicCall \in RealCalls /\ Fits(PanicCall, "nil")
  BY DEF PanicCall, Call, RealCalls, Objects, Templates, Fits, Workloads
<1> QED
  BY <1>1, OneCall DEF PanicCall

\* An apply of one object, or none.
LEMMA OneApply ==
  ASSUME NEW w \in {"on", "nil"}, NEW o \in {"nodePortSvc", "agentDS"}
  PROVE  /\ Orderly(Calls("tunnel", "apply", <<o>>), w)
         /\ Range(Calls("tunnel", "apply", <<o>>)) = {Call("tunnel", "apply", o)}
<1>1. Call("tunnel", "apply", o) \in RealCalls /\ Fits(Call("tunnel", "apply", o), w)
  BY DEF Call, RealCalls, Objects, ServerObjects, Fits, Templates, Workloads
<1>2. Calls("tunnel", "apply", <<o>>) = <<Call("tunnel", "apply", o)>>
  BY DEF Calls
<1> QED
  BY <1>1, <1>2, OneCall

LEMMA NoCalls ==
  ASSUME NEW w
  PROVE  Orderly(<<>>, w) /\ Range(<<>>) = {}
<1>1. <<>> \in Seq(RealCalls) /\ DOMAIN <<>> = {}
  OBVIOUS
<1> QED
  BY <1>1 DEF Orderly, Sorted, Range

LEMMA ServerOn ==
  ASSUME NEW spec \in Specs
  PROVE  /\ Orderly(ServerApplies(spec), "on")
         /\ \A c \in Range(ServerApplies(spec)) :
              /\ c.group = "tunnel" /\ c.obj # "agentDS"
              /\ c.kind = "apply" \/ c = DeleteCall("nodePortSvc")
<1> DEFINE objects == <<"identity", "svc", "internalSvc", "cfg", "serverDS", "serverDeploy">>
           names == {"identity", "svc", "internalSvc", "cfg", "serverDS", "serverDeploy"}
           a == When(~spec.publicIP, Calls("tunnel", "delete", <<"nodePortSvc">>))
           b == Calls("tunnel", "apply", objects)
           c == When(spec.publicIP, Calls("tunnel", "apply", <<"nodePortSvc">>))
<1>1. Orderly(a, "on") /\ Range(a) \subseteq {DeleteCall("nodePortSvc")}
  <2>1. DeleteCall("nodePortSvc") \in RealCalls /\ Fits(DeleteCall("nodePortSvc"), "on")
    BY DEF DeleteCall, Call, RealCalls, Objects, ServerObjects, Fits, Templates, Workloads
  <2>2. Calls("tunnel", "delete", <<"nodePortSvc">>) = <<DeleteCall("nodePortSvc")>>
    BY DEF Calls, DeleteCall
  <2> QED
    BY <2>1, <2>2, OneCall, NoCalls DEF When
<1>2. Orderly(b, "on") /\ Range(b) = {Call("tunnel", "apply", o) : o \in names}
  <2>1. objects \in Seq(Objects) /\ DOMAIN objects = 1 .. 6 /\ Range(objects) = names
    BY DEF Objects, ServerObjects, Range
  <2>2. \A i, j \in 1 .. 6 : i < j => objects[i] # objects[j]
    OBVIOUS
  <2>3. \A o \in names : Fits(Call("tunnel", "apply", o), "on")
    BY DEF Fits, Call, Templates
  <2> HIDE DEF objects, names
  <2>4. /\ \A i, j \in DOMAIN objects : i < j => objects[i] # objects[j]
        /\ \A o \in Range(objects) : Fits(Call("tunnel", "apply", o), "on")
    BY <2>1, <2>2, <2>3
  <2> QED
    BY <2>1, <2>4, Alike
<1>3. Orderly(c, "on") /\ Range(c) \subseteq {Call("tunnel", "apply", "nodePortSvc")}
  BY OneApply, NoCalls DEF When
<1>4. ServerApplies(spec) = (a \o b) \o c
  BY DEF ServerApplies
<1> HIDE DEF a, b, c, objects
<1>5. \A x \in Range(a), y \in Range(b) : Before(x, y)
  BY <1>1, <1>2 DEF Before, DeleteCall, Call
<1>6. Orderly(a \o b, "on") /\ Range(a \o b) = Range(a) \cup Range(b)
  BY <1>1, <1>2, <1>5, Joined, JoinedRange
<1>7. \A x \in Range(a \o b), y \in Range(c) : Before(x, y)
  BY <1>1, <1>2, <1>3, <1>6 DEF Before, DeleteCall, Call
<1>8. /\ Orderly((a \o b) \o c, "on")
      /\ Range((a \o b) \o c) = Range(a \o b) \cup Range(c)
  BY <1>3, <1>6, <1>7, Joined, JoinedRange
<1>9. ASSUME NEW x \in Range(ServerApplies(spec))
      PROVE  /\ x.group = "tunnel" /\ x.obj # "agentDS"
             /\ x.kind = "apply" \/ x = DeleteCall("nodePortSvc")
  <2>1. x \in Range(a) \cup Range(b) \cup Range(c)
    BY <1>4, <1>6, <1>8, <1>9
  <2> QED
    BY <1>1, <1>2, <1>3, <2>1 DEF Call, DeleteCall
<1> QED
  BY <1>4, <1>8, <1>9

\* What the calls for the server and for the agent are made of.
LEMMA ServerPart ==
  ASSUME NEW spec \in Specs
  PROVE  /\ Orderly(ServerCalls(spec), spec.server)
         /\ \A c \in Range(ServerCalls(spec)) :
              /\ c.group = "tunnel" /\ c.obj # "agentDS" /\ c.kind # "load"
              /\ c.kind = "panic" => spec.server = "nil"
              /\ spec.server = "nil" => c = PanicCall
         /\ spec.server = "off" =>
              \A w \in Workloads \ {"agentDS"} : DeleteCall(w) \in Range(ServerCalls(spec))
         /\ spec.server = "nil" => PanicCall \in Range(ServerCalls(spec))
<1>1. CASE spec.server = "on"
  <2>1. ServerCalls(spec) = ServerApplies(spec)
    BY <1>1 DEF ServerCalls, Switched
  <2> QED
    BY <1>1, <2>1, ServerOn DEF DeleteCall, Call
<1>2. CASE spec.server = "off"
  <2>1. ServerCalls(spec) = ServerDeletes
    BY <1>2 DEF ServerCalls, Switched
  <2>2. ASSUME NEW o \in ServerObjects \ {"identity", "cfg"}
        PROVE  LET c == DeleteCall(o)
               IN  c.group = "tunnel" /\ c.obj # "agentDS" /\ c.kind = "delete"
    BY DEF DeleteCall, Call, ServerObjects
  <2>3. Workloads \ {"agentDS"} \subseteq ServerObjects \ {"identity", "cfg"}
    BY DEF Workloads, ServerObjects
  <2> QED
    BY <1>2, <2>1, <2>2, <2>3, ServerDeletions
<1>3. CASE spec.server = "nil"
  <2>1. ServerCalls(spec) = <<PanicCall>>
    BY <1>3, Panicking DEF ServerCalls, Switched
  <2> QED
    BY <1>3, <2>1, Panicking DEF Call
<1> QED
  BY <1>1, <1>2, <1>3 DEF Specs

LEMMA AgentPart ==
  ASSUME NEW spec \in Specs, NEW w, w = spec.agent \/ w = "nil"
  PROVE  /\ Orderly(AgentCalls(spec), w)
         /\ \A c \in Range(AgentCalls(spec)) :
              /\ c.group = "tunnel" /\ c.kind # "load"
              /\ c.kind = "panic" => spec.agent = "nil"
              /\ c.kind = "delete" => c.obj = "agentDS"
         /\ spec.agent = "off" => DeleteCall("agentDS") \in Range(AgentCalls(spec))
         /\ spec.agent = "on" => AgentCall \in Range(AgentCalls(spec))
<1>1. CASE spec.agent = "on"
  <2>1. AgentCalls(spec) = Calls("tunnel", "apply", <<"agentDS">>)
    BY <1>1 DEF AgentCalls, Switched
  <2>2. w \in {"on", "nil"}
    BY <1>1
  <2>3. Orderly(AgentCalls(spec), w) /\ Range(AgentCalls(spec)) = {AgentCall}
    BY <2>1, <2>2, OneApply DEF AgentCall
  <2> QED
    BY <1>1, <2>3 DEF AgentCall, Call
<1>2. CASE spec.agent = "off"
  <2>1. AgentCalls(spec) = AgentDeletes /\ w # "on"
    BY <1>2 DEF AgentCalls, Switched
  <2>2. Orderly(AgentCalls(spec), w) /\ Range(AgentCalls(spec)) = {DeleteCall("agentDS")}
    BY <2>1, AgentDeletion
  <2> QED
    BY <1>2, <2>2 DEF DeleteCall, Call
<1>3. CASE spec.agent = "nil"
  <2>1. AgentCalls(spec) = <<PanicCall>> /\ w = "nil"
    BY <1>3, Panicking DEF AgentCalls, Switched
  <2> QED
    BY <1>3, <2>1, Panicking DEF Call
<1> QED
  BY <1>1, <1>2, <1>3 DEF Specs

FrontCalls ==
  Calls("trans", "apply", <<"trans">>)
    \o Calls("hub", "apply", <<"yurthub">>) \o Calls("hub", "grant", <<"role", "binding">>)
    \o Calls("tunnel", "apply", <<"yurttunnel">>) \o LoadTemplate

LEMMA OneTemplate ==
  ASSUME NEW w, w # "deleted", NEW t \in Templates
  PROVE  /\ Orderly(Calls(GroupOf[t], "apply", <<t>>), w)
         /\ Range(Calls(GroupOf[t], "apply", <<t>>)) = {TemplateCall(t)}
<1>1. TemplateCall(t) \in RealCalls /\ Fits(TemplateCall(t), w)
  BY DEF TemplateCall, GroupOf, Call, RealCalls, Objects, Fits, Templates, Workloads
<1>2. Calls(GroupOf[t], "apply", <<t>>) = <<TemplateCall(t)>>
  BY DEF Calls, TemplateCall
<1> QED
  BY <1>1, <1>2, OneCall

LEMMA Granting ==
  ASSUME NEW w
  PROVE  /\ Orderly(Calls("hub", "grant", <<"role", "binding">>), w)
         /\ Range(Calls("hub", "grant", <<"role", "binding">>)) =
              {Call("hub", "grant", "role"), Call("hub", "grant", "binding")}
<1> DEFINE r == Call("hub", "grant", "role")  b == Call("hub", "grant", "binding")
<1>1. /\ r \in RealCalls /\ Fits(r, w) /\ b \in RealCalls /\ Fits(b, w) /\ Before(r, b)
  BY DEF Call, RealCalls, Grants, Fits, Workloads, Before
<1>2. Calls("hub", "grant", <<"role", "binding">>) = <<r, b>>
  BY DEF Calls
<1> HIDE DEF r, b
<1>3. /\ <<r, b>> \in Seq(RealCalls) /\ DOMAIN <<r, b>> = 1 .. 2
      /\ <<r, b>>[1] = r /\ <<r, b>>[2] = b
  BY <1>1
<1>4. Range(<<r, b>>) = {r, b}
  BY <1>3 DEF Range
<1>5. Sorted(<<r, b>>)
  <2> SUFFICES ASSUME NEW i \in 1 .. 2, NEW j \in 1 .. 2, i < j
               PROVE  Before(<<r, b>>[i], <<r, b>>[j])
    BY <1>3 DEF Sorted
  <2>1. i = 1 /\ j = 2
    OBVIOUS
  <2> QED
    BY <1>1, <1>3, <2>1
<1>6. Orderly(<<r, b>>, w)
  BY <1>1, <1>3, <1>4, <1>5 DEF Orderly
<1> QED
  BY <1>2, <1>4, <1>6 DEF r, b

LEMMA Front ==
  ASSUME NEW w, w # "deleted"
  PROVE  /\ Orderly(FrontCalls, w)
         /\ \A t \in Templates : TemplateCall(t) \in Range(FrontCalls)
         /\ LoadCall \in Range(FrontCalls)
         /\ \A c \in Range(FrontCalls) : c.kind # "delete" /\ c.obj \notin Workloads
<1> DEFINE a == Calls("trans", "apply", <<"trans">>)
           b == Calls("hub", "apply", <<"yurthub">>)
           g == Calls("hub", "grant", <<"role", "binding">>)
           t == Calls("tunnel", "apply", <<"yurttunnel">>)
           l == LoadTemplate
           ab == a \o b  abg == ab \o g  abgt == abg \o t
           gr == Call("hub", "grant", "role")  gb == Call("hub", "grant", "binding")
<1>1. Orderly(a, w) /\ Range(a) = {TemplateCall("trans")}
  BY OneTemplate DEF Templates, GroupOf
<1>2. Orderly(b, w) /\ Range(b) = {TemplateCall("yurthub")}
  BY OneTemplate DEF Templates, GroupOf
<1>3. Orderly(g, w) /\ Range(g) = {gr, gb}
  BY Granting
<1>4. Orderly(t, w) /\ Range(t) = {TemplateCall("yurttunnel")}
  BY OneTemplate DEF Templates, GroupOf
<1>5. Orderly(l, w) /\ Range(l) = {LoadCall}
  BY Loading
<1>6. FrontCalls = abgt \o l
  BY DEF FrontCalls
<1> HIDE DEF a, b, g, t, l
<1>11. Orderly(ab, w) /\ Range(ab) = {TemplateCall("trans"), TemplateCall("yurthub")}
  <2>1. \A c \in Range(a), d \in Range(b) : Before(c, d)
    BY <1>1, <1>2 DEF Before, TemplateCall, GroupOf, Call
  <2>2. Orderly(a \o b, w) /\ Range(a \o b) = Range(a) \cup Range(b)
    BY <1>1, <1>2, <2>1, Joined, JoinedRange
  <2> QED
    BY <1>1, <1>2, <2>2
<1> HIDE DEF ab
<1>12. Orderly(abg, w) /\ Range(abg) = {TemplateCall("trans"), TemplateCall("yurthub"), gr, gb}
  <2>1. \A c \in Range(ab), d \in Range(g) : Before(c, d)
    BY <1>11, <1>3 DEF Before, TemplateCall, GroupOf, Call
  <2>2. Orderly(ab \o g, w) /\ Range(ab \o g) = Range(ab) \cup Range(g)
    BY <1>11, <1>3, <2>1, Joined, JoinedRange
  <2> QED
    BY <1>11, <1>3, <2>2 DEF abg
<1> HIDE DEF abg
<1>13. /\ Orderly(abgt, w)
       /\ Range(abgt) = {TemplateCall("trans"), TemplateCall("yurthub"), gr, gb,
                         TemplateCall("yurttunnel")}
  <2>1. \A c \in Range(abg), d \in Range(t) : Before(c, d)
    BY <1>12, <1>4 DEF Before, TemplateCall, GroupOf, Call, Workloads
  <2>2. Orderly(abg \o t, w) /\ Range(abg \o t) = Range(abg) \cup Range(t)
    BY <1>12, <1>4, <2>1, Joined, JoinedRange
  <2> QED
    BY <1>12, <1>4, <2>2 DEF abgt
<1> HIDE DEF abgt
<1>14. /\ Orderly(FrontCalls, w)
       /\ Range(FrontCalls) = {TemplateCall("trans"), TemplateCall("yurthub"), gr, gb,
                               TemplateCall("yurttunnel"), LoadCall}
  <2>1. \A c \in Range(abgt), d \in Range(l) : Before(c, d)
    BY <1>13, <1>5
       DEF Before, Early, LoadCall, TemplateCall, GroupOf, Call, Workloads, Templates
  <2>2. Orderly(abgt \o l, w) /\ Range(abgt \o l) = Range(abgt) \cup Range(l)
    BY <1>13, <1>5, <2>1, Joined, JoinedRange
  <2> QED
    BY <1>13, <1>5, <1>6, <2>2
<1>15. \A c \in Range(FrontCalls) : c.kind # "delete" /\ c.obj \notin Workloads
  BY <1>14 DEF TemplateCall, GroupOf, LoadCall, Call, Workloads
<1>16. \A x \in Templates : TemplateCall(x) \in Range(FrontCalls)
  BY <1>14 DEF Templates
<1> QED
  BY <1>14, <1>15, <1>16

LEMMA PlanParts ==
  ASSUME NEW spec
  PROVE  ApplyPlan(spec) = (FrontCalls \o ServerCalls(spec)) \o AgentCalls(spec)
  BY DEF ApplyPlan, FrontCalls, ServerCalls, AgentCalls

\* The pass over an object applies every template, then reads the one of yurt tunnel, then does
\* what the switches say, and panics where the one of the server is nil.
LEMMA ApplyPlanOrderly ==
  ASSUME NEW spec \in Specs, Paired(spec)
  PROVE  /\ Orderly(ApplyPlan(spec), spec.server)
         /\ \A t \in Templates : TemplateCall(t) \in Range(ApplyPlan(spec))
         /\ LoadCall \in Range(ApplyPlan(spec))
         /\ spec.server = "on" => AgentCall \in Range(ApplyPlan(spec))
         /\ spec.server = "off" => \A w \in Workloads : DeleteCall(w) \in Range(ApplyPlan(spec))
         /\ spec.server = "nil" => PanicCall \in Range(ApplyPlan(spec))
<1> DEFINE w == spec.server  f == FrontCalls  s == ServerCalls(spec)  a == AgentCalls(spec)
<1>1. w \in {"on", "off", "nil"} /\ (w = spec.agent \/ w = "nil")
  BY DEF Specs, Paired
<1>2. /\ Orderly(f, w)
      /\ \A t \in Templates : TemplateCall(t) \in Range(f)
      /\ LoadCall \in Range(f)
      /\ \A c \in Range(f) : c.kind # "delete" /\ c.obj \notin Workloads
  BY <1>1, Front
<1>3. /\ Orderly(s, w)
      /\ \A c \in Range(s) :
           /\ c.group = "tunnel" /\ c.obj # "agentDS" /\ c.kind # "load"
           /\ c.kind = "panic" => w = "nil"
           /\ w = "nil" => c = PanicCall
      /\ w = "off" => \A o \in Workloads \ {"agentDS"} : DeleteCall(o) \in Range(s)
      /\ w = "nil" => PanicCall \in Range(s)
  BY ServerPart
<1>4. /\ Orderly(a, w)
      /\ \A c \in Range(a) :
           /\ c.group = "tunnel" /\ c.kind # "load"
           /\ c.kind = "panic" => spec.agent = "nil"
           /\ c.kind = "delete" => c.obj = "agentDS"
      /\ spec.agent = "off" => DeleteCall("agentDS") \in Range(a)
      /\ spec.agent = "on" => AgentCall \in Range(a)
  BY <1>1, AgentPart
<1>5. ApplyPlan(spec) = (f \o s) \o a
  BY PlanParts
<1> HIDE DEF f, s, a
<1>6. \A c \in Range(f), d \in Range(s) : Before(c, d)
  BY <1>2, <1>3 DEF Before
<1>7. Orderly(f \o s, w) /\ Range(f \o s) = Range(f) \cup Range(s)
  BY <1>2, <1>3, <1>6, Joined, JoinedRange
<1>8. \A c \in Range(f \o s), d \in Range(a) : Before(c, d)
  <2> SUFFICES ASSUME NEW c \in Range(f) \cup Range(s), NEW d \in Range(a) PROVE Before(c, d)
    BY <1>7
  <2>1. c.kind = "delete" => c # d
    BY <1>2, <1>3, <1>4
  <2>2. c.obj \in Workloads => d.kind # "panic"
    <3>1. PanicCall.obj \notin Workloads
      BY DEF PanicCall, Call, Workloads
    <3> QED
      BY <1>1, <1>2, <1>3, <1>4, <3>1
  <2> QED
    BY <1>4, <2>1, <2>2 DEF Before
<1>9. /\ Orderly((f \o s) \o a, w)
      /\ Range((f \o s) \o a) = Range(f \o s) \cup Range(a)
  BY <1>4, <1>7, <1>8, Joined, JoinedRange
<1>10. w = "off" => \A o \in Workloads : DeleteCall(o) \in Range(s) \cup Range(a)
  BY <1>1, <1>3, <1>4
<1>11. w = "on" => AgentCall \in Range(a)
  BY <1>1, <1>4
<1> QED
  BY <1>2, <1>3, <1>5, <1>7, <1>9, <1>10, <1>11

\* The switches need not agree for the plan to be made of calls.
LEMMA PlansTyped ==
  ASSUME NEW spec \in Specs
  PROVE  ApplyPlan(spec) \in Seq(RealCalls) /\ DeletePlan \in Seq(RealCalls)
<1>1. FrontCalls \in Seq(RealCalls)
  BY Front DEF Orderly
<1>2. ServerCalls(spec) \in Seq(RealCalls) /\ AgentCalls(spec) \in Seq(RealCalls)
  BY ServerPart, AgentPart DEF Orderly
<1>3. (FrontCalls \o ServerCalls(spec)) \o AgentCalls(spec) \in Seq(RealCalls)
  BY <1>1, <1>2, ConcatProperties
<1> QED
  BY <1>3, PlanParts, DeletePlanOrderly DEF Orderly

----------------------------------------------------------------------------
(* What is left of a plan *)

LEMMA First ==
  ASSUME todo \in Seq(RealCalls), todo # <<>>
  PROVE  /\ Current \in RealCalls /\ Current \in Left
         /\ Sorted(todo) => \A c \in Left : c = Current \/ Before(Current, c)
<1>1. /\ Len(todo) \in Nat /\ Len(todo) # 0 /\ DOMAIN todo = 1 .. Len(todo)
      /\ Current = todo[1]
  BY DEF Current
<1>2. 1 \in DOMAIN todo /\ todo[1] \in RealCalls
  BY <1>1
<1>3. ASSUME Sorted(todo), NEW i \in DOMAIN todo PROVE todo[i] = Current \/ Before(Current, todo[i])
  <2>1. CASE i = 1
    BY <1>1, <2>1
  <2>2. CASE i # 1
    <3>1. 1 < i
      BY <1>1, <2>2
    <3> QED
      BY <1>1, <1>2, <1>3, <3>1 DEF Sorted
  <2> QED
    BY <2>1, <2>2
<1> QED
  BY <1>1, <1>2, <1>3 DEF Left, Range

\* The end of a plan is as orderly as the plan, and has all calls but those cut off in front.
LEMMA Rest ==
  ASSUME todo \in Seq(RealCalls), NEW n \in 1 .. Len(todo), todo' = SubSeq(todo, n + 1, Len(todo))
  PROVE  /\ todo' \in Seq(RealCalls) /\ Left' \subseteq Left
         /\ Sorted(todo) => Sorted(todo')
         /\ \A i \in n + 1 .. Len(todo) : todo[i] \in Left'
         /\ \A c \in Left' : \E i \in n + 1 .. Len(todo) : c = todo[i]
<1> DEFINE l == Len(todo)
<1>1. l \in Nat /\ n \in Nat /\ n <= l /\ DOMAIN todo = 1 .. l
  OBVIOUS
<1>2. /\ todo' \in Seq(RealCalls) /\ DOMAIN todo' = 1 .. l - n
      /\ \A i \in 1 .. l - n : todo'[i] = todo[n + i]
  <2> DEFINE m == n + 1  k == l - n
  <2>3. todo' = SubSeq(todo, m, l)
    OBVIOUS
  <2> HIDE DEF l
  <2>1. /\ m \in Int /\ l \in Int /\ k \in Nat
        /\ (IF m <= l THEN l - m + 1 ELSE 0) = k /\ l - m + 1 = k
        /\ \A i \in 1 .. k : m + i - 1 = n + i
    BY <1>1
  <2>2. \A i \in m .. l : todo[i] \in RealCalls
    <3>1. \A i \in m .. l : i \in 1 .. l
      BY <1>1
    <3> QED
      BY <1>1, <3>1
  <2> HIDE DEF m, k
  <2>4. /\ todo' \in Seq(RealCalls)
        /\ Len(todo') = (IF m <= l THEN l - m + 1 ELSE 0)
        /\ \A i \in 1 .. l - m + 1 : todo'[i] = todo[m + i - 1]
    <3>1. SubSeq(todo, m, l) \in Seq(RealCalls)
      BY <2>1, <2>2, SubSeqProperties
    <3>2. Len(SubSeq(todo, m, l)) = (IF m <= l THEN l - m + 1 ELSE 0)
      BY <2>1, <2>2, SubSeqProperties
    <3>3. \A i \in 1 .. l - m + 1 : SubSeq(todo, m, l)[i] = todo[m + i - 1]
      BY <2>1, <2>2, SubSeqProperties
    <3> QED
      BY <2>3, <3>1, <3>2, <3>3
  <2>5. Len(todo') = k /\ \A i \in 1 .. k : todo'[i] = todo[m + i - 1]
    BY <2>1, <2>4
  <2>6. DOMAIN todo' = 1 .. k
    BY <2>4, <2>5
  <2> QED
    BY <2>1, <2>4, <2>5, <2>6 DEF k
<1> HIDE DEF l
<1>3. \A i \in 1 .. l - n : n + i \in DOMAIN todo /\ n + i \in n + 1 .. l
  BY <1>1
<1>4. \A i \in n + 1 .. l : i - n \in 1 .. l - n /\ n + (i - n) = i
  BY <1>1
<1>5. Left' \subseteq Left
  BY <1>2, <1>3 DEF Left, Range
<1>6. ASSUME Sorted(todo) PROVE Sorted(todo')
  <2> SUFFICES ASSUME NEW i \in 1 .. l - n, NEW j \in 1 .. l - n, i < j
               PROVE  Before(todo'[i], todo'[j])
    BY <1>2 DEF Sorted
  <2>1. n + i < n + j
    BY <1>1
  <2> QED
    BY <1>2, <1>3, <1>6, <2>1 DEF Sorted
<1>7. ASSUME NEW i \in n + 1 .. l PROVE todo[i] \in Left'
  <2>1. i - n \in DOMAIN todo' /\ todo'[i - n] = todo[n + (i - n)]
    BY <1>2, <1>4
  <2> QED
    BY <1>4, <2>1 DEF Left, Range
<1>8. \A c \in Left' : \E i \in n + 1 .. l : c = todo[i]
  BY <1>2, <1>3 DEF Left, Range
<1> QED
  BY <1>2, <1>5, <1>6, <1>7, <1>8 DEF l

LEMMA OnwardLeft ==
  ASSUME todo \in Seq(RealCalls), todo # <<>>, Onward
  PROVE  /\ todo' \in Seq(RealCalls) /\ Left' \subseteq Left
         /\ \A c \in Left : c = Current \/ c \in Left'
         /\ Sorted(todo) => /\ Sorted(todo')
                            /\ \A c \in Left' : Before(Current, c)
<1>1. Len(todo) \in Nat /\ 1 \in 1 .. Len(todo) /\ DOMAIN todo = 1 .. Len(todo)
  OBVIOUS
<1>2. todo' = SubSeq(todo, 1 + 1, Len(todo))
  BY HeadTailProperties, TailIsSubSeq DEF Onward
<1>3. Current = todo[1]
  BY DEF Current
<1>4. \A i \in 1 .. Len(todo) : i = 1 \/ i \in 1 + 1 .. Len(todo)
  BY <1>1
<1>5. /\ todo' \in Seq(RealCalls) /\ Left' \subseteq Left
      /\ Sorted(todo) => Sorted(todo')
      /\ \A i \in 1 + 1 .. Len(todo) : todo[i] \in Left'
      /\ \A c \in Left' : \E i \in 1 + 1 .. Len(todo) : c = todo[i]
  BY <1>1, <1>2, Rest
<1>6. \A c \in Left : c = Current \/ c \in Left'
  BY <1>1, <1>3, <1>4, <1>5 DEF Left, Range
<1>7. ASSUME Sorted(todo), NEW c \in Left' PROVE Before(Current, c)
  <2>1. PICK i \in 1 + 1 .. Len(todo) : c = todo[i]
    BY <1>5
  <2>2. i \in DOMAIN todo /\ 1 < i
    BY <1>1
  <2> QED
    BY <1>1, <1>3, <1>7, <2>1, <2>2 DEF Sorted
<1> QED
  BY <1>5, <1>6, <1>7

LEMMA GiveUpLeft ==
  ASSUME todo \in Seq(RealCalls), todo # <<>>, GiveUp
  PROVE  /\ todo' \in Seq(RealCalls) /\ Left' \subseteq Left
         /\ \A c \in Left : c.group = Current.group \/ c \in Left'
         /\ Sorted(todo) => /\ Sorted(todo')
                            /\ Current.group = "tunnel" => todo' = <<>>
<1>1. PICK n \in 1 .. Len(todo) :
        /\ \A i \in 1 .. n : todo[i].group = Current.group
        /\ n < Len(todo) => todo[n + 1].group # Current.group
        /\ todo' = SubSeq(todo, n + 1, Len(todo))
  BY DEF GiveUp
<1>2. /\ Len(todo) \in Nat /\ n \in Nat /\ n <= Len(todo) /\ DOMAIN todo = 1 .. Len(todo)
      /\ \A i \in 1 .. Len(todo) : i \in 1 .. n \/ i \in n + 1 .. Len(todo)
  OBVIOUS
<1>3. /\ todo' \in Seq(RealCalls) /\ Left' \subseteq Left
      /\ Sorted(todo) => Sorted(todo')
      /\ \A i \in n + 1 .. Len(todo) : todo[i] \in Left'
  BY <1>1, Rest
<1>4. \A c \in Left : c.group = Current.group \/ c \in Left'
  BY <1>1, <1>2, <1>3 DEF Left, Range
<1>5. ASSUME Sorted(todo), Current.group = "tunnel" PROVE todo' = <<>>
  <2>1. CASE n < Len(todo)
    <3>1. n + 1 \in DOMAIN todo /\ 1 \in DOMAIN todo /\ 1 < n + 1 /\ Current = todo[1]
      BY <1>2, <2>1 DEF Current
    <3>2. Before(Current, todo[n + 1])
      BY <1>5, <3>1 DEF Sorted
    <3> QED
      BY <1>1, <1>5, <2>1, <3>2 DEF Before
  <2>2. CASE ~(n < Len(todo))
    <3> DEFINE l == Len(todo)
    <3>1. l \in Nat /\ n \in Nat /\ n <= l /\ ~(n < l)
      BY <1>2, <2>2
    <3>2. todo' = SubSeq(todo, n + 1, l)
      BY <1>1
    <3> HIDE DEF l
    <3>3. n + 1 \in Int /\ l \in Int /\ l < n + 1
      BY <3>1
    <3> QED
      BY <3>2, <3>3, SubSeqEmpty
  <2> QED
    BY <2>1, <2>2
<1> QED
  BY <1>3, <1>4, <1>5

----------------------------------------------------------------------------
(* Types *)

TypeInv == TypeOK /\ todo \in Seq(RealCalls)

Attributes == [exists : BOOLEAN, skip : BOOLEAN, edited : BOOLEAN, count : Nat, replicas : Nat]

\* The variables that no call of a pass touches.
Around == <<yc, cp, cacheVars, asked, running, before, outcomeVars>>

LEMMA RealCallsTyped ==
  Seq(RealCalls) \subseteq
    Seq([group : {"trans", "hub", "tunnel"},
         kind : {"apply", "delete", "grant", "load", "panic"}, obj : Objects \cup Grants])
<1> DEFINE C == [group : {"trans", "hub", "tunnel"},
                 kind : {"apply", "delete", "grant", "load", "panic"}, obj : Objects \cup Grants]
<1>1. RealCalls \subseteq C
  BY DEF RealCalls
<1> HIDE DEF C
<1>2. Seq(RealCalls) \subseteq Seq(C)
  BY <1>1, SeqMonotonic
<1> QED
  BY <1>2 DEF C

LEMMA CallIsOver ==
  ASSUME Onward \/ GiveUp
  PROVE  step' = "look" /\ copy' = NoGrant /\ copy' \in Grant
<1>1. step' = "look" /\ copy' = NoGrant
  BY DEF Onward, GiveUp
<1> QED
  BY <1>1 DEF NoGrant, Grant

LEMMA GivingUp == GiveUp => errs' = TRUE
  BY DEF GiveUp

LEMMA BoundsStep ==
  ASSUME TypeInv, UNCHANGED boundVars \/ Fault \/ Move
  PROVE  moves' \in Nat /\ faults' \in Nat
  BY DEF TypeInv, TypeOK, boundVars, Fault, Move

LEMMA ManifestTyped ==
  ASSUME TypeInv, NEW o \in Objects
  PROVE  Manifest(o, asked.spec, size) \in Attributes
<1>1. /\ asked.spec.serverCount \in Nat /\ size \in Nat /\ obj[o].skip \in BOOLEAN
  BY DEF TypeInv, TypeOK, Specs
<1>2. ServersTotal(asked.spec, size) \in Nat /\ ExtraServers(asked.spec, size) \in Nat
  BY <1>1 DEF ServersTotal, ExtraServers, Larger
<1>3. (o \in MarkedByManifest \/ obj[o].skip) \in BOOLEAN
  BY <1>1
<1> QED
  BY <1>2, <1>3 DEF Manifest, Attributes

\* A call of a pass that changes some of the cluster, and takes the pass on.
LEMMA CallTyped ==
  ASSUME TypeInv, UNCHANGED Around,
         obj' \in [Objects -> Attributes], rbac' \in [Grants -> Grant],
         todo' \in Seq(RealCalls), step' \in {"look", "get", "write"}, copy' \in Grant,
         size' \in Nat, fresh' \in BOOLEAN, errs' \in BOOLEAN, missing' \in BOOLEAN,
         UNCHANGED boundVars \/ Fault
  PROVE  TypeInv'
<1>1. moves' \in Nat /\ faults' \in Nat
  BY BoundsStep
<1>2. UNCHANGED <<yc, cp, seenYC, seenCP, asked, running, before, result, missed>>
  BY DEF Around, cacheVars, outcomeVars
<1>3. /\ yc' \in [exists : BOOLEAN, deleting : BOOLEAN, spec : Specs]
      /\ seenYC' \in [exists : BOOLEAN, deleting : BOOLEAN, spec : Specs]
      /\ asked' \in [exists : BOOLEAN, deleting : BOOLEAN, spec : Specs]
      /\ before' \in [tpls : SUBSET Templates, up : BOOLEAN]
  BY <1>2 DEF TypeInv, TypeOK
<1>4. cp' \in Nat /\ seenCP' \in Nat /\ running' \in BOOLEAN /\ missed' \in BOOLEAN
      /\ result' \in {"none", "ok", "error", "panic"}
  BY <1>2 DEF TypeInv, TypeOK
<1> QED
  BY <1>1, <1>3, <1>4, RealCallsTyped DEF TypeInv, TypeOK, Attributes, Grant

LEMMA CallsOn ==
  ASSUME TypeInv, todo # <<>>, Onward \/ GiveUp
  PROVE  todo' \in Seq(RealCalls) /\ step' = "look" /\ copy' \in Grant
<1>1. todo' \in Seq(RealCalls)
  BY OnwardLeft, GiveUpLeft DEF TypeInv
<1> QED
  BY <1>1, CallIsOver

LEMMA TypesStep ==
  ASSUME TypeInv, [Next]_vars
  PROVE  TypeInv'
<1>1. /\ todo \in Seq(RealCalls) /\ obj \in [Objects -> Attributes] /\ rbac \in [Grants -> Grant]
      /\ copy \in Grant /\ size \in Nat /\ fresh \in BOOLEAN /\ errs \in BOOLEAN
      /\ missing \in BOOLEAN
  BY DEF TypeInv, TypeOK, Attributes, Grant
<1>2. ASSUME todo # <<>> PROVE Current \in RealCalls
  BY <1>1, <1>2, First
<1>3. CASE Begin
  <2>1. todo' \in Seq(RealCalls)
    BY <1>3, PlansTyped DEF Begin, TypeInv, TypeOK
  <2>2. before' \in [tpls : SUBSET Templates, up : BOOLEAN]
    BY <1>3 DEF Begin, Templated, Up
  <2>3. /\ UNCHANGED <<clusterVars, cacheVars, step, size, copy, errs, missing, fresh,
                       outcomeVars, boundVars>>
        /\ running' = TRUE /\ asked' = seenYC
    BY <1>3 DEF Begin
  <2>4. UNCHANGED <<yc, obj, rbac, cp, seenYC, seenCP, step, size, copy, errs, missing, fresh,
                    result, missed, moves, faults>>
    BY <2>3 DEF clusterVars, cacheVars, outcomeVars, boundVars
  <2>5. asked' \in [exists : BOOLEAN, deleting : BOOLEAN, spec : Specs] /\ running' \in BOOLEAN
    BY <2>3 DEF TypeInv, TypeOK
  <2>6. todo' \in Seq([group : {"trans", "hub", "tunnel"},
                      kind : {"apply", "delete", "grant", "load", "panic"},
                      obj : Objects \cup Grants])
    BY <2>1, RealCallsTyped
  <2>7. TypeOK'
    BY <2>2, <2>4, <2>5, <2>6 DEF TypeInv, TypeOK
  <2> QED
    BY <2>1, <2>7 DEF TypeInv
<1>4. CASE Look
  <2>1. /\ UNCHANGED Around /\ UNCHANGED <<obj, rbac, size, errs>> /\ todo # <<>>
        /\ UNCHANGED boundVars \/ Fault
        /\ fresh' \in BOOLEAN
        /\ Onward \/ (UNCHANGED <<todo, copy>> /\ step' \in {"write", "get"})
    BY <1>4 DEF Look, At, Around, clusterVars
  <2>2. missing' \in BOOLEAN
    BY <1>1, <1>4 DEF Look
  <2> QED
    BY <1>1, <2>1, <2>2, CallTyped, CallsOn
<1>5. CASE LookAgain
  <2>1. /\ UNCHANGED Around /\ UNCHANGED <<obj, rbac, size>> /\ todo # <<>>
        /\ UNCHANGED boundVars \/ Fault
        /\ Onward \/ GiveUp \/ (UNCHANGED <<todo, copy>> /\ step' = "write")
    BY <1>5 DEF LookAgain, At, Around, clusterVars
  <2>2. missing' \in BOOLEAN /\ errs' \in BOOLEAN /\ fresh' \in BOOLEAN
    BY <1>1, <1>5, GivingUp DEF LookAgain
  <2>3. todo' \in Seq(RealCalls) /\ step' \in {"look", "write"} /\ copy' \in Grant
    BY <1>1, <2>1, CallsOn
  <2> QED
    BY <1>1, <2>1, <2>2, <2>3, CallTyped
<1>6. ASSUME NEW o \in Objects, NEW x \in Attributes, Changes(o, x), todo # <<>>
      PROVE  TypeInv'
  <2>1. /\ UNCHANGED Around /\ UNCHANGED <<rbac, size, missing>> /\ (Onward \/ GiveUp)
        /\ UNCHANGED boundVars \/ Fault
        /\ fresh' \in BOOLEAN
        /\ obj' = obj \/ obj' = [obj EXCEPT ![o] = x]
    BY <1>6 DEF Changes, Around
  <2>2. obj' \in [Objects -> Attributes]
    BY <1>1, <2>1
  <2>3. errs' \in BOOLEAN
    BY <1>1, <1>6, GivingUp DEF Changes
  <2>4. todo' \in Seq(RealCalls) /\ step' = "look" /\ copy' \in Grant
    BY <1>6, <2>1, CallsOn
  <2>5. rbac' \in [Grants -> Grant] /\ size' \in Nat /\ missing' \in BOOLEAN
    BY <1>1, <2>1
  <2> QED
    BY <2>1, <2>2, <2>3, <2>4, <2>5, CallTyped
<1>7. CASE Patch
  <2>1. Current.obj \in Objects /\ todo # <<>>
    BY <1>2, <1>7 DEF Patch, At, RealCalls
  <2> QED
    BY <1>6, <1>7, <2>1, ManifestTyped DEF Patch
<1>8. CASE DeleteObject
  <2>1. Current.obj \in Objects /\ todo # <<>> /\ Absent \in Attributes
    BY <1>2, <1>8 DEF DeleteObject, At, RealCalls, Absent, Attributes
  <2>2. CASE Changes(Current.obj, Absent)
    BY <1>6, <2>1, <2>2
  <2>3. CASE ~Changes(Current.obj, Absent)
    <3>1. /\ UNCHANGED Around /\ UNCHANGED <<obj, rbac, size, missing>> /\ GiveUp
          /\ UNCHANGED boundVars /\ fresh' \in BOOLEAN
      BY <1>8, <2>3 DEF DeleteObject, Around, clusterVars
    <3> QED
      BY <1>1, <2>1, <3>1, CallTyped, CallsOn DEF GiveUp
  <2> QED
    BY <2>2, <2>3
<1>9. CASE Load
  <2>1. /\ UNCHANGED Around /\ UNCHANGED <<obj, rbac, missing, fresh>> /\ todo # <<>>
        /\ UNCHANGED boundVars \/ Fault
        /\ Onward \/ GiveUp
    BY <1>9 DEF Load, At, Around, clusterVars
  <2>2. size' \in {0, seenCP, size} /\ errs' \in BOOLEAN
    BY <1>1, <1>9, GivingUp DEF Load
  <2>3. size' \in Nat
    BY <2>2 DEF TypeInv, TypeOK
  <2> QED
    BY <1>1, <2>1, <2>2, <2>3, CallTyped, CallsOn
<1>10. CASE Read
  <2>1. /\ UNCHANGED Around /\ UNCHANGED <<obj, rbac, size, missing>> /\ todo # <<>>
        /\ UNCHANGED boundVars \/ Fault
        /\ \/ Onward \/ GiveUp
           \/ UNCHANGED todo /\ step' = "write" /\ copy' = rbac[Current.obj]
        /\ Current.kind = "grant"
    BY <1>10 DEF Read, At, Around, clusterVars
  <2>2. errs' \in BOOLEAN /\ fresh' \in BOOLEAN
    BY <1>1, <1>10, GivingUp DEF Read
  <2>3. rbac[Current.obj] \in Grant
    BY <1>1, <1>2, <2>1 DEF RealCalls
  <2>4. todo' \in Seq(RealCalls) /\ step' \in {"look", "write"} /\ copy' \in Grant
    BY <1>1, <2>1, <2>3, CallsOn
  <2> QED
    BY <1>1, <2>1, <2>2, <2>4, CallTyped
<1>11. CASE Update
  <2>1. /\ UNCHANGED Around /\ UNCHANGED <<obj, size, missing>> /\ todo # <<>>
        /\ UNCHANGED boundVars \/ Fault
        /\ (Onward \/ GiveUp) /\ fresh' \in BOOLEAN
        /\ rbac' = rbac \/ rbac' = [rbac EXCEPT ![Current.obj] = [copy EXCEPT !.ours = TRUE]]
    BY <1>11 DEF Update, At, Around
  <2>2. errs' \in BOOLEAN /\ fresh' \in BOOLEAN
    BY <1>1, <1>11, GivingUp DEF Update
  <2>3. rbac' \in [Grants -> Grant]
    <3>1. [copy EXCEPT !.ours = TRUE] \in Grant
      BY <1>1 DEF Grant
    <3> QED
      BY <1>1, <2>1, <3>1
  <2> QED
    BY <1>1, <2>1, <2>2, <2>3, CallTyped, CallsOn
<1>12. CASE Panic \/ End \/ Crash
  <2>1. /\ todo' = <<>> /\ todo' \in Seq(RealCalls) /\ UNCHANGED <<clusterVars, asked, fresh>>
        /\ step' = "look" /\ size' = 0 /\ copy' \in Grant /\ errs' = FALSE
        /\ running' = FALSE /\ missing' = FALSE /\ before' = [tpls |-> {}, up |-> FALSE]
        /\ UNCHANGED boundVars \/ Fault
    <3>1. NoPass /\ UNCHANGED <<clusterVars, asked, fresh>> /\ (UNCHANGED boundVars \/ Fault)
      BY <1>12 DEF Panic, End, Crash
    <3>2. <<>> \in Seq(RealCalls) /\ NoGrant \in Grant
      BY DEF NoGrant, Grant
    <3> QED
      BY <3>1, <3>2 DEF NoPass
  <2>2. /\ result' \in {"none", "ok", "error", "panic"} /\ missed' \in BOOLEAN
        /\ seenYC' \in {seenYC, yc} /\ seenCP' \in {seenCP, cp}
    BY <1>1, <1>12 DEF Panic, End, Crash, TypeInv, TypeOK, cacheVars
  <2>3. moves' \in Nat /\ faults' \in Nat
    BY <2>1, BoundsStep
  <2> QED
    BY <2>1, <2>2, <2>3, RealCallsTyped DEF TypeInv, TypeOK, clusterVars, Grant
<1>13. CASE SeeYC \/ SeeNodes \/ UNCHANGED vars
  BY <1>13 DEF SeeYC, SeeNodes, vars, clusterVars, cacheVars, passVars, outcomeVars, boundVars,
     TypeInv, TypeOK
<1>14. ASSUME UNCHANGED <<cacheVars, passVars, outcomeVars>>,
              UNCHANGED boundVars \/ Move,
              obj' \in [Objects -> Attributes], rbac' \in [Grants -> Grant], cp' \in Nat,
              yc' \in [exists : BOOLEAN, deleting : BOOLEAN, spec : Specs],
              fresh' \in BOOLEAN
       PROVE  TypeInv'
  <2>1. moves' \in Nat /\ faults' \in Nat
    BY <1>14, BoundsStep
  <2> QED
    BY <1>14, <2>1 DEF cacheVars, passVars, outcomeVars, TypeInv, TypeOK, Attributes, Grant
<1>15. cp \in Nat /\ yc \in [exists : BOOLEAN, deleting : BOOLEAN, spec : Specs]
  BY DEF TypeInv, TypeOK
<1>16. ASSUME NEW o \in Editable, NEW mark \in BOOLEAN, UserEdits(o, mark) PROVE TypeInv'
  <2>1. [obj[o] EXCEPT !.edited = TRUE, !.skip = @ \/ mark] \in Attributes
    BY <1>1, ObjectsAssumption DEF Attributes
  <2>2. obj' \in [Objects -> Attributes]
    BY <1>1, <1>16, <2>1 DEF UserEdits
  <2> QED
    BY <1>1, <1>14, <1>15, <1>16, <2>2 DEF UserEdits, Touches
<1>17. ASSUME NEW o \in Removable, UserRemoves(o) PROVE TypeInv'
  <2>1. Absent \in Attributes
    BY DEF Absent, Attributes
  <2> QED
    BY <1>1, <1>14, <1>15, <1>17, <2>1 DEF UserRemoves, Touches
<1>18. ASSUME NEW g \in Grants, OthersGrant(g) PROVE TypeInv'
  <2>1. [rbac[g] EXCEPT !.others = ~@] \in Grant
    BY <1>1 DEF Grant
  <2> QED
    BY <1>1, <1>14, <1>15, <1>18, <2>1 DEF OthersGrant, Touches
<1>19. CASE \/ \E s \in UpdateSpecs : UserUpdates(s)
            \/ UserDeletes \/ Released
            \/ \E n \in Sizes : Resize(n)
  <2>1. UNCHANGED <<cacheVars, passVars, outcomeVars, obj, rbac, fresh>>
    BY <1>19 DEF UserUpdates, UserDeletes, Released, Resize
  <2>2. (UNCHANGED boundVars \/ Move) /\ cp' \in Nat
    BY <1>15, <1>19, ObjectsAssumption DEF UserUpdates, UserDeletes, Released, Resize
  <2>3. yc' \in [exists : BOOLEAN, deleting : BOOLEAN, spec : Specs]
    BY <1>15, <1>19, SpecsAssumption DEF UserUpdates, UserDeletes, Released, Resize
  <2> QED
    BY <1>1, <1>14, <2>1, <2>2, <2>3
<1> QED
  BY <1>3, <1>4, <1>5, <1>7, <1>8, <1>9, <1>10, <1>11, <1>12, <1>13, <1>16, <1>17, <1>18, <1>19
     DEF Next, Pass, Environment

LEMMA TypesAtFirst == Init => TypeInv
<1> SUFFICES ASSUME Init PROVE TypeInv
  OBVIOUS
<1>1. yc \in [exists : BOOLEAN, deleting : BOOLEAN, spec : Specs] /\ cp \in Nat
  BY SpecsAssumption, ObjectsAssumption DEF Init
<1>2. todo \in Seq(RealCalls)
  BY DEF Init
<1> QED
  BY <1>1, <1>2, RealCallsTyped DEF Init, TypeInv, TypeOK, Absent, NoGrant

\* However calls fail and users interfere, every variable keeps its type: the servers that the
\* deployment is given never go below zero, and what a pass has left to do are calls on objects of
\* the plan (reconcileYurtTunnelServer).
THEOREM TypesKept == Spec => []TypeOK
<1>1. TypeInv => TypeOK
  BY DEF TypeInv
<1> QED
  BY <1>1, TypesAtFirst, TypesStep, PTL DEF Spec

----------------------------------------------------------------------------
(* What a pass has done, and what it has left to do *)

\* The plan is ordered, and what is left of it is its end.
PlanInv ==
  /\ Sorted(todo)
  /\ \A c \in Left : Fits(c, Wanted)

MarkedExist == \A o \in Objects : obj[o].skip => obj[o].exists

Loaded == obj["yurttunnel"].exists

\* Until the pass has failed, a template that is missing is still to be applied; before anything
\* of yurt tunnel is touched, its template is there.
TemplatesInv ==
  /\ IF Wanted = "deleted" THEN Templated = before.tpls ELSE before.tpls \subseteq Templated
  /\ Wanted # "deleted" => \A t \in Templates : errs \/ obj[t].exists \/ TemplateCall(t) \in Left
  /\ Loaded \/ LoadCall \in Left \/ (errs /\ todo = <<>>)

OnInv ==
  /\ Up = before.up \/ (Up /\ Loaded)
  /\ errs \/ obj["agentDS"].exists \/ AgentCall \in Left

\* Workloads go only when their deletion is due, and one that is missed stays.
OffInv ==
  /\ Up = before.up \/ (~Up /\ Loaded)
  /\ errs \/ missing \/ \A w \in Workloads : obj[w].exists => DeleteCall(w) \in Left
  /\ missing => \E w \in Workloads : obj[w].exists /\ DeleteCall(w) \notin Left

NilInv == Up = before.up /\ (PanicCall \in Left \/ (errs /\ todo = <<>>))

WorkloadsInv ==
  /\ Wanted = "on" => OnInv
  /\ Wanted \in {"off", "deleted"} => OffInv
  /\ Wanted = "nil" => NilInv
  /\ missing => running /\ Wanted \in {"off", "deleted"}

SpecsOf == InitialSpecs \cup UpdateSpecs
SpecsInv == yc.spec \in SpecsOf /\ seenYC.spec \in SpecsOf /\ asked.spec \in SpecsOf

PassInv ==
  /\ PlanInv /\ MarkedExist /\ SpecsInv
  /\ running => TemplatesInv /\ WorkloadsInv
  /\ ~running => ~missing

LEMMA WantedTyped == TypeInv => Wanted \in {"on", "off", "nil", "deleted"}
  BY DEF TypeInv, TypeOK, Wanted, Specs

LEMMA CurrentFits ==
  ASSUME TypeInv, PassInv, todo # <<>>
  PROVE  /\ Current \in RealCalls /\ Current \in Left /\ Fits(Current, Wanted)
         /\ \A c \in Left : c = Current \/ Before(Current, c)
  BY First DEF TypeInv, PassInv, PlanInv

\* A call on a workload: the template is loaded, and the pass is for the switch of that call.
LEMMA WorkloadCall ==
  ASSUME TypeInv, PassInv, running, todo # <<>>, Current.obj \in Workloads
  PROVE  /\ Loaded /\ Wanted \in {"on", "off", "deleted"}
         /\ Current.kind = "delete" => Wanted \in {"off", "deleted"}
         /\ Current.kind = "apply" => Wanted = "on"
<1>1. /\ Current \in RealCalls /\ Current \in Left /\ Fits(Current, Wanted)
      /\ \A c \in Left : c = Current \/ Before(Current, c)
  BY CurrentFits
<1>2. ~Early(Current)
  BY <1>1 DEF Early, RealCalls, Workloads, Grants, Templates
<1>3. Current # LoadCall /\ Current # PanicCall
  BY DEF LoadCall, PanicCall, Call, Workloads
<1>4. LoadCall.kind = "load" /\ PanicCall.kind = "panic"
  BY DEF LoadCall, PanicCall, Call
<1>5. LoadCall \notin Left /\ PanicCall \notin Left
  BY <1>1, <1>2, <1>3, <1>4 DEF Before
<1>6. Loaded /\ Wanted # "nil"
  BY <1>5 DEF PassInv, TemplatesInv, WorkloadsInv, NilInv
<1> QED
  BY <1>1, <1>6, WantedTyped DEF Fits

\* What a call does to the templates and workloads that exist.
Effect ==
  \A o \in Templates \cup Workloads :
    \/ obj'[o].exists = obj[o].exists
    \/ /\ o = Current.obj
       /\ \/ Current.kind = "apply" /\ obj'[o].exists
          \/ Current.kind = "delete" /\ ~obj'[o].exists

\* What has come of a call when the next one begins without an error.
Achieved ==
  /\ Current.kind # "panic"
  /\ Current.kind = "load" => Loaded
  /\ Current.kind = "apply" /\ Current.obj \in Templates \cup Workloads =>
       obj'[Current.obj].exists
  /\ Current.kind = "delete" /\ Current.obj \in Workloads =>
       missing' \/ ~obj'[Current.obj].exists

Misses ==
  /\ missing' /\ Onward
  /\ Current.kind = "delete" /\ Current.obj \in Workloads /\ obj'[Current.obj].exists

\* A call that ends, well or not.
CallEnds ==
  /\ running /\ todo # <<>> /\ UNCHANGED <<asked, running, before>>
  /\ (Onward /\ UNCHANGED errs /\ Achieved) \/ GiveUp
  /\ missing' = missing \/ Misses
  /\ Effect

LEMMA CallLeft ==
  ASSUME TypeInv, PassInv, CallEnds
  PROVE  /\ Left' \subseteq Left /\ Sorted(todo')
         /\ \/ /\ errs' = TRUE
               /\ \A c \in Left : c.group = "tunnel" => c \in Left' \/ todo' = <<>>
            \/ /\ errs' = errs /\ Achieved
               /\ \A c \in Left : c = Current \/ c \in Left'
         /\ Onward /\ Current.kind = "delete" => Current \notin Left'
<1>1. todo \in Seq(RealCalls) /\ Sorted(todo) /\ todo # <<>>
  BY DEF TypeInv, PassInv, PlanInv, CallEnds
<1>2. ASSUME Onward
      PROVE  /\ Left' \subseteq Left /\ Sorted(todo')
             /\ \A c \in Left : c = Current \/ c \in Left'
             /\ Current.kind = "delete" => Current \notin Left'
  BY <1>1, <1>2, OnwardLeft DEF Before
<1>3. ASSUME GiveUp
      PROVE  /\ Left' \subseteq Left /\ Sorted(todo') /\ errs' = TRUE
             /\ \A c \in Left : c.group = "tunnel" => c \in Left' \/ todo' = <<>>
  BY <1>1, <1>3, GiveUpLeft, GivingUp
<1> QED
  BY <1>2, <1>3 DEF CallEnds

LEMMA NamesApart == Templates \cap Workloads = {} /\ "yurttunnel" \in Templates /\ "agentDS" \in Workloads
  BY DEF Templates, Workloads

\* Templates never go, and come in a pass that applies them.
LEMMA TemplatesStep ==
  ASSUME TypeInv, PassInv, CallEnds
  PROVE  TemplatesInv' /\ (Loaded => Loaded')
<1>1. /\ todo # <<>> /\ Fits(Current, Wanted) /\ Wanted' = Wanted /\ before' = before
      /\ TemplatesInv /\ Current \in Left
  BY CurrentFits DEF CallEnds, PassInv, Wanted
<1>2. ASSUME NEW t \in Templates
      PROVE  /\ obj[t].exists => obj'[t].exists
             /\ obj'[t].exists /\ ~obj[t].exists => Wanted # "deleted"
  BY <1>1, <1>2 DEF CallEnds, Effect, Fits
<1>3. /\ Templated \subseteq Templated'
      /\ Wanted = "deleted" => Templated' = Templated
  BY <1>2 DEF Templated
<1>4. IF Wanted' = "deleted" THEN Templated' = before'.tpls ELSE before'.tpls \subseteq Templated'
  BY <1>1, <1>3 DEF TemplatesInv
<1>5. ASSUME Wanted # "deleted", NEW t \in Templates
      PROVE  errs' \/ obj'[t].exists \/ TemplateCall(t) \in Left'
  <2>1. errs \/ obj[t].exists \/ TemplateCall(t) \in Left
    BY <1>1, <1>5 DEF TemplatesInv
  <2>2. TemplateCall(t).kind = "apply" /\ TemplateCall(t).obj = t
    BY DEF TemplateCall, Call
  <2> QED
    BY <1>2, <1>5, <2>1, <2>2, CallLeft DEF Achieved
<1>6. Loaded => Loaded'
  BY <1>2, NamesApart DEF Loaded
<1>7. Loaded' \/ LoadCall \in Left' \/ (errs' /\ todo' = <<>>)
  <2>1. LoadCall.kind = "load" /\ LoadCall.group = "tunnel"
    BY DEF LoadCall, Call
  <2> QED
    BY <1>1, <1>6, <2>1, CallLeft DEF TemplatesInv, Achieved
<1> QED
  BY <1>1, <1>4, <1>5, <1>6, <1>7 DEF TemplatesInv

\* What the call does to the workloads, for each thing a pass may be for.
LEMMA WorkloadsMove ==
  ASSUME TypeInv, PassInv, CallEnds
  PROVE  \/ \A w \in Workloads : obj'[w].exists = obj[w].exists
         \/ Loaded /\ Wanted = "on" /\ Current.kind = "apply" /\ Up'
            /\ \A w \in Workloads : obj[w].exists => obj'[w].exists
         \/ Loaded /\ Wanted \in {"off", "deleted"} /\ Current.kind = "delete"
            /\ \A w \in Workloads :
                 obj'[w].exists = obj[w].exists \/ (w = Current.obj /\ ~obj'[w].exists)
<1>1. CASE Current.obj \in Workloads
  <2>1. /\ Loaded
        /\ Current.kind = "delete" => Wanted \in {"off", "deleted"}
        /\ Current.kind = "apply" => Wanted = "on"
    BY <1>1, WorkloadCall DEF CallEnds
  <2>2. \A w \in Workloads :
          \/ obj'[w].exists = obj[w].exists
          \/ /\ w = Current.obj
             /\ \/ Current.kind = "apply" /\ obj'[w].exists
                \/ Current.kind = "delete" /\ ~obj'[w].exists
    BY DEF CallEnds, Effect
  <2>3. CASE Current.kind = "delete"
    <3>1. \A w \in Workloads : obj'[w].exists = obj[w].exists \/ (w = Current.obj /\ ~obj'[w].exists)
      BY <2>2, <2>3
    <3> QED
      BY <2>1, <2>3, <3>1
  <2>4. CASE Current.kind = "apply" /\ obj'[Current.obj].exists
    <3>1. Up'
      BY <1>1, <2>4 DEF Up
    <3>2. \A w \in Workloads : obj[w].exists => obj'[w].exists
      BY <2>2, <2>4
    <3> QED
      BY <2>1, <2>4, <3>1, <3>2
  <2>5. CASE Current.kind # "delete" /\ ~obj'[Current.obj].exists
    BY <2>2, <2>5
  <2> QED
    BY <1>1, <2>2, <2>3, <2>4, <2>5
<1>2. CASE Current.obj \notin Workloads
  BY <1>2 DEF CallEnds, Effect
<1> QED
  BY <1>1, <1>2

LEMMA WorkloadsStep ==
  ASSUME TypeInv, PassInv, CallEnds
  PROVE  WorkloadsInv'
<1>1. /\ Wanted' = Wanted /\ before' = before /\ running /\ running' /\ WorkloadsInv
      /\ Current \in Left /\ Current \in RealCalls /\ Fits(Current, Wanted) /\ todo # <<>>
  BY CurrentFits DEF CallEnds, PassInv, Wanted
<1>2. Loaded => Loaded'
  BY TemplatesStep
<1>3. missing' => running' /\ Wanted' \in {"off", "deleted"}
  <2>1. CASE Misses
    BY <1>1, <2>1, WorkloadCall DEF Misses
  <2>2. CASE missing' = missing
    BY <1>1, <2>2 DEF WorkloadsInv
  <2> QED
    BY <2>1, <2>2 DEF CallEnds
<1>4. ASSUME Wanted = "on" PROVE OnInv'
  <2>1. OnInv
    BY <1>1, <1>4 DEF WorkloadsInv
  <2>2. Up' = Up \/ (Loaded /\ Up')
    BY <1>4, WorkloadsMove DEF Up
  <2>3. obj["agentDS"].exists => obj'["agentDS"].exists
    BY <1>4, WorkloadsMove, NamesApart
  <2>4. AgentCall.kind = "apply" /\ AgentCall.obj = "agentDS"
    BY DEF AgentCall, Call
  <2>5. errs' \/ obj'["agentDS"].exists \/ AgentCall \in Left'
    BY <2>1, <2>3, <2>4, CallLeft, NamesApart DEF OnInv, Achieved
  <2>6. Up' = before'.up \/ (Up' /\ Loaded')
    BY <1>1, <1>2, <2>1, <2>2 DEF OnInv
  <2> QED
    BY <2>5, <2>6 DEF OnInv
<1>5. ASSUME Wanted \in {"off", "deleted"} PROVE OffInv'
  <2>1. OffInv
    BY <1>1, <1>5 DEF WorkloadsInv
  <2>2. \A w \in Workloads : obj'[w].exists => obj[w].exists
    BY <1>5, WorkloadsMove
  <2>3. Up' = Up \/ (Loaded /\ ~Up')
    BY <1>5, <2>2, WorkloadsMove DEF Up
  <2>4. ASSUME NEW w \in Workloads, obj'[w].exists
        PROVE  errs' \/ missing' \/ DeleteCall(w) \in Left'
    <3>1. errs \/ missing \/ DeleteCall(w) \in Left
      BY <2>1, <2>2, <2>4 DEF OffInv
    <3>2. DeleteCall(w).kind = "delete" /\ DeleteCall(w).obj = w
      BY DEF DeleteCall, Call
    <3>3. missing => missing'
      BY DEF CallEnds, Misses
    <3> QED
      BY <2>4, <3>1, <3>2, <3>3, CallLeft DEF Achieved
  <2>5. ASSUME missing' PROVE \E w \in Workloads : obj'[w].exists /\ DeleteCall(w) \notin Left'
    <3>1. Current.kind = "delete" => Current = DeleteCall(Current.obj)
      BY <1>1 DEF Fits, RealCalls, DeleteCall, Call
    <3>2. CASE Misses
      BY <3>1, <3>2, CallLeft DEF Misses
    <3>3. CASE missing
      <4>1. PICK w \in Workloads : obj[w].exists /\ DeleteCall(w) \notin Left
        BY <2>1, <3>3 DEF OffInv
      <4>2. obj'[w].exists
        BY <1>1, <1>5, <3>1, <4>1, WorkloadsMove
      <4> QED
        BY <4>1, <4>2, CallLeft
    <3> QED
      BY <2>5, <3>2, <3>3 DEF CallEnds
  <2>6. Up' = before'.up \/ (~Up' /\ Loaded')
    BY <1>1, <1>2, <2>1, <2>3 DEF OffInv
  <2> QED
    BY <2>4, <2>5, <2>6 DEF OffInv
<1>6. ASSUME Wanted = "nil" PROVE NilInv'
  <2>1. NilInv
    BY <1>1, <1>6 DEF WorkloadsInv
  <2>2. Up' = Up
    BY <1>6, WorkloadsMove DEF Up
  <2>3. PanicCall.kind = "panic" /\ PanicCall.group = "tunnel"
    BY DEF PanicCall, Call
  <2>4. PanicCall \in Left' \/ (errs' /\ todo' = <<>>)
    BY <1>1, <2>1, <2>3, CallLeft DEF NilInv, Achieved
  <2> QED
    BY <1>1, <2>1, <2>2, <2>4 DEF NilInv
<1> QED
  BY <1>1, <1>3, <1>4, <1>5, <1>6 DEF WorkloadsInv

----------------------------------------------------------------------------
(* Every step keeps the account *)

LEMMA MarkedStep ==
  ASSUME TypeInv, PassInv, [Next]_vars
  PROVE  MarkedExist' /\ SpecsInv'
<1>1. /\ obj \in [Objects -> Attributes] /\ MarkedExist /\ SpecsInv
  BY DEF TypeInv, TypeOK, Attributes, PassInv
<1>2. SpecsInv'
  <2>1. CASE \/ Look \/ LookAgain \/ Patch \/ DeleteObject \/ Load \/ Read \/ Update
             \/ Panic \/ End \/ SeeNodes \/ UNCHANGED vars
             \/ \E o \in Editable, mark \in BOOLEAN : UserEdits(o, mark)
             \/ \E o \in Removable : UserRemoves(o)
             \/ \E g \in Grants : OthersGrant(g)
             \/ \E n \in Sizes : Resize(n)
    <3>1. UNCHANGED <<yc, seenYC, asked>>
      BY <2>1 DEF Look, LookAgain, Patch, DeleteObject, Changes, Load, Read, Update, Panic, End,
         SeeNodes, UserEdits, UserRemoves, OthersGrant, Resize, vars, clusterVars, cacheVars, passVars
    <3> QED
      BY <1>1, <3>1 DEF SpecsInv
  <2>2. CASE Begin \/ Crash \/ SeeYC
    <3>1. yc' = yc /\ seenYC' \in {seenYC, yc} /\ asked' \in {asked, seenYC}
      BY <2>2 DEF Begin, Crash, SeeYC, clusterVars, cacheVars, passVars
    <3> QED
      BY <1>1, <3>1 DEF SpecsInv
  <2>3. CASE (\E s \in UpdateSpecs : UserUpdates(s)) \/ UserDeletes \/ Released
    <3>1. UNCHANGED <<seenYC, asked>>
      BY <2>3 DEF UserUpdates, UserDeletes, Released, cacheVars, passVars
    <3>2. yc'.spec \in UpdateSpecs \cup {yc.spec}
      BY <2>3 DEF UserUpdates, UserDeletes, Released, TypeInv, TypeOK
    <3> QED
      BY <1>1, <3>1, <3>2 DEF SpecsInv, SpecsOf
  <2> QED
    BY <2>1, <2>2, <2>3 DEF Next, Pass, Environment
<1>3. ASSUME NEW o, NEW x, obj' = obj \/ obj' = [obj EXCEPT ![o] = x], x.skip => x.exists
      PROVE  MarkedExist'
  BY <1>1, <1>3 DEF MarkedExist
<1>4. ASSUME NEW o, Changes(o, Absent) \/ Changes(o, Manifest(o, asked.spec, size))
      PROVE  MarkedExist'
  <2>1. /\ Absent.skip => Absent.exists
        /\ Manifest(o, asked.spec, size).exists
    BY DEF Absent, Manifest
  <2> QED
    BY <1>3, <1>4, <2>1 DEF Changes
<1>5. CASE Patch \/ DeleteObject
  <2>1. CASE UNCHANGED obj
    BY <1>1, <1>2, <2>1 DEF MarkedExist
  <2>2. CASE Changes(Current.obj, Manifest(Current.obj, asked.spec, size)) \/ Changes(Current.obj, Absent)
    BY <1>2, <1>4, <2>2
  <2> QED
    BY <1>5, <2>1, <2>2 DEF Patch, DeleteObject, clusterVars
<1>6. ASSUME NEW o \in Editable, NEW mark \in BOOLEAN, UserEdits(o, mark) PROVE MarkedExist'
  <2>1. obj[o].exists /\ o \in Objects
    BY <1>6, ObjectsAssumption DEF UserEdits
  <2>2. obj' = [obj EXCEPT ![o] = [obj[o] EXCEPT !.edited = TRUE, !.skip = @ \/ mark]]
    BY <1>1, <1>6, <2>1 DEF UserEdits
  <2>3. [obj[o] EXCEPT !.edited = TRUE, !.skip = @ \/ mark].exists
    BY <1>1, <2>1 DEF Attributes
  <2> QED
    BY <1>3, <2>2, <2>3
<1>7. ASSUME NEW o \in Removable, UserRemoves(o) PROVE MarkedExist'
  <2>1. Absent.skip => Absent.exists
    BY DEF Absent
  <2> QED
    BY <1>3, <1>7, <2>1 DEF UserRemoves
<1>8. ASSUME obj' = obj PROVE MarkedExist'
  BY <1>1, <1>8 DEF MarkedExist
<1> QED
  BY <1>2, <1>5, <1>6, <1>7, <1>8
     DEF Next, Pass, Environment, Begin, Look, LookAgain, Load, Read, Update, Panic, End, Crash, SeeYC,
     SeeNodes, OthersGrant, UserUpdates, UserDeletes, Released, Resize, vars, clusterVars

\* The account of the pass: all of PassInv but what MarkedStep is about.
Account ==
  /\ PlanInv
  /\ running => TemplatesInv /\ WorkloadsInv
  /\ ~running => ~missing

LEMMA StillStep ==
  ASSUME TypeInv, PassInv, UNCHANGED <<asked, todo, errs, running, missing, before>>,
         \A o \in Templates \cup Workloads : obj'[o].exists = obj[o].exists
  PROVE  Account'
<1>1. Templated' = Templated /\ Up' = Up /\ Loaded' = Loaded /\ Wanted' = Wanted /\ Left' = Left
  BY NamesApart DEF Templated, Up, Loaded, Wanted, Left
<1>2. Account
  BY DEF PassInv, Account
<1>3. PlanInv'
  BY <1>1, <1>2 DEF Account, PlanInv
<1>4. TemplatesInv => TemplatesInv'
  BY <1>1 DEF TemplatesInv
<1>5. WorkloadsInv => WorkloadsInv'
  BY <1>1, NamesApart DEF WorkloadsInv, OnInv, OffInv, NilInv
<1> QED
  BY <1>2, <1>3, <1>4, <1>5 DEF Account

LEMMA EndStep ==
  ASSUME TypeInv, PassInv, CallEnds
  PROVE  Account'
<1>1. Wanted' = Wanted /\ running'
  BY DEF CallEnds, Wanted
<1>2. PlanInv'
  BY <1>1, CallLeft DEF PlanInv, PassInv
<1> QED
  BY <1>1, <1>2, TemplatesStep, WorkloadsStep DEF Account

LEMMA LookAccount ==
  ASSUME Inv, TypeInv, PassInv, Look
  PROVE  Account'
<1> DEFINE o == Current.obj
<1>1. /\ todo # <<>> /\ running /\ UNCHANGED <<obj, asked, running, before, errs>>
      /\ Current.kind \in {"apply", "delete"}
  BY DEF Look, At, Inv, Begun, clusterVars
<1>2. o \in Objects
  BY <1>1, CurrentFits DEF RealCalls
<1>3. CASE UNCHANGED <<todo, missing>>
  BY <1>1, <1>3, StillStep
<1>4. CASE ~UNCHANGED <<todo, missing>>
  <2>1. /\ obj[o].skip /\ Onward
        /\ missing' = (missing \/ (Current.kind = "delete" /\ o \in Workloads))
    BY <1>4 DEF Look
  <2>2. obj'[o].exists
    BY <1>1, <1>2, <2>1 DEF PassInv, MarkedExist
  <2>3. missing' = missing \/ Misses
    BY <2>1, <2>2 DEF Misses, TypeInv, TypeOK
  <2>4. Achieved
    BY <1>1, <2>1, <2>2 DEF Achieved
  <2> QED
    BY <1>1, <2>1, <2>3, <2>4, EndStep DEF CallEnds, Effect
<1> QED
  BY <1>3, <1>4

LEMMA LookAgainAccount ==
  ASSUME Inv, TypeInv, PassInv, LookAgain
  PROVE  Account'
<1> DEFINE o == Current.obj
<1>1. /\ todo # <<>> /\ running /\ UNCHANGED <<obj, asked, running, before>>
      /\ Current.kind = "delete"
  BY DEF LookAgain, At, Inv, Begun, clusterVars
<1>2. CASE UNCHANGED <<todo, errs, missing>>
  BY <1>1, <1>2, StillStep
<1>3. CASE Onward /\ UNCHANGED errs /\ ~obj[o].exists /\ UNCHANGED missing
  BY <1>1, <1>3, EndStep DEF CallEnds, Effect, Achieved
<1>4. CASE Onward /\ UNCHANGED errs /\ obj[o].exists /\ missing' = (missing \/ o \in Workloads)
  <2>1. missing' = missing \/ Misses
    BY <1>1, <1>4 DEF Misses, TypeInv, TypeOK
  <2>2. Achieved
    BY <1>1, <1>4 DEF Achieved
  <2> QED
    BY <1>1, <1>4, <2>1, <2>2, EndStep DEF CallEnds, Effect
<1>5. CASE GiveUp /\ UNCHANGED missing
  BY <1>1, <1>5, EndStep DEF CallEnds, Effect
<1> QED
  BY <1>2, <1>3, <1>4, <1>5 DEF LookAgain, boundVars

LEMMA ChangesAccount ==
  ASSUME Inv, TypeInv, PassInv, todo # <<>>, NEW x, Changes(Current.obj, x), Current.obj \in Objects,
         \/ Current.kind = "apply" /\ x.exists
         \/ Current.kind = "delete" /\ ~x.exists
  PROVE  Account'
<1> DEFINE o == Current.obj
<1>1. running /\ UNCHANGED <<asked, running, before, missing>> /\ DOMAIN obj = Objects
  BY DEF Changes, Inv, Begun, Typed
<1>2. Effect
  <2>1. obj' = obj \/ obj' = [obj EXCEPT ![o] = x]
    BY DEF Changes
  <2>2. ASSUME NEW p \in Templates \cup Workloads
        PROVE  obj'[p] = obj[p] \/ (p = o /\ obj'[p] = x)
    <3>1. p \in DOMAIN obj
      BY <1>1 DEF Objects, Workloads, ServerObjects
    <3> QED
      BY <2>1, <3>1
  <2> QED
    BY <2>2 DEF Effect
<1>3. CASE GiveUp
  BY <1>1, <1>2, <1>3, EndStep DEF CallEnds
<1>4. CASE ~GiveUp
  <2>1. Onward /\ UNCHANGED errs /\ obj'[o] = x
    BY <1>1, <1>4 DEF Changes
  <2>2. Achieved
    BY <2>1 DEF Achieved
  <2> QED
    BY <1>1, <1>2, <2>1, <2>2, EndStep DEF CallEnds
<1> QED
  BY <1>3, <1>4

LEMMA WriteAccount ==
  ASSUME Inv, TypeInv, PassInv, Patch \/ DeleteObject
  PROVE  Account'
<1>1. todo # <<>> /\ Current.kind \in {"apply", "delete"}
  BY DEF Patch, DeleteObject, At
<1>2. Current.obj \in Objects
  BY <1>1, CurrentFits DEF RealCalls
<1>3. ~Absent.exists /\ Manifest(Current.obj, asked.spec, size).exists
  BY DEF Absent, Manifest
<1>4. CASE Patch
  BY <1>1, <1>2, <1>3, <1>4, ChangesAccount DEF Patch, At
<1>5. CASE DeleteObject /\ Changes(Current.obj, Absent)
  BY <1>1, <1>2, <1>3, <1>5, ChangesAccount DEF DeleteObject, At
<1>6. CASE DeleteObject /\ ~Changes(Current.obj, Absent)
  <2>1. GiveUp /\ UNCHANGED <<obj, asked, running, before, missing>>
    BY <1>6 DEF DeleteObject, clusterVars
  <2> QED
    BY <1>1, <2>1, EndStep DEF CallEnds, Effect, Inv, Begun
<1> QED
  BY <1>4, <1>5, <1>6

LEMMA OtherAccount ==
  ASSUME Inv, TypeInv, PassInv, Load \/ Read \/ Update
  PROVE  Account'
<1>1. /\ todo # <<>> /\ running /\ UNCHANGED <<obj, asked, running, before, missing>>
      /\ Current.kind \in {"load", "grant"}
  BY DEF Load, Read, Update, At, Inv, Begun, clusterVars
<1>2. CASE GiveUp
  BY <1>1, <1>2, EndStep DEF CallEnds, Effect
<1>3. CASE UNCHANGED <<todo, errs>>
  BY <1>1, <1>3, StillStep
<1>4. CASE ~GiveUp /\ ~UNCHANGED <<todo, errs>>
  <2>1. Onward /\ UNCHANGED errs /\ (Current.kind = "load" => Loaded)
    BY <1>4 DEF Load, Read, Update, At, Loaded
  <2> QED
    BY <1>1, <2>1, EndStep DEF CallEnds, Effect, Achieved
<1> QED
  BY <1>2, <1>3, <1>4

LEMMA BeginAccount ==
  ASSUME Inv, TypeInv, PassInv, Begin, \A s \in SpecsOf : Paired(s)
  PROVE  Account'
<1> DEFINE w == IF seenYC.deleting THEN "deleted" ELSE seenYC.spec.server
<1>1. /\ Wanted' = w /\ running' /\ missing' = FALSE
      /\ UNCHANGED obj /\ before' = [tpls |-> Templated, up |-> Up]
      /\ seenYC.spec \in Specs /\ Paired(seenYC.spec)
  BY DEF Begin, Wanted, PassInv, SpecsInv, TypeInv, TypeOK, clusterVars
<1>2. Templated' = Templated /\ Up' = Up
  BY <1>1 DEF Templated, Up
<1>3. CASE seenYC.deleting
  <2>1. todo' = DeletePlan /\ Wanted' = "deleted"
    BY <1>1, <1>3 DEF Begin
  <2>2. PlanInv'
    BY <2>1, DeletePlanOrderly DEF PlanInv, Orderly, Left
  <2>3. TemplatesInv'
    BY <1>1, <1>2, <2>1, DeletePlanOrderly DEF TemplatesInv, Left
  <2>4. OffInv'
    BY <1>1, <1>2, <2>1, DeletePlanOrderly DEF OffInv, Left
  <2> QED
    BY <1>1, <2>1, <2>2, <2>3, <2>4 DEF Account, WorkloadsInv
<1>4. CASE ~seenYC.deleting
  <2> DEFINE spec == seenYC.spec
  <2>1. todo' = ApplyPlan(spec) /\ Wanted' = spec.server /\ spec.server \in {"on", "off", "nil"}
    BY <1>1, <1>4 DEF Begin, Specs
  <2>2. /\ Orderly(ApplyPlan(spec), spec.server)
        /\ \A t \in Templates : TemplateCall(t) \in Range(ApplyPlan(spec))
        /\ LoadCall \in Range(ApplyPlan(spec))
        /\ spec.server = "on" => AgentCall \in Range(ApplyPlan(spec))
        /\ spec.server = "off" => \A o \in Workloads : DeleteCall(o) \in Range(ApplyPlan(spec))
        /\ spec.server = "nil" => PanicCall \in Range(ApplyPlan(spec))
    BY <1>1, ApplyPlanOrderly
  <2>3. Left' = Range(ApplyPlan(spec))
    BY <2>1 DEF Left
  <2>4. PlanInv'
    BY <2>1, <2>2, <2>3 DEF PlanInv, Orderly
  <2>5. TemplatesInv'
    BY <1>1, <1>2, <2>1, <2>2, <2>3 DEF TemplatesInv
  <2>6. spec.server = "on" => OnInv'
    BY <1>1, <1>2, <2>2, <2>3 DEF OnInv
  <2>7. spec.server = "off" => OffInv'
    BY <1>1, <1>2, <2>2, <2>3 DEF OffInv
  <2>8. spec.server = "nil" => NilInv'
    BY <1>1, <1>2, <2>2, <2>3 DEF NilInv
  <2> QED
    BY <1>1, <2>1, <2>4, <2>5, <2>6, <2>7, <2>8 DEF Account, WorkloadsInv
<1> QED
  BY <1>3, <1>4

\* What users edit and remove are neither templates nor workloads that go by it.
LEMMA UsersKeepExistence ==
  ASSUME TypeInv,
         \/ \E o \in Editable, mark \in BOOLEAN : UserEdits(o, mark)
         \/ \E o \in Removable : UserRemoves(o)
  PROVE  UNCHANGED passVars /\ \A o \in Templates \cup Workloads : obj'[o].exists = obj[o].exists
<1>1. ASSUME NEW o \in Editable, NEW mark \in BOOLEAN, UserEdits(o, mark)
      PROVE  UNCHANGED passVars /\ \A p \in Templates \cup Workloads : obj'[p].exists = obj[p].exists
  <2> DEFINE x == [obj[o] EXCEPT !.edited = TRUE, !.skip = @ \/ mark]
  <2>1. x.exists = obj[o].exists /\ DOMAIN obj = Objects
    BY ObjectsAssumption DEF TypeInv, TypeOK
  <2>2. obj' = [obj EXCEPT ![o] = x] /\ UNCHANGED passVars
    BY <1>1, <2>1, ObjectsAssumption DEF UserEdits
  <2> HIDE DEF x
  <2>3. ASSUME NEW p \in Objects PROVE obj'[p].exists = obj[p].exists
    BY <2>1, <2>2
  <2> QED
    BY <2>2, <2>3 DEF Objects, Workloads, ServerObjects
<1>2. ASSUME NEW o \in Removable, UserRemoves(o)
      PROVE  UNCHANGED passVars /\ \A p \in Templates \cup Workloads : obj'[p].exists = obj[p].exists
  <2>1. o \notin Templates \cup Workloads
    BY ObjectsAssumption DEF ServerObjects, Templates, Workloads
  <2> QED
    BY <1>2, <2>1 DEF UserRemoves
<1> QED
  BY <1>1, <1>2

LEMMA AccountStep ==
  ASSUME Inv, TypeInv, PassInv, [Next]_vars, \A s \in SpecsOf : Paired(s)
  PROVE  PassInv'
<1>1. CASE Panic \/ End \/ Crash
  <2>1. todo' = <<>> /\ running' = FALSE /\ missing' = FALSE
    BY <1>1 DEF Panic, End, Crash, NoPass
  <2>2. Left' = {}
    BY <2>1 DEF Left, Range
  <2>3. Sorted(<<>>)
    BY NoCalls DEF Orderly
  <2> QED
    BY <2>1, <2>2, <2>3, MarkedStep DEF PassInv, PlanInv
<1>2. CASE UNCHANGED passVars /\ \A o \in Templates \cup Workloads : obj'[o].exists = obj[o].exists
  <2>1. Account'
    BY <1>2, StillStep DEF passVars
  <2> QED
    BY <2>1, MarkedStep DEF Account, PassInv
<1>3. CASE \/ SeeYC \/ SeeNodes \/ UNCHANGED vars
           \/ \E g \in Grants : OthersGrant(g)
           \/ \E s \in UpdateSpecs : UserUpdates(s)
           \/ UserDeletes \/ Released
           \/ \E n \in Sizes : Resize(n)
  BY <1>2, <1>3 DEF SeeYC, SeeNodes, vars, OthersGrant, UserUpdates, UserDeletes, Released, Resize,
     clusterVars
<1>4. CASE Begin \/ Look \/ LookAgain \/ Patch \/ DeleteObject \/ Load \/ Read \/ Update
  <2>1. Account'
    BY <1>4, BeginAccount, LookAccount, LookAgainAccount, WriteAccount, OtherAccount
  <2> QED
    BY <2>1, MarkedStep DEF Account, PassInv
<1> QED
  BY <1>1, <1>2, <1>3, <1>4, UsersKeepExistence DEF Next, Pass, Environment

LEMMA AccountAtFirst == Init => PassInv
<1> SUFFICES ASSUME Init PROVE PassInv
  OBVIOUS
<1>1. todo = <<>> /\ ~running /\ ~missing /\ Left = {} /\ Sorted(todo)
  BY NoCalls DEF Init, Left, Range, Orderly
<1> QED
  BY <1>1 DEF Init, PassInv, PlanInv, MarkedExist, SpecsInv, SpecsOf, Absent

----------------------------------------------------------------------------
(* A pass is one step *)

\* A pass that is over leaves the templates and workloads that it found, or more or fewer of them
\* as far as its switch says so.
LEMMA PartlySeen ==
  ASSUME TypeInv, PassInv, running, running' = FALSE, UNCHANGED <<asked, obj, missed>>,
         Wanted # "deleted"
  PROVE  Seen!Partly(Wanted)
<1>1. Templated' = Templated /\ Up' = Up /\ TemplatesInv /\ WorkloadsInv
  BY DEF Templated, Up, PassInv
<1>2. \E done \in SUBSET Seen!Templates : Templated' = before.tpls \cup done
  <2>1. Templated \subseteq Seen!Templates /\ before.tpls \subseteq Templated
    BY <1>1 DEF Templated, Templates, Seen!Templates, TemplatesInv
  <2>2. Templated' = before.tpls \cup Templated
    BY <1>1, <2>1
  <2> QED
    BY <2>1, <2>2
<1>3. Up' \in {before.up} \cup
                (IF Wanted # "nil" /\ "yurttunnel" \in Templated' THEN {Wanted = "on"} ELSE {})
  <2>1. Loaded => "yurttunnel" \in Templated'
    BY <1>1, NamesApart DEF Loaded, Templated
  <2>2. CASE Wanted = "on"
    <3>1. Up' = before.up \/ (Up' = TRUE /\ Loaded)
      BY <1>1, <2>2 DEF WorkloadsInv, OnInv, Up
    <3> QED
      BY <2>1, <2>2, <3>1
  <2>3. CASE Wanted = "off"
    <3>1. Up' = before.up \/ (Up' = FALSE /\ Loaded)
      BY <1>1, <2>3 DEF WorkloadsInv, OffInv, Up
    <3>2. (Wanted = "on") = FALSE
      BY <2>3
    <3> QED
      BY <2>1, <2>3, <3>1, <3>2
  <2>4. CASE Wanted = "nil"
    BY <1>1, <2>4 DEF WorkloadsInv, NilInv
  <2> QED
    BY <2>2, <2>3, <2>4, WantedTyped
<1> QED
  BY <1>2, <1>3 DEF Seen!Partly

LEMMA PartlyCleanedSeen ==
  ASSUME TypeInv, PassInv, running, running' = FALSE, UNCHANGED <<asked, obj, missed>>,
         Wanted = "deleted"
  PROVE  Seen!PartlyCleaned
<1>1. Templated' = Templated /\ Up' = Up /\ TemplatesInv /\ WorkloadsInv
  BY DEF Templated, Up, PassInv
<1>2. Templated' = before.tpls
  BY <1>1 DEF TemplatesInv
<1>3. Up' = before.up \/ ("yurttunnel" \in before.tpls /\ Up' = FALSE)
  <2>1. Loaded => "yurttunnel" \in before.tpls
    BY <1>1, <1>2, NamesApart DEF Loaded, Templated
  <2> QED
    BY <1>1, <2>1 DEF WorkloadsInv, OffInv, Up
<1> QED
  BY <1>2, <1>3 DEF Seen!PartlyCleaned

LEMMA CrashSeen ==
  ASSUME TypeInv, PassInv, Crash
  PROVE  Seen!Next
<1>1. running /\ running' = FALSE /\ UNCHANGED <<asked, obj, missed>> /\ result' = "none"
  BY DEF Crash, NoPass, clusterVars
<1>2. Seen!Died(Wanted)
  BY <1>1, PartlySeen, PartlyCleanedSeen DEF Seen!Died
<1> QED
  BY <1>2 DEF Seen!Next, Wanted

LEMMA PanicSeen ==
  ASSUME Inv, TypeInv, PassInv, Panic
  PROVE  Seen!Next
<1>1. /\ running /\ running' = FALSE /\ UNCHANGED <<asked, obj, missed>> /\ result' = "panic"
      /\ todo # <<>> /\ Current.kind = "panic"
  BY DEF Panic, NoPass, clusterVars, At, Inv, Begun
<1>2. Wanted = "nil"
  BY <1>1, CurrentFits DEF Fits
<1>3. Loaded
  <2>1. LoadCall.kind = "load" /\ ~Early(Current) /\ LoadCall # Current
    BY <1>1 DEF LoadCall, Call, Early
  <2> QED
    BY <1>1, <2>1, CurrentFits DEF Before, PassInv, TemplatesInv
<1>4. "yurttunnel" \in Templated'
  BY <1>1, <1>3, NamesApart DEF Loaded, Templated
<1>5. Seen!PartlyPanicked(Wanted)
  BY <1>1, <1>2, <1>4, PartlySeen DEF Seen!PartlyPanicked
<1> QED
  BY <1>2, <1>5 DEF Seen!Next, Seen!Apply, Wanted

LEMMA FailureSeen ==
  ASSUME TypeInv, PassInv, End, errs
  PROVE  Seen!Next
<1>1. running /\ running' = FALSE /\ UNCHANGED <<asked, obj, missed>> /\ result' = "error"
  BY DEF End, NoPass, clusterVars
<1>2. CASE Wanted = "deleted"
  <2>1. Seen!CleanFailed
    BY <1>1, <1>2, PartlyCleanedSeen DEF Seen!CleanFailed
  <2> QED
    BY <1>2, <2>1 DEF Seen!Next, Seen!Delete, Wanted
<1>3. CASE Wanted # "deleted"
  <2>1. Seen!ApplyFailed(Wanted)
    BY <1>1, <1>3, PartlySeen DEF Seen!ApplyFailed
  <2> QED
    BY <1>3, <2>1 DEF Seen!Next, Seen!Apply, Wanted
<1> QED
  BY <1>2, <1>3

\* A pass without an error has applied, or cleaned up, all that it was for.
LEMMA SuccessSeen ==
  ASSUME TypeInv, PassInv, End, ~errs
  PROVE  Seen!Next
<1>1. /\ running /\ running' = FALSE /\ UNCHANGED <<asked, obj>> /\ result' = "ok"
      /\ missed' = missing /\ todo = <<>>
  BY DEF End, NoPass, clusterVars
<1>2. Templated' = Templated /\ Up' = Up /\ TemplatesInv /\ WorkloadsInv /\ Left = {}
  BY <1>1 DEF Templated, Up, PassInv, Left, Range
<1>3. Loaded
  BY <1>2 DEF TemplatesInv
<1>4. CASE Wanted = "deleted"
  <2>1. "yurttunnel" \in before.tpls /\ Templated' = before.tpls
    BY <1>2, <1>3, <1>4, NamesApart DEF TemplatesInv, Loaded, Templated
  <2>2. OffInv
    BY <1>2, <1>4 DEF WorkloadsInv
  <2>3. CASE missing
    <3>1. Up' = before.up
      BY <1>2, <2>2, <2>3 DEF OffInv, Up
    <3>2. missed' = TRUE
      BY <1>1, <2>3 DEF TypeInv, TypeOK
    <3>3. Seen!CleanedButMissed
      BY <1>1, <2>1, <3>1, <3>2 DEF Seen!CleanedButMissed
    <3> QED
      BY <1>4, <3>3 DEF Seen!Next, Seen!Delete, Wanted
  <2>4. CASE ~missing
    <3>1. Up' = FALSE
      BY <1>2, <2>2, <2>4 DEF OffInv, Up
    <3>2. missed' = FALSE
      BY <1>1, <2>4 DEF TypeInv, TypeOK
    <3>3. Seen!Cleaned
      BY <1>1, <2>1, <3>1, <3>2 DEF Seen!Cleaned
    <3> QED
      BY <1>4, <3>3 DEF Seen!Next, Seen!Delete, Wanted
  <2> QED
    BY <2>3, <2>4
<1>5. CASE Wanted # "deleted"
  <2>1. Templated' = Seen!Templates
    BY <1>2, <1>5 DEF TemplatesInv, Templated, Templates, Seen!Templates
  <2>2. Wanted # "nil"
    BY <1>2 DEF WorkloadsInv, NilInv
  <2>3. CASE Wanted = "on"
    <3>1. Up' = TRUE
      BY <1>2, <2>3, NamesApart DEF WorkloadsInv, OnInv, Up
    <3>2. missed' = FALSE
      BY <1>1, <1>2, <2>3 DEF TypeInv, TypeOK, WorkloadsInv
    <3>3. Seen!Applied(Wanted)
      BY <1>1, <2>1, <2>3, <3>1, <3>2 DEF Seen!Applied
    <3> QED
      BY <1>5, <3>3 DEF Seen!Next, Seen!Apply, Wanted
  <2>4. CASE Wanted = "off" /\ missing
    <3>1. Up' = before.up
      BY <1>2, <2>4 DEF WorkloadsInv, OffInv, Up
    <3>2. missed' = TRUE
      BY <1>1, <2>4 DEF TypeInv, TypeOK
    <3>3. Seen!AppliedButMissed(Wanted)
      BY <1>1, <2>1, <2>4, <3>1, <3>2 DEF Seen!AppliedButMissed
    <3> QED
      BY <1>5, <3>3 DEF Seen!Next, Seen!Apply, Wanted
  <2>5. CASE Wanted = "off" /\ ~missing
    <3>1. Up' = FALSE
      BY <1>2, <2>5 DEF WorkloadsInv, OffInv, Up
    <3>2. missed' = FALSE
      BY <1>1, <2>5 DEF TypeInv, TypeOK
    <3>3. Up' = (Wanted = "on")
      BY <2>5, <3>1
    <3>4. Seen!Applied(Wanted)
      BY <1>1, <2>1, <2>5, <3>2, <3>3 DEF Seen!Applied
    <3> QED
      BY <1>5, <3>4 DEF Seen!Next, Seen!Apply, Wanted
  <2> QED
    BY <1>5, <2>2, <2>3, <2>4, <2>5, WantedTyped
<1> QED
  BY <1>4, <1>5

\* While a pass is under way, and between the passes, nothing is to be seen.
LEMMA Unseen ==
  ASSUME Inv, TypeInv, PassInv, [Next]_vars, ~(Panic \/ End \/ Crash)
  PROVE  UNCHANGED Seen!runVars
<1>1. CASE Begin
  <2>1. /\ ~running /\ running' /\ before' = [tpls |-> Templated, up |-> Up]
        /\ UNCHANGED <<result, missed>>
    BY <1>1 DEF Begin, outcomeVars
  <2> QED
    BY <2>1 DEF Seen!runVars
<1>2. CASE Look \/ LookAgain \/ Patch \/ DeleteObject \/ Load \/ Read \/ Update
  <2>1. running /\ UNCHANGED <<running, before, result, missed>>
    BY <1>2 DEF Look, LookAgain, Patch, DeleteObject, Changes, Load, Read, Update, At, Inv, Begun,
       outcomeVars
  <2> QED
    BY <2>1 DEF Seen!runVars
<1>3. ASSUME UNCHANGED passVars, UNCHANGED outcomeVars,
             \A o \in Templates \cup Workloads : obj'[o].exists = obj[o].exists
      PROVE  UNCHANGED Seen!runVars
  <2>1. Templated' = Templated /\ Up' = Up /\ UNCHANGED <<running, before, result, missed>>
    BY <1>3 DEF Templated, Up, passVars, outcomeVars
  <2> QED
    BY <2>1 DEF Seen!runVars
<1>4. CASE \/ \E o \in Editable, mark \in BOOLEAN : UserEdits(o, mark)
           \/ \E o \in Removable : UserRemoves(o)
  BY <1>3, <1>4, UsersKeepExistence DEF UserEdits, UserRemoves
<1>5. CASE \/ SeeYC \/ SeeNodes \/ UNCHANGED vars
           \/ \E g \in Grants : OthersGrant(g)
           \/ \E s \in UpdateSpecs : UserUpdates(s)
           \/ UserDeletes \/ Released
           \/ \E n \in Sizes : Resize(n)
  <2>1. UNCHANGED passVars /\ UNCHANGED outcomeVars /\ UNCHANGED obj
    BY <1>5 DEF SeeYC, SeeNodes, vars, OthersGrant, UserUpdates, UserDeletes, Released, Resize,
       clusterVars
  <2> QED
    BY <1>3, <2>1
<1> QED
  BY <1>1, <1>2, <1>4, <1>5 DEF Next, Pass, Environment

\* Where the switches of the server and the agent agree, each pass of the manager, call by call,
\* with whatever calls fail, users interfere and the manager dies, does what ManagerRuns allows in
\* a single step, which is what YurtOperator takes a pass to be: a pass that reports success has
\* applied all, or has left nothing behind that it did not miss (reconcile, reconcileDelete).
THEOREM PassesImplement ==
  ASSUME SwitchesPaired
  PROVE  Spec => PassesAsSeen
<1>1. Init => Seen!Init
  <2> SUFFICES ASSUME Init PROVE Seen!Init
    OBVIOUS
  <2>1. \A o \in Templates \cup Workloads : obj[o].exists = FALSE
    BY DEF Init, Absent, Templates, Workloads, Objects, ServerObjects
  <2>2. Templated = {} /\ Up = FALSE
    BY <2>1 DEF Templated, Up
  <2> QED
    BY <2>2 DEF Init, Seen!Init
<1>2. ASSUME Inv, TypeInv, PassInv, [Next]_vars
      PROVE  [Seen!Next]_Seen!runVars
  BY <1>2, Unseen, CrashSeen, PanicSeen, FailureSeen, SuccessSeen
<1>3. ASSUME Inv, TypeInv, PassInv, [Next]_vars
      PROVE  PassInv'
  BY <1>3, AccountStep DEF SpecsOf, SwitchesPaired
<1> QED
  BY <1>1, <1>2, <1>3, InitInv, InvStep, TypesAtFirst, TypesStep, AccountAtFirst, PTL
     DEF Spec, PassesAsSeen, Seen!Spec
=============================================================================
