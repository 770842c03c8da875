---------------------------- MODULE Remediation ----------------------------
(***************************************************************************)
(* "threatguard remediate" (cli/main.py): find out which controller owns   *)
(* the Pod of an incident (reporting/workload_resolver.py), write a        *)
(* playbook of commands for it (reporting/recommendations.py), show it.    *)
(* Every kubectl lookup is a step of its own and may fail.                 *)
(*                                                                         *)
(* A resource name is a sequence of segments, each of one class of the     *)
(* regular expressions: "hex" is 6 to 10 hexadecimal digits, "stamp" eight *)
(* decimal ones, "tail" five letters or digits, "ord" a small number, and  *)
(* anything else is a word.                                                *)
(***************************************************************************)
EXTENDS Naturals, Sequences, FiniteSets

CONSTANTS Pods  \* the cluster's: [name, owners, above]; above: the owners of its ReplicaSet

\* the references of a Pod are a list
PodAssumption == \A p \in Pods : p.owners \in Seq({p.owners[k] : k \in DOMAIN p.owners})

Ref(kind, name) == [kind |-> kind, name |-> name]

Restartable == {"Deployment", "StatefulSet", "DaemonSet"}
RunOnce     == {"Job", "CronJob"}
NoName      == <<>>
NoTarget    == Ref("", NoName)

\* reply of a lookup: an answer with references, or a failure
Answer(refs) == [ok |-> TRUE, refs |-> refs]
Failure      == [ok |-> FALSE, refs |-> <<>>]
Unasked      == Failure

----------------------------------------------------------------------------
(* Who owns a Pod *)

Front(s) == SubSeq(s, 1, Len(s) - 1)
Last(s)  == s[Len(s)]
Hex(seg) == seg \in {"hex", "stamp"}

\* _owner_name_to_deployment_name
HashStripped(name) == IF Len(name) >= 2 /\ Hex(Last(name)) THEN Front(name) ELSE NoName

Manual(owner, from) ==
  [owner |-> owner, from |-> from, manual |-> TRUE, status |-> ""]
Owned(owner, from) ==
  [owner |-> owner, from |-> from, manual |-> FALSE, status |-> ""]

\* remediation_target
Target(ref) == IF ~ref.manual /\ ref.owner.kind \in Restartable THEN ref.owner ELSE NoTarget

\* mutant: a name that fits no shape is taken for a Deployment's
NamingPatternGuess(name) ==
  IF name = NoName THEN Manual(NoTarget, "")
  ELSE IF Len(name) >= 3 /\ Last(name) = "tail" /\ Hex(Last(Front(name)))
    THEN Owned(Ref("Deployment", Front(Front(name))), "pod_name_pattern")
    ELSE Owned(Ref("Pod", name), "pod_name_pattern")

\* _resolve_via_naming_pattern
NamingPattern(name) ==
  IF name = NoName THEN Manual(NoTarget, "")
  ELSE IF Len(name) >= 3 /\ Last(name) = "tail" /\ Hex(Last(Front(name)))
    THEN Owned(Ref("Deployment", Front(Front(name))), "pod_name_pattern")
  ELSE IF Len(name) >= 2 /\ Last(name) \in {"ord", "stamp"}
    THEN Owned(Ref("StatefulSet", Front(name)), "pod_name_pattern")
  ELSE Manual(NoTarget, "")

\* _resolve_replicaset_owner: the Deployment above the ReplicaSet, else its name
DeploymentAbove(reply) ==
  LET named == {k \in 1 .. Len(reply.refs) :
                  reply.refs[k].kind = "Deployment" /\ reply.refs[k].name # NoName}
  IN IF reply.ok /\ named # {} THEN reply.refs[CHOOSE k \in named : \A m \in named : k <= m].name
     ELSE NoName

FromReplicaSet(owner, reply, from) ==
  IF DeploymentAbove(reply) # NoName
  THEN Owned(Ref("Deployment", DeploymentAbove(reply)), "live_api")
  ELSE IF HashStripped(owner.name) # NoName
    THEN Owned(Ref("Deployment", HashStripped(owner.name)), from)
    ELSE Manual(owner, from)

\* mutant: the first of several owners is taken
FromFirstReference(refs, reply, from) ==
  LET owner == refs[1]
  IN CASE owner.kind \in RunOnce      -> Manual(owner, from)
       [] owner.kind = "ReplicaSet"   -> FromReplicaSet(owner, reply, from)
       [] owner.kind \in Restartable  -> Owned(owner, from)
       [] OTHER                       -> Manual(owner, from)

\* _resolve_from_owner_references
FromReferences(refs, reply, from) ==
  LET owner == refs[1]
  IN IF Len(refs) > 1 \/ owner.kind = "" \/ owner.name = NoName THEN Manual(NoTarget, "")
     ELSE CASE owner.kind \in RunOnce     -> Manual(owner, from)
            [] owner.kind = "ReplicaSet"  -> FromReplicaSet(owner, reply, from)
            [] owner.kind \in Restartable -> Owned(owner, from)
            [] OTHER                      -> Manual(owner, from)

\* resolve_workload_owner, as it is called: no caller has the Pod's references
Resolve(name, live, podReply, rsReply) ==
  IF ~live \/ name = NoName THEN NamingPattern(name)
  ELSE IF ~podReply.ok THEN [NamingPattern(name) EXCEPT !.status = "failed"]
  ELSE IF podReply.refs = <<>> THEN [Manual(NoTarget, "live_api") EXCEPT !.status = "success"]
  ELSE [FromReferences(podReply.refs, rsReply, "live_api") EXCEPT !.status = "success"]

\* the Pod's references lead to a second lookup, of a ReplicaSet
AsksReplicaSet(reply) ==
  reply.ok /\ Len(reply.refs) = 1 /\ reply.refs[1].kind = "ReplicaSet" /\ reply.refs[1].name # NoName

----------------------------------------------------------------------------
(* The playbook *)

Step(action, target) == [action |-> action, target |-> target, review |-> target = NoTarget]
Advice(action)       == [action |-> action, target |-> NoTarget, review |-> FALSE]

Quarantine(ref) == Step("quarantine", IF ~ref.manual THEN ref.owner ELSE NoTarget)

\* generate_recommendations; seen: the groups of techniques the engine asks for
Playbook(ref, seen) ==
  <<Advice("capture")>>
    \o (IF "network" \in seen THEN <<Quarantine(ref)>> ELSE <<>>)
    \o (IF "credential" \in seen THEN <<Step("revoke", Target(ref))>> ELSE <<>>)
    \o (IF "escape" \in seen THEN <<Advice("cordon")>> ELSE <<>>)
    \o <<Step("drain", Target(ref)), Advice("harden")>>

----------------------------------------------------------------------------
(* The command *)

VARIABLES
  pod,      \* the affected Pod
  flags,    \* [live, apply]: of the command line
  seen,     \* groups of techniques of the incident
  pc,       \* "probe", "probe_rs", "resolve", "resolve_rs", "show", "done"
  podReply, \* reply of the last lookup of the Pod
  lookups,  \* <<kind, ok>> of every kubectl call, in order
  notice,   \* "Live Kubernetes ownership lookup unavailable" was printed
  ref,      \* the owner the playbook is written for
  playbook, executed

vars == <<pod, flags, seen, pc, podReply, lookups, notice, ref, playbook, executed>>

NoRef == Manual(NoTarget, "")

Init ==
  /\ pod \in Pods
  /\ flags \in [live : BOOLEAN, apply : BOOLEAN]
  /\ seen \in SUBSET {"network", "credential", "escape"}
  /\ pc = IF flags.live THEN "probe" ELSE "resolve"
  /\ podReply = Unasked /\ lookups = <<>> /\ notice = FALSE
  /\ ref = NoRef /\ playbook = <<>> /\ executed = <<>>

\* The probe decides on the notice only; the engine resolves again for its playbook.
Conclude(found) ==
  \/ /\ pc \in {"probe", "probe_rs"}
     /\ pc' = "resolve"
     /\ notice' = (found.status = "failed")
     /\ podReply' = Unasked
     /\ UNCHANGED <<ref, playbook>>
  \/ /\ pc \in {"resolve", "resolve_rs"}
     /\ pc' = "show"
     /\ ref' = found
     /\ playbook' = Playbook(found, seen)
     /\ UNCHANGED <<notice, podReply>>

\* without a client, or without a Pod to ask about
ResolveOffline ==
  /\ pc \in {"probe", "resolve"} /\ (~flags.live \/ pod.name = NoName)
  /\ Conclude(Resolve(pod.name, flags.live, Unasked, Unasked))
  /\ UNCHANGED <<pod, flags, seen, lookups, executed>>

LookUpPod(reply) ==
  /\ pc \in {"probe", "resolve"} /\ flags.live /\ pod.name # NoName
  /\ lookups' = Append(lookups, <<"Pod", reply.ok>>)
  /\ IF AsksReplicaSet(reply)
     THEN /\ pc' = IF pc = "probe" THEN "probe_rs" ELSE "resolve_rs"
          /\ podReply' = reply
          /\ UNCHANGED <<notice, ref, playbook>>
     ELSE Conclude(Resolve(pod.name, TRUE, reply, Unasked))
  /\ UNCHANGED <<pod, flags, seen, executed>>

LookUpReplicaSet(reply) ==
  /\ pc \in {"probe_rs", "resolve_rs"}
  /\ lookups' = Append(lookups, <<"ReplicaSet", reply.ok>>)
  /\ Conclude(Resolve(pod.name, TRUE, podReply, reply))
  /\ UNCHANGED <<pod, flags, seen, executed>>

\* --dry-run is store_true with default=True, so args.dry_run never is False
DryRun == TRUE

\* every command is printed, and run when that was asked for
Show ==
  /\ pc = "show"
  /\ executed' = IF ~DryRun /\ flags.apply THEN playbook ELSE <<>>
  /\ pc' = "done"
  /\ UNCHANGED <<pod, flags, seen, podReply, lookups, notice, ref, playbook>>

Next ==
  \/ ResolveOffline
  \/ \E reply \in {Failure, Answer(pod.owners)} : LookUpPod(reply)
  \/ \E reply \in {Failure, Answer(pod.above)} : LookUpReplicaSet(reply)
  \/ Show

Spec == Init /\ [][Next]_vars
----------------------------------------------------------------------------
(* Properties *)

TypeOK ==
  /\ pod \in Pods
  /\ pc \in {"probe", "probe_rs", "resolve", "resolve_rs", "show", "done"}
  /\ ref.manual \in BOOLEAN /\ ref.status \in {"", "success", "failed"}
  /\ ref.from \in {"", "live_api", "pod_name_pattern"}
  /\ ref.manual \/ ref.owner.kind \in Restartable

Automatic == {k \in 1 .. Len(playbook) : playbook[k].target # NoTarget}

\* the lookups the playbook rests on: the second half of what was asked
Resolved   == pc \in {"show", "done"}
RestsOn(k) == lookups[Len(lookups) - k]
Answered   ==
  /\ Resolved /\ ref.status = "success"
  /\ RestsOn(0)[2]

\* the controller a command may name for the Pod, if there is one
Controller ==
  IF Len(pod.owners) # 1 THEN NoTarget
  ELSE IF pod.owners[1].kind = "ReplicaSet" THEN Ref("Deployment", DeploymentAbove(Answer(pod.above)))
  ELSE IF pod.owners[1].kind \in Restartable THEN pod.owners[1]
  ELSE NoTarget

UnderDeployment == Len(pod.owners) = 1 /\ DeploymentAbove(Answer(pod.above)) # NoName

\* the lookup the owner was decided by has answered, with a Deployment for a ReplicaSet
Confirmed ==
  pod.owners[1].kind = "ReplicaSet" =>
    RestsOn(0)[2] /\ DeploymentAbove(Answer(pod.above)) # NoName

\* Where the lookup of the Pod answered, a command names the Pod's own controller, and a Pod
\* without one gets no automatic command, whatever its name looks like.  Only where the
\* second lookup failed, or found no Deployment above the ReplicaSet, is a name guessed: that
\* of the ReplicaSet without its hash, and none if it does not end in one.
AnsweredTargetsReal ==
  Resolved /\ ref.status = "success" =>
    \A k \in Automatic :
      /\ Len(pod.owners) = 1
      /\ Confirmed => playbook[k].target = Controller
      /\ ~Confirmed =>
           /\ HashStripped(pod.owners[1].name) # NoName
           /\ playbook[k].target = Ref("Deployment", HashStripped(pod.owners[1].name))

\* A failed lookup is never taken for "no owner" (workload_resolver.py:88): the
\* playbook is the one that the offline command writes.
FailureDegradesToOffline ==
  Resolved /\ ref.status = "failed"
    => playbook = Playbook(Resolve(pod.name, FALSE, Unasked, Unasked), seen)

\* The steps of one playbook agree: either each of them names the same controller, or
\* each is left to a person.
OneTarget ==
  \A j, k \in 1 .. Len(playbook) :
    {playbook[j].action, playbook[k].action} \subseteq {"quarantine", "revoke", "drain"}
      => playbook[j].target = playbook[k].target /\ playbook[j].review = playbook[k].review

\* Traces are taken before any step that may destroy them (recommendations.py:78).
CaptureFirst ==
  \A k \in 1 .. Len(playbook) :
    playbook[k].action = "capture" => \A j \in 1 .. k - 1 : playbook[j].action = "harden"

\* The notice is about a lookup that failed.
NoticeHasReason == notice => \E k \in 1 .. Len(lookups) : lookups[k] = <<"Pod", FALSE>>

\* Whoever gets commands from a fallback is told so (docs/security/
\* kubernetes-ownership-rbac.md:83).
FallbackAnnounced == Resolved /\ ref.status = "failed" => notice

\* "The live lookup issues exactly one or two read-only calls per remediation"
\* (docs/security/kubernetes-ownership-rbac.md:26).
AtMostTwoLookups == Len(lookups) <= 2

\* When the cluster says that no Deployment owns the ReplicaSet, no Deployment's name is
\* guessed (docs/security/kubernetes-ownership-rbac.md:28).
NoDeploymentInvented ==
  Answered /\ pod.owners # <<>> /\ pod.owners[1].kind = "ReplicaSet" /\ ~UnderDeployment
    => Automatic = {}

\* "Each resolution result records which method produced it"
\* (docs/security/kubernetes-ownership-rbac.md:98): live_api means that the API named it.
MethodRecorded ==
  Resolved /\ ref.from = "live_api" /\ ref.owner.kind = "Deployment" => RestsOn(0)[2]

\* A Job is not "safely auto-remediable" (workload_resolver.py:59), whatever its Pod's
\* name looks like.
NoCommandForJobs ==
  pod.owners # <<>> /\ pod.owners[1].kind \in RunOnce => Automatic = {}

\* --apply: "Execute commands on cluster (requires explicit flag)" (cli/main.py:373).
ApplyExecutes == pc = "done" /\ flags.apply => executed = playbook
=============================================================================
