---------------------------- MODULE MCEventAnalysis ----------------------------
(***************************************************************************)
(* EventAnalysis for TLC: the raw events, events, pods and files that make *)
(* the rules, the resolver and the loaders differ.                         *)
(***************************************************************************)
EXTENDS EventAnalysis
--------------------------------------------------------------------------------
(* Raw events: every family and path in the protected namespace, a shell    *)
(* outside it, and files that mix events with other lines.                  *)

Families == {"shell", "netutil", "recon", "nsenter", "privesc", "miner", "pkgmgr", "app"}
Paths    == {"exact", "below", "within", "plain"}

Event(shape, ns, arg, func, hole) ==
  [shape |-> shape, ns |-> ns, arg |-> arg, func |-> func, hole |-> hole]

Execs   == {Event("exec", "tg", f, {}, FALSE) : f \in Families}
Hooked  == {Event("kprobe", "tg", f, {"execve"}, FALSE) : f \in Families}
Opens   == {Event("kprobe", "tg", p, {"file"}, FALSE) : p \in Paths}
Others  == {Event("exec", "kube", "shell", {}, FALSE), Event("kprobe", "tg", "plain", {"connect"}, FALSE),
            Event("kprobe", "tg", "plain", {}, FALSE), Event("flat", "kube", "R7", {}, FALSE),
            Event("flat", "tg", "none", {}, FALSE)}
Holes   == {Event("exec", "tg", "shell", {}, TRUE), Event("kprobe", "tg", "shell", {"execve"}, TRUE),
            Event("kprobe", "tg", "exact", {"file"}, TRUE), Event("kprobe", "tg", "plain", {"connect"}, TRUE),
            Event("flat", "tg", "R7", {}, TRUE)}
MCRawEvents == Execs \cup Hooked \cup Opens \cup Others \cup Holes

Line(shape) == Event(shape, "tg", "none", {}, FALSE)
InFiles == {Line("badjson"), Line("blank"), Event("exec", "tg", "miner", {}, FALSE),
            Event("exec", "tg", "app", {}, FALSE), Event("exec", "tg", "shell", {}, TRUE), Line("scalar")}
MCFiles == UNION {[1 .. n -> InFiles] : n \in 0 .. 3}
--------------------------------------------------------------------------------
(* Events of two workloads and one without a pod, with timestamps of every  *)
(* form, bursts and gaps of more than two and five minutes.                 *)

Ev(id, ns, name, sev, tactic, tech, net, sec, form) ==
  [id |-> id, ns |-> ns, pod |-> name, severity |-> sev, tactic |-> tactic,
   technique |-> tech, net |-> net, stamp |-> [sec |-> sec, form |-> form]]

TargetPod == "threatguard-target-pod"
MCEvents ==
  {Ev(1, "threatguard", TargetPod, "CRITICAL", "Execution", "T1059.004", FALSE, 100, "zulu"),
   Ev(2, "threatguard", TargetPod, "MEDIUM", "Discovery", "T1082", FALSE, 100, "frac"),
   Ev(3, "threatguard", TargetPod, "CRITICAL", "Credential Access", "T1552.007", FALSE, 150, "zulu"),
   Ev(4, "threatguard", TargetPod, "HIGH", "Command and Control", "T1071", TRUE, 600, "frac"),
   Ev(5, "threatguard", TargetPod, "INFO", "", NoTechnique, FALSE, 20, "plus"),
   Ev(6, "kube-system", "other", "LOW", "Execution", "T9999", FALSE, 110, "zulu"),
   Ev(7, "threatguard", "", "HIGH", "Defense Evasion", "T1610", FALSE, 130, "plus")}

NoSpec == [given |-> FALSE, privileged |-> FALSE, host |-> FALSE, root |-> FALSE, writable |-> FALSE]
MCSpecs == {NoSpec, [NoSpec EXCEPT !.given = TRUE, !.root = TRUE],
            [f \in DOMAIN NoSpec |-> TRUE]}

MCTechniques == [t \in {"T1059.004", "T1082", "T1552.007", "T1071", "T1610"} |->
  CASE t = "T1059.004" -> 18 [] t = "T1082" -> 10 [] t = "T1552.007" -> 22
    [] t = "T1071" -> 15 [] OTHER -> 16]
MCNamespaces == [n \in {"kube-system", "threatguard", "threatguard-lab", "default"} |->
  CASE n = "kube-system" -> 30 [] n = "threatguard" -> 20 [] OTHER -> 10]
--------------------------------------------------------------------------------
(* Pods of every controller kind, with the names Kubernetes gives them.     *)

Ref(kind, name) == [kind |-> kind, name |-> name]
Rs(name) == <<Ref("ReplicaSet", name)>>

MCPods == {
  [name |-> <<"web", "hex", "tail">>, owners |-> Rs(<<"web", "hex">>), above |-> <<Ref("Deployment", <<"web">>)>>],
  [name |-> <<"web", "mixed", "tail">>, owners |-> Rs(<<"web", "mixed">>), above |-> <<Ref("Deployment", <<"web">>)>>],
  [name |-> <<"web", "hex", "tail">>, owners |-> Rs(<<"web", "hex">>), above |-> <<Ref("Rollout", <<"web">>)>>],
  [name |-> <<"web", "tail">>, owners |-> Rs(<<"web">>), above |-> <<>>],
  [name |-> <<"db", "ord">>, owners |-> <<Ref("StatefulSet", <<"db">>)>>, above |-> <<>>],
  [name |-> <<"log", "tail">>, owners |-> <<Ref("DaemonSet", <<"log">>)>>, above |-> <<>>],
  [name |-> <<"copy", "stamp", "tail">>, owners |-> <<Ref("Job", <<"copy", "stamp">>)>>, above |-> <<>>],
  [name |-> <<"etcd", "node">>, owners |-> <<Ref("Node", <<"node">>)>>, above |-> <<>>],
  [name |-> <<"two", "ord">>, owners |-> <<Ref("StatefulSet", <<"one">>), Ref("DaemonSet", <<"two">>)>>, above |-> <<>>],
  [name |-> <<"lone", "ord">>, owners |-> <<>>, above |-> <<>>],
  [name |-> <<"lone">>, owners |-> <<>>, above |-> <<>>],
  [name |-> <<>>, owners |-> <<>>, above |-> <<>>]}
--------------------------------------------------------------------------------
(* What the pipeline publishes, what it leaves when nothing happened, and   *)
(* a file with an item that from_dict refuses.                              *)

Input(kind, items) == [kind |-> kind, items |-> items]
Item(id, mode, ok) == [id |-> id, mode |-> mode, ok |-> ok]

MCPublished == {
  Input("garbage", <<>>),
  Input("list", <<>>),
  Input("list", <<Item("e1", "live", TRUE), Item("e2", "live", TRUE)>>),
  Input("list", <<Item("e3", "demo", TRUE)>>),
  Input("list", <<Item("e1", "live", TRUE), Item("e4", "live", FALSE)>>)}
================================================================================
