--------------------------- MODULE MCEvidencePipeline ---------------------------
(* A small instance of EvidencePipeline: one scenario that must be blocked, one *)
(* that must be detected, and the benign control, in disjoint windows.          *)
EXTENDS EvidencePipeline

MCCatalog ==
  [shell  |-> [required |-> TRUE, rules |-> {"R001"}, enforcement |-> "block"],
   recon  |-> [required |-> TRUE, rules |-> {"R003"}, enforcement |-> "detect"],
   benign |-> [required |-> TRUE, rules |-> {}, enforcement |-> "none"]]

Run(rc, start) == [status |-> RunStatus(rc), exit |-> rc, start |-> start, end |-> start + 1]
Event(at, rule, kill) == [at |-> at, rule |-> rule, kill |-> kill, tag |-> NoScenario]

\* everything executed as expected; the block missed and a kill nobody expected; a
\* scenario without prerequisites in a results file that was cut short
MCRunChoices ==
  {[shell |-> Run(137, 0), recon |-> Run(0, 10),   benign |-> Run(0, 20)],
   [shell |-> Run(0, 0),   recon |-> Run(137, 10), benign |-> Run(0, 20)],
   [shell |-> Run(137, 0), recon |-> Run(125, 10)]}

Target(e) == [kind |-> "target", event |-> e]
Other(e)  == [kind |-> "other", event |-> e]

MCLines ==
  {Target(Event(1, "R001", FALSE)),  \* the shell's execve, observed only
   Target(Event(2, "R001", TRUE)),   \* the kprobe that killed it, within the grace
   Target(Event(9, "R003", FALSE)),  \* recon, stamped before its recorded start
   Target(Event(20, NoRule, FALSE)), \* the benign command
   Target(Event(21, "R003", FALSE)), \* a false alert on it
   Other(Event(10, "R003", FALSE)),
   [kind |-> "malformed", event |-> Event(0, NoRule, FALSE)]}

Traced(tag, rule, kill) == [at |-> 0, rule |-> rule, kill |-> kill, tag |-> tag]
MCFixture ==
  {Traced("shell", "R001", FALSE), Traced("shell", NoRule, TRUE),
   Traced("recon", "R003", FALSE), Traced("benign", NoRule, FALSE)}
=================================================================================
