---- MODULE MCCommandReceipts ----
\* Model checking of CommandReceipts: a batch whose derived identifiers are 3
\* and 4, and commands of every surface that share identifiers 1 and 2.
EXTENDS CommandReceipts, TLC

BatchCommand == [surface |-> "batch", id |-> 1,
  entries |-> <<[job |-> "j1", dest |-> "d1"], [job |-> "j2", dest |-> "d1"]>>]
Adds == {[surface |-> "add", id |-> 1, job |-> "j1", dest |-> "d1"],
         [surface |-> "add", id |-> 2, job |-> "j2", dest |-> "d1"],
         [surface |-> "add", id |-> 3, job |-> "j1", dest |-> "d2"]}
Gates == {[surface |-> "gate", id |-> 2, gate |-> "running", expected |-> 1]}
Control(i, a, e) == [surface |-> "control", id |-> i, job |-> "j1", action |-> a, expected |-> e]
Dispatches == {[surface |-> "dispatch", id |-> i, job |-> "j1", expected |-> 1] : i \in {4, 5}}
Edit(i, e, d) == [surface |-> "edit", id |-> i, job |-> "j1", expected |-> e, to |-> d]
Edits == {Edit(i, e, None) : i \in {4, 5}, e \in {1, 2}} \cup {Edit(i, 0, "d1") : i \in {4, 5}}
Configures == {[surface |-> "configure", id |-> 5]}

CreationCommands ==
  {BatchCommand} \cup Adds \cup Gates
  \cup {[surface |-> "dispatch", id |-> i, job |-> "j1", expected |-> e] : i \in {1, 4}, e \in {0, 1}}
  \cup {Control(5, "start_now", 0), Control(4, "pause", 4), Control(3, "remove", 3)}
WorkCommands ==
  {[surface |-> "add", id |-> 1, job |-> "j1", dest |-> "d1"]} \cup Gates \cup Dispatches
  \cup {Control(3, "start_now", 0), Control(3, "pause", 1), Control(2, "resume", 2)} \cup Edits \cup Configures
AllCommands == CreationCommands \cup WorkCommands
\* Two jobs with destinations of their own, and an edit that moves one of them.
MoveCommands ==
  {[surface |-> "add", id |-> 2, job |-> "j2", dest |-> "d1"],
   [surface |-> "add", id |-> 3, job |-> "j1", dest |-> "d2"], Edit(4, 0, "d1")}
MCChild == 1 :> <<3, 4>>
NoChild == [i \in {} |-> <<>>]
====
