------------------------------ MODULE Autorun ------------------------------
(***************************************************************************)
(* squ_autorun (src/core/modules/ngx_squ_autorun_module.c): a script that   *)
(* one worker of all runs, from its start.  The worker that finds the      *)
(* running flag of the shared zone clear sets it and loads the script; the *)
(* flag is never cleared again.  The worker processes, their respawn, the  *)
(* reuse of a zone of the same name and size, and the order of a reload    *)
(* (new workers are started, then the old ones told to quit) are nginx's   *)
(* (external).                                                             *)
(***************************************************************************)
EXTENDS Naturals, FiniteSets

CONSTANTS
    Procs,       \* worker processes; each lives once
    NWorkers,    \* worker_processes
    Zones,       \* shared zones, numbered from 1 in order of creation
    ZoneSizes,   \* values of size= in squ_autorun
    MaxReloads   \* bound: reloads

ASSUME AutorunAssumption ==
    /\ NWorkers \in Nat \ {0}
    /\ Zones = 1 .. Cardinality(Zones)
    /\ 0 \notin ZoneSizes
    /\ MaxReloads \in Nat

VARIABLES
    zones,    \* zones created
    running,  \* running[z]: autorun->running in zone z
    cycle,    \* the cycle in use: its number, its zone and whether it has a script
    proc,     \* proc[p]: stage of p and the cycle it was forked from
    script    \* script[p]: what p has made of the script

vars == <<zones, running, cycle, proc, script>>

\* The zone of a configuration without squ_autorun is 0, and so is its size.
Cycle == [num : Nat, zone : Zones \cup {0}, size : ZoneSizes \cup {0}, on : BOOLEAN]

Stages == {"unborn", "init", "up", "gone", "fatal"}
ScriptStates == {"none", "claimed", "reading", "suspended", "ended", "failed"}

\* Variant: the flag of a new zone is not initialised.
FreshFlagUnset == TRUE

\* ngx_squ_autorun_init on a new zone.
FreshFlag == FALSE

Init ==
    /\ zones = 0
    /\ running = [z \in Zones |-> FreshFlag]
    /\ cycle = [num |-> 0, zone |-> 0, size |-> 0, on |-> FALSE]
    /\ proc = [p \in Procs |-> [stage |-> "unborn", of |-> cycle]]
    /\ script = [p \in Procs |-> "none"]

-----------------------------------------------------------------------------
(* The master process                                                       *)

\* Variant: a zone that is reused is initialised again.
ConfigureAnew(size, on) ==
    /\ cycle.num <= MaxReloads
    /\ on => size # 0
    /\ size # cycle.size /\ size # 0 => zones + 1 \in Zones
    /\ LET zone == IF size = 0 THEN 0
                   ELSE IF size = cycle.size THEN cycle.zone ELSE zones + 1
       IN /\ cycle' = [num |-> cycle.num + 1, zone |-> zone,
                       size |-> size, on |-> on]
          /\ zones' = IF zone > zones THEN zone ELSE zones
          /\ running' = IF zone = 0 THEN running
                        ELSE [running EXCEPT ![zone] = FreshFlag]
    /\ UNCHANGED <<proc, script>>

\* A configuration is read, the first or a reload: ngx_squ_autorun enters a zone,
\* ngx_squ_autorun_init_conf insists on one where there is a script, and
\* ngx_squ_autorun_init takes over the zone of the cycle before if nginx reuses it.
Configure(size, on) ==
    /\ cycle.num <= MaxReloads
    /\ on => size # 0
    /\ size # cycle.size /\ size # 0 => zones + 1 \in Zones
    /\ LET zone == IF size = 0 THEN 0
                   ELSE IF size = cycle.size THEN cycle.zone ELSE zones + 1
       IN /\ cycle' = [num |-> cycle.num + 1, zone |-> zone,
                       size |-> size, on |-> on]
          /\ zones' = IF zone > zones THEN zone ELSE zones
    /\ UNCHANGED <<running, proc, script>>

\* The workers of the cycle in use.  One whose initialisation failed is not
\* started again.
Started == {p \in Procs : proc[p].of.num = cycle.num
                          /\ proc[p].stage \in {"init", "up", "fatal"}}

Fork(p) ==
    /\ cycle.num > 0
    /\ proc[p].stage = "unborn"
    /\ Cardinality(Started) < NWorkers
    /\ proc' = [proc EXCEPT ![p] = [stage |-> "init", of |-> cycle]]
    /\ UNCHANGED <<zones, running, cycle, script>>

-----------------------------------------------------------------------------
(* A worker process                                                         *)

Zone(p) == proc[p].of.zone
Becomes(p, stage) == proc' = [proc EXCEPT ![p].stage = stage]

\* ngx_squ_autorun_process_init: no script, or another worker has taken it.
PassBy(p) ==
    /\ proc[p].stage = "init" /\ script[p] = "none"
    /\ proc[p].of.on => running[Zone(p)]
    /\ Becomes(p, "up")
    /\ UNCHANGED <<zones, running, cycle, script>>

\* The critical section of ngx_squ_autorun_process_init.
Claim(p) ==
    /\ proc[p].stage = "init" /\ script[p] = "none"
    /\ proc[p].of.on /\ ~running[Zone(p)]
    /\ running' = [running EXCEPT ![Zone(p)] = TRUE]
    /\ script' = [script EXCEPT ![p] = "claimed"]
    /\ UNCHANGED <<zones, cycle, proc>>

\* No memory for the thread, or no such script: the worker exits at once.
ClaimFails(p) ==
    /\ proc[p].stage = "init" /\ script[p] = "claimed"
    /\ Becomes(p, "fatal")
    /\ script' = [script EXCEPT ![p] = "failed"]
    /\ UNCHANGED <<zones, running, cycle>>

\* ngx_squ_load_script; ngx_squ_autorun_finalize takes no notice of its end.
Load(p) ==
    /\ proc[p].stage = "init" /\ script[p] = "claimed"
    /\ Becomes(p, "up")
    /\ \E r \in {"reading", "suspended", "ended", "failed"} :
          script' = [script EXCEPT ![p] = r]
    /\ UNCHANGED <<zones, running, cycle>>

\* The read completes, or an event resumes the script.
Continue(p) ==
    /\ proc[p].stage = "up" /\ script[p] \in {"reading", "suspended"}
    /\ \E r \in {"suspended", "ended", "failed"} :
          script' = [script EXCEPT ![p] = r]
    /\ UNCHANGED <<zones, running, cycle, proc>>

\* A worker of an earlier cycle quits; ngx_squ_autorun_process_exit destroys the
\* thread.  Or a worker dies.
Leave(p) ==
    /\ proc[p].stage \in {"init", "up"}
    /\ Becomes(p, "gone")
    /\ UNCHANGED <<zones, running, cycle, script>>

Next ==
    \/ \E size \in ZoneSizes \cup {0}, on \in BOOLEAN : Configure(size, on)
    \/ \E p \in Procs :
          \/ Fork(p) \/ PassBy(p) \/ Claim(p) \/ ClaimFails(p)
          \/ Load(p) \/ Continue(p) \/ Leave(p)

Spec == Init /\ [][Next]_vars

\* The master starts workers, and a worker's initialisation runs to its end.
FairSpec ==
    /\ Spec
    /\ \A p \in Procs : WF_vars(Fork(p)) /\ WF_vars(Claim(p) \/ PassBy(p))

-----------------------------------------------------------------------------
(* Properties                                                               *)

\* A configuration with a script also has a zone for its flag.
TypeOK ==
    /\ zones \in Zones \cup {0}
    /\ running \in [Zones -> BOOLEAN]
    /\ cycle \in Cycle /\ (cycle.on => cycle.zone # 0)
    /\ proc \in [Procs -> [stage : Stages, of : Cycle]]
    /\ script \in [Procs -> ScriptStates]

\* Of all the workers that ever share a zone, across crashes, respawns and
\* reloads that keep it, at most one ever starts the script.
OneRunnerPerZone ==
    \A p, q \in Procs :
        script[p] # "none" /\ script[q] # "none" /\ Zone(p) = Zone(q) => p = q

\* A flag is set exactly in the zones from which a worker has taken the script:
\* nothing but a worker's claim sets one, and no end of a worker clears one.
FlagTellsTruth ==
    \A z \in Zones :
        running[z] <=> \E p \in Procs : script[p] # "none" /\ Zone(p) = z

\* A configuration with a script gets some worker to take it, as long as the
\* configuration stays and the bound on processes is not met.
ScriptIsTaken ==
    cycle.on ~> \/ \E p \in Procs : script[p] # "none" /\ Zone(p) = cycle.zone
                \/ ~cycle.on
                \/ \A p \in Procs : proc[p].stage # "unborn"

=============================================================================
