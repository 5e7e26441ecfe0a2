--------------------------- MODULE AutorunProofs ---------------------------
(***************************************************************************)
(* Theorems about Autorun, for any number of processes, workers, zones and *)
(* reloads.                                                                *)
(***************************************************************************)
EXTENDS Autorun, Integers, TLAPS

\* A configuration that has a size has a zone.
SizeHasZone == cycle.size # 0 => cycle.zone # 0

\* Only a process that was forked from a configuration with a script, and that
\* therefore has a zone, has made anything of a script.
TakenInZone ==
    \A p \in Procs :
        /\ proc[p].of.on => Zone(p) # 0
        /\ script[p] # "none" => proc[p].stage # "unborn" /\ Zone(p) \in Zones

IInv == TypeOK /\ SizeHasZone /\ TakenInZone /\ OneRunnerPerZone /\ FlagTellsTruth

LEMMA ZonesFromOne == 0 \notin Zones /\ \A z \in Zones : z \in Int
<1>1. \A n : 0 \notin 1 .. n /\ \A z \in 1 .. n : z \in Int
  OBVIOUS
<1>2. Zones = 1 .. Cardinality(Zones)
  BY AutorunAssumption
<1> QED
  BY <1>1, <1>2, Zenon

LEMMA InitInv == Init => IInv
BY ZonesFromOne, AutorunAssumption
DEF Init, IInv, TypeOK, SizeHasZone, TakenInZone, OneRunnerPerZone, FlagTellsTruth,
    Cycle, Stages, ScriptStates, FreshFlag, Zone

\* Steps that leave the flags and the scripts alone, and the configuration of
\* every process that has taken a script.
LEMMA FlagsKept ==
    ASSUME IInv, TypeOK', UNCHANGED <<running, script>>,
           \A p \in Procs : proc'[p].of = proc[p].of
                            \/ (proc[p].stage = "unborn" /\ proc'[p].of = cycle),
           \A p \in Procs : proc'[p].stage = "unborn" => proc[p].stage = "unborn",
           SizeHasZone'
    PROVE  IInv'
<1>1. \A p \in Procs : script[p] # "none" => Zone(p)' = Zone(p)
  BY DEF IInv, TakenInZone, Zone
<1>2. TakenInZone'
  BY <1>1 DEF IInv, TakenInZone, TypeOK, Zone
<1>3. OneRunnerPerZone'
  BY <1>1 DEF IInv, OneRunnerPerZone
<1>4. FlagTellsTruth'
  BY <1>1 DEF IInv, FlagTellsTruth
<1> QED
  BY <1>2, <1>3, <1>4 DEF IInv

LEMMA ConfigureStep ==
    ASSUME IInv, NEW size \in ZoneSizes \cup {0}, NEW on \in BOOLEAN,
           Configure(size, on)
    PROVE  IInv'
<1> DEFINE zone == IF size = 0 THEN 0
                   ELSE IF size = cycle.size THEN cycle.zone ELSE zones + 1
<1>1. cycle' = [num |-> cycle.num + 1, zone |-> zone, size |-> size, on |-> on]
  BY DEF Configure
<1>2. zone \in Zones \cup {0} /\ (size # 0 => zone # 0)
  BY ZonesFromOne DEF Configure, IInv, TypeOK, SizeHasZone, Cycle
<1>3. zones' \in Zones \cup {0}
  BY <1>2 DEF Configure, IInv, TypeOK
<1>4. cycle' \in Cycle /\ (cycle'.on => cycle'.zone # 0)
  BY <1>1, <1>2 DEF Configure, IInv, TypeOK, Cycle
<1>5. TypeOK'
  BY <1>3, <1>4 DEF Configure, IInv, TypeOK
<1>6. SizeHasZone'
  BY <1>1, <1>2 DEF SizeHasZone
<1> QED
  BY <1>5, <1>6, FlagsKept DEF Configure

LEMMA ForkStep ==
    ASSUME IInv, NEW p \in Procs, Fork(p)
    PROVE  IInv'
<1>1. TypeOK'
  BY DEF Fork, IInv, TypeOK, Stages
<1>2. SizeHasZone'
  BY DEF Fork, IInv, SizeHasZone
<1>3. \A q \in Procs : proc'[q] = IF q = p THEN [stage |-> "init", of |-> cycle]
                                           ELSE proc[q]
  BY DEF Fork, IInv, TypeOK
<1> QED
  BY <1>1, <1>2, <1>3, FlagsKept DEF Fork

\* PassBy and Leave only move a process on.
LEMMA MoveStep ==
    ASSUME IInv, NEW p \in Procs, PassBy(p) \/ Leave(p)
    PROVE  IInv'
<1>1. TypeOK'
  BY DEF PassBy, Leave, Becomes, IInv, TypeOK, Stages
<1>2. SizeHasZone'
  BY DEF PassBy, Leave, IInv, SizeHasZone
<1>3. \A q \in Procs : proc'[q].of = proc[q].of
                       /\ (proc'[q].stage = proc[q].stage
                           \/ proc'[q].stage \in {"up", "gone"})
  BY DEF PassBy, Leave, Becomes, IInv, TypeOK
<1> QED
  BY <1>1, <1>2, <1>3, FlagsKept DEF PassBy, Leave

\* The flag was clear, so that no script had been taken in the zone.
LEMMA ClaimStep ==
    ASSUME IInv, NEW p \in Procs, Claim(p)
    PROVE  IInv'
<1>1. Zone(p) \in Zones
  BY DEF Claim, IInv, TakenInZone, TypeOK, Cycle, Zone
<1>2. \A q \in Procs : script[q] # "none" => Zone(q) # Zone(p)
  BY <1>1 DEF Claim, IInv, FlagTellsTruth
<1>3. \A q \in Procs : script'[q] = IF q = p THEN "claimed" ELSE script[q]
  BY DEF Claim, IInv, TypeOK
<1>4. \A z \in Zones : running'[z] = IF z = Zone(p) THEN TRUE ELSE running[z]
  BY DEF Claim, IInv, TypeOK
<1>5. \A q \in Procs : Zone(q)' = Zone(q)
  BY DEF Claim, Zone
<1>6. TypeOK'
  BY <1>1 DEF Claim, IInv, TypeOK, ScriptStates
<1>7. SizeHasZone' /\ TakenInZone'
  BY <1>1, <1>3, <1>5 DEF Claim, IInv, SizeHasZone, TakenInZone
<1>8. OneRunnerPerZone'
  BY <1>2, <1>3, <1>5 DEF IInv, OneRunnerPerZone
<1>9. FlagTellsTruth'
  BY <1>1, <1>2, <1>3, <1>4, <1>5, ZenonT(60) DEF IInv, FlagTellsTruth
<1> QED
  BY <1>6, <1>7, <1>8, <1>9 DEF IInv

\* A script that was taken goes on and stays taken.
LEMMA ScriptStep ==
    ASSUME IInv, NEW p \in Procs, ClaimFails(p) \/ Load(p) \/ Continue(p)
    PROVE  IInv'
<1>1. \A q \in Procs : script'[q] # "none" <=> script[q] # "none"
  BY DEF ClaimFails, Load, Continue, IInv, TypeOK, ScriptStates
<1>2. \A q \in Procs : proc'[q].of = proc[q].of
                       /\ (proc'[q].stage = proc[q].stage
                           \/ proc'[q].stage \in {"up", "fatal"})
  BY DEF ClaimFails, Load, Continue, Becomes, IInv, TypeOK
<1>3. TypeOK'
  BY SMTT(30) DEF ClaimFails, Load, Continue, Becomes, IInv, TypeOK, Stages, ScriptStates
<1>4. SizeHasZone' /\ running' = running
  BY DEF ClaimFails, Load, Continue, IInv, SizeHasZone
<1>5. TakenInZone'
  BY <1>1, <1>2 DEF IInv, TakenInZone, Zone
<1>6. OneRunnerPerZone' /\ FlagTellsTruth'
  BY <1>1, <1>2, <1>4 DEF IInv, OneRunnerPerZone, FlagTellsTruth, Zone
<1> QED
  BY <1>3, <1>4, <1>5, <1>6 DEF IInv

LEMMA StepInv == IInv /\ [Next]_vars => IInv'
<1> SUFFICES ASSUME IInv, [Next]_vars PROVE IInv'
  OBVIOUS
<1>1. CASE \E size \in ZoneSizes \cup {0}, on \in BOOLEAN : Configure(size, on)
  BY <1>1, ConfigureStep
<1>2. CASE \E p \in Procs : Fork(p)
  BY <1>2, ForkStep
<1>3. CASE \E p \in Procs : PassBy(p) \/ Leave(p)
  BY <1>3, MoveStep
<1>4. CASE \E p \in Procs : Claim(p)
  BY <1>4, ClaimStep
<1>5. CASE \E p \in Procs : ClaimFails(p) \/ Load(p) \/ Continue(p)
  BY <1>5, ScriptStep
<1>6. CASE UNCHANGED vars
  BY <1>6 DEF vars, IInv, TypeOK, SizeHasZone, TakenInZone, OneRunnerPerZone,
              FlagTellsTruth, Zone
<1> QED
  BY <1>1, <1>2, <1>3, <1>4, <1>5, <1>6 DEF Next

LEMMA Invariance == Spec => []IInv
  BY InitInv, StepInv, PTL DEF Spec

\* However many workers of however many cycles share a zone, die and are started
\* again, at most one of them ever starts its script.
THEOREM OneRunner == Spec => []OneRunnerPerZone
<1>1. IInv => OneRunnerPerZone
  BY DEF IInv
<1> QED
  BY <1>1, Invariance, PTL

\* The flag in a zone is set exactly when a worker has taken its script: a worker
\* that dies, fails or quits leaves it set, and nothing else sets it.
THEOREM FlagIsTrue == Spec => []FlagTellsTruth
<1>1. IInv => FlagTellsTruth
  BY DEF IInv
<1> QED
  BY <1>1, Invariance, PTL

=============================================================================
