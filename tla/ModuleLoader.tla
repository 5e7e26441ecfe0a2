---------------------------- MODULE ModuleLoader ----------------------------
(***************************************************************************)
(* The module table of src/core/ngx_squ_module.c through configurations    *)
(* and reloads, as the master process sees it.  ngx_squ_modules, the index *)
(* in each module and the two counters are globals and outlive a           *)
(* configuration; the array of module configurations belongs to a cycle.   *)
(* nginx (external) calls create_conf, then the directives in the order of *)
(* the file, then init_conf and init_module; when any of them fails it     *)
(* goes on with the cycle it has, and workers it starts later use that.    *)
(***************************************************************************)
EXTENDS Naturals, Sequences, SequencesExt, FiniteSets

CONSTANTS
    Static,      \* the modules linked in: the initial ngx_squ_modules
    Files,       \* module files for squ_load_module
    Provides,    \* ngx_squ_get_modules() of each file
    TypeOf,      \* the type of each module: "core", or the protocol it is for
    MaxModules,  \* NGX_SQU_MAX_MODULES
    MaxCycles,   \* bound: configurations read
    MaxLines     \* bound: directives in one configuration

Dynamic == UNION {ToSet(Provides[f]) : f \in Files}
Mods == ToSet(Static) \cup Dynamic
CoreMods == {m \in Mods : TypeOf[m] = "core"}

ASSUME LoaderAssumption ==
    /\ Static \in Seq(Mods) /\ IsInjective(Static)
    /\ Provides \in [Files -> Seq(Mods)]
    /\ \A f \in Files : IsInjective(Provides[f])
    /\ ToSet(Static) \cap Dynamic = {}
    /\ DOMAIN TypeOf = Mods
    /\ MaxModules \in Nat /\ Len(Static) < MaxModules
    /\ MaxCycles \in Nat /\ MaxLines \in Nat

VARIABLES
    modules,    \* ngx_squ_modules up to its NULL; its length is ngx_squ_max_module
    index,      \* index[m]: m->index, counted from 1; 0 when never set
    handles,    \* ngx_squ_max_handle
    phase,      \* "idle", or "config" while a configuration is read
    conf,       \* scf->conf of the configuration being read
    lines,      \* directives read of it
    accepted,   \* modules with a directive accepted since their last load
    active,     \* scf->conf of the cycle in use
    running,    \* the modules configured in the cycle in use
    cycles      \* configurations read so far

confVars == <<conf, lines, accepted>>
activeVars == <<active, running>>
loaderVars == <<modules, index, handles, phase, confVars, activeVars, cycles>>

Slots == 1 .. MaxModules
NoConf == [of |-> "none", set |-> FALSE]
NewConf(m) == IF m \in CoreMods THEN [of |-> m, set |-> FALSE] ELSE NoConf
Empty == [i \in Slots |-> NoConf]
PositionsOf(m) == {i \in DOMAIN modules : modules[i] = m}

LoaderInit ==
    /\ modules = Static
    /\ index = [m \in Mods |-> 0]
    /\ handles = 0 /\ phase = "idle" /\ cycles = 0
    /\ conf = Empty /\ lines = 0 /\ accepted = {}
    /\ active = Empty /\ running = {}

\* ngx_squ_create_conf: every entry of the table gets the next index, so that a
\* module entered twice keeps the later one; then every entry of a core module
\* gets a configuration at its module's index.
LatestEntry(m) == CHOOSE i \in PositionsOf(m) : \A j \in PositionsOf(m) : j <= i

\* Variant: the indexes of an earlier configuration are kept.
CreateConfKeepsIndex ==
    /\ phase = "idle" /\ cycles < MaxCycles
    /\ cycles = 0 \/ running # {}
    /\ Len(modules) < MaxModules
    /\ conf' = [i \in Slots |->
                   IF i \in DOMAIN modules /\ LatestEntry(modules[i]) = i
                     THEN NewConf(modules[i]) ELSE NoConf]
    /\ phase' = "config" /\ cycles' = cycles + 1
    /\ lines' = 0 /\ accepted' = {}
    /\ UNCHANGED <<modules, index, handles, activeVars>>

CreateConf ==
    /\ phase = "idle" /\ cycles < MaxCycles
    /\ cycles = 0 \/ running # {}          \* a failed first start ends nginx
    /\ Len(modules) < MaxModules            \* the table ends with a NULL
    /\ index' = [m \in Mods |-> IF PositionsOf(m) # {} THEN LatestEntry(m) ELSE index[m]]
    /\ conf' = [i \in Slots |->
                   IF i \in DOMAIN modules /\ LatestEntry(modules[i]) = i
                     THEN NewConf(modules[i]) ELSE NoConf]
    /\ phase' = "config" /\ cycles' = cycles + 1
    /\ lines' = 0 /\ accepted' = {}
    /\ UNCHANGED <<modules, handles, activeVars>>

\* The configuration that was read is in use, or freed with its pool.
ForgetConf == conf' = Empty /\ lines' = 0 /\ accepted' = {}

\* A failure anywhere: nginx keeps the cycle it has.
Abandon == phase' = "idle" /\ ForgetConf /\ UNCHANGED <<activeVars, cycles>>

\* Variant: the modules of the file go in front of those of the table.
EnterFront(f, k, n) ==
    /\ modules' = SubSeq(Provides[f], 1, k) \o modules
    /\ index' = [m \in Mods |->
                    IF \E i \in 1 .. n : Provides[f][i] = m
                      THEN CHOOSE i \in 1 .. n : Provides[f][i] = m
                      ELSE index[m]]

\* squ_load_module enters the first k modules of file f at the end of the table;
\* n of them have had their index set.
Enter(f, k, n) ==
    LET base == Len(modules)
    IN /\ modules' = modules \o SubSeq(Provides[f], 1, k)
       /\ index' = [m \in Mods |->
                       IF \E i \in 1 .. n : Provides[f][i] = m
                         THEN base + (CHOOSE i \in 1 .. n : Provides[f][i] = m)
                         ELSE index[m]]

\* ngx_squ_load_module
LoadModule(f) ==
    /\ phase = "config" /\ lines < MaxLines
    /\ Len(modules) < MaxModules /\ handles < MaxModules
    /\ Len(modules) + Len(Provides[f]) <= MaxModules
    /\ Enter(f, Len(Provides[f]), Len(Provides[f]))
    /\ conf' = [i \in Slots |->
                   IF i \in Len(modules) + 1 .. Len(modules')
                     THEN NewConf(modules'[i]) ELSE conf[i]]
    /\ handles' = handles + 1
    /\ lines' = lines + 1
    /\ accepted' = accepted \ ToSet(Provides[f])
    /\ UNCHANGED <<phase, activeVars, cycles>>

\* dlopen or dlsym fails, or create_conf of the module after the first k fails.
LoadModuleFails(f) ==
    /\ phase = "config" /\ lines < MaxLines
    /\ Len(modules) < MaxModules /\ handles < MaxModules
    /\ \/ UNCHANGED <<modules, index>>
       \/ \E k \in 0 .. Len(Provides[f]) - 1 :
             /\ Len(modules) + k < MaxModules
             /\ Provides[f][k + 1] \in CoreMods
             /\ Enter(f, k, k + 1)
    /\ Abandon
    /\ UNCHANGED handles

\* "not allowed more modules can be loaded": at once, or when the table is full
\* part way through the file.
LoadModuleLimit(f) ==
    /\ phase = "config" /\ lines < MaxLines
    /\ LET room == IF handles < MaxModules THEN MaxModules - Len(modules) ELSE 0
       IN (room = 0 \/ room < Len(Provides[f])) /\ Enter(f, room, room)
    /\ Abandon
    /\ UNCHANGED handles

\* Variant: the directive goes to the position of the entry that matched.
SetDirectiveAtEntry(m) ==
    /\ phase = "config" /\ lines < MaxLines
    /\ m \in CoreMods /\ PositionsOf(m) # {}
    /\ LET i == CHOOSE j \in PositionsOf(m) : \A k \in PositionsOf(m) : j <= k
       IN conf' = [conf EXCEPT ![i].set = TRUE]
    /\ lines' = lines + 1
    /\ accepted' = accepted \cup {m}
    /\ UNCHANGED <<modules, index, handles, phase, activeVars, cycles>>

\* ngx_squ_set_directive: the first entry of the table that knows the name.
SetDirective(m) ==
    /\ phase = "config" /\ lines < MaxLines
    /\ m \in CoreMods /\ PositionsOf(m) # {}
    /\ conf' = [conf EXCEPT ![index[m]].set = TRUE]
    /\ lines' = lines + 1
    /\ accepted' = accepted \cup {m}
    /\ UNCHANGED <<modules, index, handles, phase, activeVars, cycles>>

\* An unknown directive, a wrong number of arguments, a value that is refused;
\* or any error of nginx's own in the file; or init_conf or init_module fails.
ConfFails ==
    /\ phase = "config"
    /\ Abandon
    /\ UNCHANGED <<modules, index, handles>>

\* ngx_squ_init_conf and ngx_squ_module_init succeed: the new cycle is in use.
ConfDone ==
    /\ phase = "config"
    /\ phase' = "idle"
    /\ active' = conf /\ running' = ToSet(modules) /\ ForgetConf
    /\ UNCHANGED <<modules, index, handles, cycles>>

\* The lines squ_load_module and squ_set_directive of the file.
LoaderLine ==
    \/ \E f \in Files : LoadModule(f) \/ LoadModuleFails(f) \/ LoadModuleLimit(f)
    \/ \E m \in Mods : SetDirective(m)

-----------------------------------------------------------------------------
(* Properties                                                               *)

\* ngx_squ_get_conf(cycle, module) of any core module of the table finds that
\* module's own configuration, whatever was loaded, twice or again, before.
OwnConf ==
    phase = "config" =>
        \A m \in ToSet(modules) \cap CoreMods : index[m] \in Slots /\ conf[index[m]].of = m

\* A directive that was accepted is in the configuration its module will use,
\* unless the file of the module is loaded after it.
DirectivesStick ==
    phase = "config" => \A m \in accepted : conf[index[m]].set

\* A worker started at any time, during or after any number of failed reloads,
\* finds the configuration of every linked-in module at its index.
StaticSurvives ==
    \A m \in running \cap ToSet(Static) \cap CoreMods : active[index[m]].of = m

=============================================================================
