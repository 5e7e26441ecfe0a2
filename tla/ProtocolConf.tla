---------------------------- MODULE ProtocolConf ----------------------------
(***************************************************************************)
(* One protocol block of a configuration, http { ... } or tcp { ... }, read *)
(* among the squ_ lines of the file, through reloads: the numbers that      *)
(* create_main_conf gives the modules of the protocol, the arrays of their  *)
(* configurations at every level, the script directives, and the merge of   *)
(* each level into the one inside it when the block ends.  src/udp and      *)
(* src/udt have the functions of src/tcp over again.                        *)
(*                                                                         *)
(* Levels are counted from the outside: 1 main, 2 server, 3 location and    *)
(* 4 a location inside it; the others have the first two.  A file has one   *)
(* block with one chain of levels, which is all a merge sees.  A module of  *)
(* a protocol keeps a configuration of one scope, with one directive that   *)
(* is allowed at the levels of the scope; its own merge takes the outer     *)
(* value when the level has none.                                           *)
(***************************************************************************)
EXTENDS ModuleLoader

CONSTANTS
    ScopeOf,     \* ScopeOf[m]: 1, 2 or 3 for main, srv or loc configuration
    Texts        \* arguments of the script directives; "" stands for none

ProtoMods(kind) == {m \in Mods : TypeOf[m] = kind}

ASSUME ProtocolAssumption ==
    /\ \A m \in Mods : TypeOf[m] \in {"core", "http", "tcp", "udp", "udt"}
    /\ DOMAIN ScopeOf = Mods \ CoreMods
    /\ \A m \in ProtoMods("http") : ScopeOf[m] \in 1 .. 3
    /\ \A m \in Mods \ (CoreMods \cup ProtoMods("http")) : ScopeOf[m] \in 1 .. 2
    /\ "" \notin Texts

VARIABLES
    ctxIndex,    \* ctxIndex[m]: m->ctx_index, counted from 1; 0 when never set
    top,         \* top[kind]: ngx_squ_http_max_module, ngx_squ_tcp_max_module, ...
    block,       \* the block of the configuration being read
    serving      \* modules of the block of the cycle in use, and whose arrays' slots are

protoVars == <<ctxIndex, top, block, serving>>
vars == <<loaderVars, protoVars>>

Kinds == {"http", "tcp", "udp", "udt"}
Levels(kind) == IF kind = "http" THEN 1 .. 4 ELSE 1 .. 2

\* The levels at which a module with that scope has a configuration.
LevelsOf(kind, scope) == IF scope < 3 THEN 1 .. scope ELSE Levels(kind)

NoService == [mods |-> {}, conf |-> <<>>]

\* ngx_squ_script_t as create_loc_conf leaves it.
NoPath == <<"none", "">>
NoScript == [from |-> "unset", path |-> NoPath, code |-> "", parser |-> "unset"]

NoBlock == [kind |-> "none", at |-> "none", depth |-> 0, mods |-> {},
            conf |-> <<>>, script |-> <<>>, given |-> <<>>, said |-> <<>>]

Init ==
    /\ LoaderInit
    /\ ctxIndex = [m \in Mods \ CoreMods |-> 0]
    /\ top = [k \in Kinds |-> 0]
    /\ block = NoBlock /\ serving = NoService

\* The names known to ngx_squ_parser_find, which answers NULL to others.
Parsers == {"default", "ssp"}
Find(name) == IF name \in Parsers THEN name ELSE "null"

\* The modules of the protocol that are in the table, and how many entries the
\* table has for them up to the i-th.
InTable(kind) == {m \in ToSet(modules) : TypeOf[m] = kind}
Counted(kind, i) == Cardinality({j \in 1 .. i : TypeOf[modules[j]] = kind})

\* Variant: the counter is not reset before the table is gone through.
NumberOn(kind) ==
    /\ ctxIndex' = [m \in DOMAIN ctxIndex |->
                        IF m \in InTable(kind) THEN top[kind] + Counted(kind, LatestEntry(m))
                        ELSE ctxIndex[m]]
    /\ top' = [top EXCEPT ![kind] = @ + Counted(kind, Len(modules))]

\* create_main_conf counts anew through the table; a module entered twice keeps
\* the later number.
Number(kind) ==
    /\ ctxIndex' = [m \in DOMAIN ctxIndex |->
                        IF m \in InTable(kind) THEN Counted(kind, LatestEntry(m))
                        ELSE ctxIndex[m]]
    /\ top' = [top EXCEPT ![kind] = Counted(kind, Len(modules))]

\* The array of one level for one scope: create_main_conf, create_srv_conf or
\* create_loc_conf of every module stores its configuration at ctx_index.
NewArray(kind, scope) ==
    [i \in 1 .. top'[kind] |->
        LET here == {m \in InTable(kind) : ScopeOf[m] = scope /\ ctxIndex'[m] = i}
        IN [of |-> IF here = {} THEN "none" ELSE CHOOSE m \in here : TRUE, val |-> 0]]

\* The block begins: all arrays of the main level.
OpenBlock(kind) ==
    /\ phase = "config" /\ block.at = "none"
    /\ Number(kind)
    /\ block' = [kind |-> kind, at |-> "open", depth |-> 1, mods |-> InTable(kind),
                 conf |-> [scope \in 1 .. 3 |-> <<NewArray(kind, scope)>>],
                 script |-> <<NoScript>>, given |-> <<>>,
                 said |-> [m \in InTable(kind) |-> 0]]
    /\ UNCHANGED <<loaderVars, serving>>

OpenHttp == OpenBlock("http")
OpenTcp == OpenBlock("tcp")
OpenUdp == OpenBlock("udp")
OpenUdt == OpenBlock("udt")

\* "server {", "location {": the arrays that this level has.
OpenLevel ==
    /\ phase = "config" /\ block.at = "open" /\ block.depth + 1 \in Levels(block.kind)
    /\ UNCHANGED <<loaderVars, ctxIndex, top, serving>>
    /\ LET d == block.depth + 1
       IN block' = [block EXCEPT !.depth = d,
              !.conf = [scope \in 1 .. 3 |->
                           IF d \in LevelsOf(block.kind, scope)
                             THEN Append(@[scope], NewArray(block.kind, scope)) ELSE @[scope]],
              !.script = Append(@, NoScript)]

\* A directive of a protocol module, allowed at the levels its module has a
\* configuration for.
PutDirective(kind, m) ==
    /\ block.kind = kind /\ phase = "config" /\ block.at = "open" /\ lines < MaxLines
    /\ m \in InTable(block.kind)
    /\ block.depth \in LevelsOf(block.kind, ScopeOf[m])
    /\ block' = [block EXCEPT
                    !.conf[ScopeOf[m]][block.depth][ctxIndex[m]].val = block.depth,
                    !.said[m] = block.depth]
    /\ lines' = lines + 1
    /\ UNCHANGED <<modules, index, handles, phase, conf, accepted, activeVars, cycles,
                   ctxIndex, top, serving>>

\* squ_http_set_directive, squ_tcp_set_directive and so on
HttpDirective(m) == PutDirective("http", m)
TcpDirective(m) == PutDirective("tcp", m)
UdpDirective(m) == PutDirective("udp", m)
UdtDirective(m) == PutDirective("udt", m)

\* The script directives are for locations in http, for main and server elsewhere.
ScriptLevel == block.kind = "http" => block.depth >= 3

Md5(text) == <<"md5", text>>

\* Variant: code keeps whatever path there is.
CodeScriptNoPath(s, t) == [s EXCEPT !.from = "conf", !.code = t]

\* ngx_squ_set_script_slot for ..._script_file and ..._script_code.
FileScript(s, t) == [s EXCEPT !.from = "file", !.path = <<"file", t>>]
CodeScript(s, t) == [s EXCEPT !.from = "conf", !.code = t, !.path = Md5(t)]

SetScript ==
    /\ phase = "config" /\ block.at = "open" /\ lines < MaxLines /\ ScriptLevel
    /\ block.script[block.depth].from = "unset"          \* else "is duplicate"
    /\ \E t \in Texts :
          \/ block' = [block EXCEPT !.script[block.depth] = FileScript(@, t)]
          \/ block' = [block EXCEPT !.script[block.depth] = CodeScript(@, t)]
    /\ lines' = lines + 1
    /\ UNCHANGED <<modules, index, handles, phase, conf, accepted, activeVars, cycles,
                   ctxIndex, top, serving>>

\* ngx_squ_set_script_parser_slot: a name that is not found is refused.
SetScriptParser ==
    /\ phase = "config" /\ block.at = "open" /\ lines < MaxLines /\ ScriptLevel
    /\ block.script[block.depth].parser = "unset"        \* else "is duplicate"
    /\ \E p \in Parsers : block' = [block EXCEPT !.script[block.depth].parser = Find(p)]
    /\ lines' = lines + 1
    /\ UNCHANGED <<modules, index, handles, phase, conf, accepted, activeVars, cycles,
                   ctxIndex, top, serving>>

\* ngx_conf_merge_..._value
Inherit(value, outer, none) == IF value = none THEN outer ELSE value

\* Fields are merged one by one.  Only the defaults differ: http takes the file
\* that the uri maps to and the parser "lsp", the others the parser "default".
MergeScript(kind, outer, s) ==
    LET parser == Inherit(s.parser, outer.parser, "unset")
        from == Inherit(s.from, outer.from, "unset")
    IN [from |-> IF kind = "http" THEN Inherit(from, "file", "unset") ELSE from,
        path |-> Inherit(s.path, outer.path, NoPath),
        code |-> Inherit(s.code, outer.code, ""),
        parser |-> Inherit(parser, Find(IF kind = "http" THEN "lsp" ELSE "default"), "unset")]

\* Variant: what the outer level has goes before what the level has.
MergeArrayOuter(outer, a) ==
    [i \in DOMAIN a |-> [a[i] EXCEPT !.val = Inherit(outer[i].val, @, 0)]]

\* The merge function of the modules in one array of a level.
MergeArray(outer, a) ==
    [i \in DOMAIN a |-> [a[i] EXCEPT !.val = Inherit(@, outer[i].val, 0)]]

\* "}" of the block: every level is merged into the next one, from the outside:
\* main into the server, the server into the location, the location into the one
\* inside it.
MergedArrays(levels) ==
    LET second == MergeArray(levels[1], levels[2])
        third == MergeArray(second, levels[3])
        fourth == MergeArray(third, levels[4])
    IN [l \in DOMAIN levels |->
           CASE l = 1 -> levels[1] [] l = 2 -> second [] l = 3 -> third [] l = 4 -> fourth]

MergedScripts ==
    LET merge(outer, l) == MergeScript(block.kind, outer, block.script[l])
        second == merge(block.script[1], 2)
        third == merge(second, 3)
        fourth == merge(third, 4)
    IN [l \in DOMAIN block.script |->
           CASE l = 1 -> block.script[1] [] l = 2 -> second [] l = 3 -> third [] l = 4 -> fourth]

CloseBlock(kind) ==
    /\ block.kind = kind /\ phase = "config" /\ block.at = "open"
    /\ block' = [block EXCEPT !.at = "closed",
                    !.conf = [scope \in 1 .. 3 |-> MergedArrays(@[scope])],
                    !.script = MergedScripts, !.given = block.script]
    /\ UNCHANGED <<loaderVars, ctxIndex, top, serving>>

CloseHttp == CloseBlock("http")

\* Elsewhere a server that ends up without a script is refused: "must be
\* specified".
CloseStream(kind) ==
    /\ CloseBlock(kind)
    /\ \A l \in 2 .. block.depth : MergedScripts[l].from # "unset"

CloseTcp == CloseStream("tcp")
CloseUdp == CloseStream("udp")
CloseUdt == CloseStream("udt")

Outside == block.at # "open"

\* Of the arrays of the cycle in use, what every slot is for is kept.
OwnersOf(c) ==
    [scope \in DOMAIN c |-> [l \in DOMAIN c[scope] |->
        [i \in DOMAIN c[scope][l] |-> [of |-> c[scope][l][i].of, val |-> 0]]]]

\* The end of the file, and the new cycle is in use; or its failure.
ProtoConfDone ==
    /\ Outside /\ ConfDone
    /\ serving' = [mods |-> block.mods, conf |-> OwnersOf(block.conf)]
    /\ block' = NoBlock /\ UNCHANGED <<ctxIndex, top>>

ProtoLine ==
    /\ Outside /\ LoaderLine
    /\ block' = IF phase' = "idle" THEN NoBlock ELSE block
    /\ UNCHANGED <<ctxIndex, top, serving>>

Next ==
    \/ CreateConf /\ UNCHANGED protoVars
    \/ ProtoLine
    \/ OpenHttp \/ OpenTcp \/ OpenUdp \/ OpenUdt \/ OpenLevel
    \/ CloseHttp \/ CloseTcp \/ CloseUdp \/ CloseUdt
    \/ \E m \in Mods \ CoreMods :
          HttpDirective(m) \/ TcpDirective(m) \/ UdpDirective(m) \/ UdtDirective(m)
    \/ SetScript \/ SetScriptParser
    \/ ConfFails /\ block' = NoBlock /\ UNCHANGED <<ctxIndex, top, serving>>
    \/ ProtoConfDone

Spec == Init /\ [][Next]_vars

-----------------------------------------------------------------------------
(* Properties                                                               *)

HasOwn(b, m) ==
    \A l \in DOMAIN b.conf[ScopeOf[m]] :
        /\ ctxIndex[m] \in DOMAIN b.conf[ScopeOf[m]][l]
        /\ b.conf[ScopeOf[m]][l][ctxIndex[m]].of = m

\* A protocol module that was in the table when its block began finds its own
\* configuration at ctx_index in the arrays of every level; and a worker started
\* at any time, after any number of later reloads that failed, finds that of
\* every linked-in module in the block it serves.
OwnBlockConf ==
    /\ \A m \in block.mods : HasOwn(block, m)
    /\ \A m \in serving.mods \cap ToSet(Static) : HasOwn(serving, m)

\* What a module has at the innermost level of its scope is what the innermost
\* directive for it said, whatever was loaded or said at the levels around it.
InnermostWins ==
    block.at = "closed" =>
        \A m \in block.mods :
            LET c == block.conf[ScopeOf[m]]
            IN c[Len(c)][ctxIndex[m]].val = block.said[m]

\* Fields of a script are merged one by one, and still the origin, the path (under
\* which it is cached) and the code that a level ends up with are those of one
\* directive, the innermost; the parser is that of the innermost parser directive.
OneDirective ==
    block.at = "closed" =>
        \A l \in 2 .. block.depth :
            LET s == block.script[l]
                scripts == {k \in 1 .. l : block.given[k].from # "unset"}
                parsers == {k \in 1 .. l : block.given[k].parser # "unset"}
            IN /\ IF scripts = {} THEN s.from = "file" /\ s.path = NoPath
                  ELSE LET g == block.given[Max(scripts)]
                       IN /\ s.from = g.from /\ s.path = g.path
                          /\ s.from = "conf" => s.code = g.code
               /\ parsers # {} => s.parser = block.given[Max(parsers)].parser

=============================================================================
