------------------------- MODULE ProtocolConfProofs -------------------------
(***************************************************************************)
(* That every module finds its own configuration, in the cycle in use and  *)
(* in the one being read, through loads, failures and reloads, and that    *)
(* the innermost directive of a block is the one that counts, for any      *)
(* modules, module files and sizes of the table.                           *)
(*                                                                         *)
(* Two facts carry the proof.  The modules linked in come first in the     *)
(* table for ever, each once, so that their numbers never change once they *)
(* have been given.  And a number points at an entry of the table that is  *)
(* the module's own, so that no two modules share one.                     *)
(***************************************************************************)
EXTENDS ProtocolConf, FiniteSetTheorems, SequenceTheorems, WellFoundedInduction, TLAPS

-----------------------------------------------------------------------------
(* Sets of positions                                                        *)

\* The last of some positions.
LEMMA LastThere ==
    ASSUME NEW n \in Nat, NEW S \in SUBSET (1 .. n), S # {}
    PROVE  \E i \in S : \A j \in S : j <= i
<1> DEFINE above(i) == {j \in S : j > i}
           T == {above(i) : i \in S}
           R == StrictSubsetOrdering(S)
<1>0. \A a, b \in SUBSET S : a \subseteq b /\ a # b => <<a, b>> \in R
  BY DEF StrictSubsetOrdering
<1>1. IsFiniteSet(S)
  <2> DEFINE U == 1 .. n
  <2>1. S \in SUBSET U
    OBVIOUS
  <2>2. IsFiniteSet(U)
    BY FS_Interval
  <2> HIDE DEF U
  <2> QED
    BY <2>1, <2>2, FS_Subset
<1>2. T \subseteq FiniteSubsetsOf(S) /\ T # {}
  <2>1. \A i \in S : above(i) \in SUBSET S
    OBVIOUS
  <2>2. \A i \in S : IsFiniteSet(above(i))
    BY <1>1, <2>1, FS_Subset
  <2> QED
    BY <2>1, <2>2 DEF FiniteSubsetsOf
<1>3. PICK t \in T : \A u \in T : ~ (<<u, t>> \in R)
  <2>1. IsWellFoundedOn(R, FiniteSubsetsOf(S))
    BY FS_StrictSubsetOrderingWellFounded
  <2> HIDE DEF T, R
  <2> QED
    BY <1>2, <2>1, WFMin
<1>4. PICK i \in S : t = above(i)
  BY <1>3
<1>5. ASSUME NEW j \in S, j > i PROVE FALSE
  <2>1. above(j) \in SUBSET S /\ above(i) \in SUBSET S /\ above(j) \subseteq above(i)
    <3>1. \A x \in S : x > j => x > i
      BY <1>5
    <3> QED
      BY <3>1, Zenon
  <2>2. j \in above(i) /\ j \notin above(j)
    BY <1>5
  <2>3. <<above(j), above(i)>> \in R
    <3>1. above(j) # above(i)
      BY <2>2
    <3> HIDE DEF above, R
    <3> QED
      BY <1>0, <2>1, <3>1
  <2>4. above(j) \in T
    OBVIOUS
  <2> QED
    BY <1>3, <1>4, <2>3, <2>4
<1> QED
  BY <1>5

\* The greatest of them, as Max has it.
LEMMA MaxIs ==
    ASSUME NEW n \in Nat, NEW S \in SUBSET (1 .. n), S # {}
    PROVE  Max(S) \in S /\ \A j \in S : j <= Max(S)
<1>1. PICK i \in S : \A j \in S : i >= j
  BY LastThere
<1> QED
  BY <1>1 DEF Max

-----------------------------------------------------------------------------
(* Sequences                                                                *)

\* The first k elements.
LEMMA FrontIs ==
    ASSUME NEW S, NEW s \in Seq(S), NEW k \in 0 .. Len(s)
    PROVE  /\ SubSeq(s, 1, k) \in Seq(S) /\ Len(SubSeq(s, 1, k)) = k
           /\ \A i \in 1 .. k : SubSeq(s, 1, k)[i] = s[i]
<1> DEFINE front == SubSeq(s, 1, k)
<1>1. k \in Nat /\ \A i \in 1 .. k : s[i] \in S
  OBVIOUS
<1>2. /\ front \in Seq(S) /\ Len(front) = IF 1 <= k THEN k - 1 + 1 ELSE 0
      /\ \A i \in 1 .. k - 1 + 1 : front[i] = s[1 + i - 1]
  BY <1>1, SubSeqProperties
<1> HIDE DEF front
<1>3. front \in Seq(S) /\ Len(front) = k /\ \A i \in 1 .. k : front[i] = s[i]
  BY <1>1, <1>2
<1> QED
  BY <1>3 DEF front

\* Two of them joined.
LEMMA JoinIs ==
    ASSUME NEW S, NEW s \in Seq(S), NEW t \in Seq(S)
    PROVE  /\ s \o t \in Seq(S) /\ Len(s \o t) = Len(s) + Len(t)
           /\ \A i \in 1 .. Len(s) : (s \o t)[i] = s[i]
           /\ \A i \in 1 .. Len(t) : (s \o t)[Len(s) + i] = t[i]
<1> DEFINE both == s \o t
<1>1. /\ both \in Seq(S) /\ Len(both) = Len(s) + Len(t)
      /\ \A i \in 1 .. Len(s) + Len(t) :
            both[i] = IF i <= Len(s) THEN s[i] ELSE t[i - Len(s)]
  BY ConcatProperties
<1>2. Len(s) \in Nat /\ Len(t) \in Nat
  OBVIOUS
<1> HIDE DEF both
<1> DEFINE a == Len(s)
           b == Len(t)
<1>3. /\ a \in Nat /\ b \in Nat
      /\ \A i \in 1 .. a + b : both[i] = IF i <= a THEN s[i] ELSE t[i - a]
  BY <1>1, <1>2
<1> HIDE DEF a, b
<1>4. \A i \in 1 .. a : both[i] = s[i]
  BY <1>3
<1>5. ASSUME NEW i \in 1 .. b PROVE both[a + i] = t[i]
  <2>1. a + i \in 1 .. a + b /\ ~(a + i <= a) /\ (a + i) - a = i
    BY <1>3
  <2> QED
    BY <1>3, <2>1
<1> QED
  BY <1>1, <1>4, <1>5 DEF both, a, b

-----------------------------------------------------------------------------
(* The module table                                                         *)

Confs == [of : Mods \cup {"none"}, set : BOOLEAN]

LoaderTypeOK ==
    /\ modules \in Seq(Mods) /\ Len(modules) <= MaxModules
    /\ index \in [Mods -> 0 .. MaxModules]
    /\ phase \in {"idle", "config"}
    /\ conf \in [Slots -> Confs] /\ active \in [Slots -> Confs]
    /\ accepted \in SUBSET Mods

\* The modules linked in come first, and nowhere else.
StaticFirst ==
    /\ Len(Static) <= Len(modules)
    /\ \A i \in 1 .. Len(Static) : modules[i] = Static[i]
    /\ \A i \in 1 .. Len(modules) : i > Len(Static) => modules[i] \in Dynamic

\* Their index is their place as soon as it has been given.
StaticIndex ==
    /\ \A i \in 1 .. Len(Static) : index[Static[i]] \in {0, i}
    /\ phase = "config" \/ running # {} =>
          \A i \in 1 .. Len(Static) : index[Static[i]] = i

\* While a configuration is read, the index of a module of the table is that of an
\* entry of its own, with a configuration of its own.
Indexed ==
    phase = "config" =>
        \A m \in ToSet(modules) :
            /\ index[m] \in 1 .. Len(modules) /\ modules[index[m]] = m
            /\ m \in CoreMods => conf[index[m]].of = m

Accepted ==
    /\ phase = "idle" => accepted = {}
    /\ phase = "config" =>
          \A m \in accepted : m \in ToSet(modules) /\ conf[index[m]].set

LoaderInv ==
    LoaderTypeOK /\ StaticFirst /\ StaticIndex /\ Indexed /\ Accepted /\ StaticSurvives

LEMMA ConstantsOK ==
    /\ Static \in Seq(Mods) /\ Len(Static) \in Nat /\ MaxModules \in Nat /\ Len(Static) < MaxModules
    /\ \A i, j \in 1 .. Len(Static) : Static[i] = Static[j] => i = j
    /\ \A i \in 1 .. Len(Static) : Static[i] \in ToSet(Static) /\ Static[i] \notin Dynamic
    /\ \A m \in ToSet(Static) : \E i \in 1 .. Len(Static) : m = Static[i]
    /\ \A f \in Files :
          /\ Provides[f] \in Seq(Mods) /\ Len(Provides[f]) \in Nat
          /\ \A i, j \in 1 .. Len(Provides[f]) : Provides[f][i] = Provides[f][j] => i = j
          /\ \A i \in 1 .. Len(Provides[f]) : Provides[f][i] \in ToSet(Provides[f])
          /\ ToSet(Provides[f]) \subseteq Dynamic /\ ToSet(Provides[f]) \cap ToSet(Static) = {}
<1>1. /\ Static \in Seq(Mods) /\ IsInjective(Static) /\ Provides \in [Files -> Seq(Mods)]
      /\ \A f \in Files : IsInjective(Provides[f])
      /\ ToSet(Static) \cap Dynamic = {} /\ MaxModules \in Nat /\ Len(Static) < MaxModules
  BY LoaderAssumption
<1>2. DOMAIN Static = 1 .. Len(Static) /\ Len(Static) \in Nat
  BY <1>1
<1>3. \A f \in Files : DOMAIN Provides[f] = 1 .. Len(Provides[f]) /\ Provides[f] \in Seq(Mods)
                          /\ Len(Provides[f]) \in Nat
  BY <1>1
<1>4. \A f \in Files : ToSet(Provides[f]) \subseteq Dynamic
  BY DEF Dynamic
<1>5. \A i, j \in 1 .. Len(Static) : Static[i] = Static[j] => i = j
  BY <1>1, <1>2 DEF IsInjective
<1>6. /\ \A i \in 1 .. Len(Static) : Static[i] \in ToSet(Static) /\ Static[i] \notin Dynamic
      /\ \A m \in ToSet(Static) : \E i \in 1 .. Len(Static) : m = Static[i]
  BY <1>1, <1>2 DEF ToSet
<1>7. \A f \in Files :
         /\ \A i, j \in 1 .. Len(Provides[f]) : Provides[f][i] = Provides[f][j] => i = j
         /\ \A i \in 1 .. Len(Provides[f]) : Provides[f][i] \in ToSet(Provides[f])
  BY <1>1, <1>3 DEF IsInjective, ToSet
<1> QED
  BY <1>1, <1>2, <1>3, <1>4, <1>5, <1>6, <1>7

LEMMA ConfType == NoConf \in Confs /\ \A m \in Mods : NewConf(m) \in Confs
BY DEF NoConf, NewConf, Confs

LEMMA TableIs ==
    ASSUME LoaderTypeOK
    PROVE  /\ Len(modules) \in Nat /\ DOMAIN modules = 1 .. Len(modules)
           /\ \A m \in ToSet(modules) : m \in Mods /\ \E i \in 1 .. Len(modules) : modules[i] = m
           /\ \A i \in 1 .. Len(modules) : modules[i] \in ToSet(modules)
BY DEF LoaderTypeOK, ToSet

\* The latest entry of a module of the table.
LEMMA LatestIs ==
    ASSUME LoaderTypeOK, NEW m \in ToSet(modules)
    PROVE  /\ PositionsOf(m) # {}
           /\ LatestEntry(m) \in 1 .. Len(modules) /\ modules[LatestEntry(m)] = m
           /\ \A j \in 1 .. Len(modules) : modules[j] = m => j <= LatestEntry(m)
<1>1. Len(modules) \in Nat /\ PositionsOf(m) \in SUBSET (1 .. Len(modules)) /\ PositionsOf(m) # {}
  BY TableIs DEF PositionsOf
<1>2. \E i \in PositionsOf(m) : \A j \in PositionsOf(m) : j <= i
  BY <1>1, LastThere
<1>3. LatestEntry(m) \in PositionsOf(m) /\ \A j \in PositionsOf(m) : j <= LatestEntry(m)
  BY <1>2 DEF LatestEntry
<1> QED
  BY <1>1, <1>3, TableIs DEF PositionsOf

\* A module that is linked in has one entry.
LEMMA LatestStatic ==
    ASSUME LoaderTypeOK, StaticFirst, NEW i \in 1 .. Len(Static)
    PROVE  Static[i] \in ToSet(modules) /\ LatestEntry(Static[i]) = i
<1>1. i \in 1 .. Len(modules) /\ modules[i] = Static[i]
  BY ConstantsOK, TableIs DEF StaticFirst
<1>2. Static[i] \in ToSet(modules)
  BY <1>1, TableIs
<1>3. \A j \in 1 .. Len(modules) : modules[j] = Static[i] => j = i
  BY ConstantsOK, TableIs DEF StaticFirst
<1> QED
  BY <1>2, <1>3, LatestIs

\* What Enter does: k modules of the file are at the end of the table, n have their
\* index, and nothing of the modules linked in has changed.
LEMMA Entered ==
    ASSUME LoaderTypeOK, StaticFirst, NEW f \in Files,
           NEW k \in 0 .. Len(Provides[f]), NEW n \in k .. Len(Provides[f]),
           Len(modules) + n <= MaxModules, Enter(f, k, n)
    PROVE  /\ modules' \in Seq(Mods) /\ Len(modules') = Len(modules) + k
           /\ \A i \in 1 .. Len(modules) : modules'[i] = modules[i]
           /\ \A i \in 1 .. k : modules'[Len(modules) + i] = Provides[f][i]
           /\ StaticFirst'
           /\ index' \in [Mods -> 0 .. MaxModules]
           /\ \A m \in Mods \ ToSet(Provides[f]) : index'[m] = index[m]
           /\ \A i \in 1 .. n : index'[Provides[f][i]] = Len(modules) + i
<1> DEFINE file == Provides[f]
           front == SubSeq(file, 1, k)
<1>0. /\ file \in Seq(Mods) /\ Len(file) \in Nat /\ Len(modules) \in Nat /\ k \in Nat /\ n \in Nat
      /\ k <= n /\ n <= Len(file) /\ MaxModules \in Nat
      /\ \A i, j \in 1 .. Len(file) : file[i] = file[j] => i = j
      /\ \A i \in 1 .. Len(file) : file[i] \in ToSet(file) /\ file[i] \in Dynamic /\ file[i] \in Mods
      /\ modules \in Seq(Mods) /\ index \in [Mods -> 0 .. MaxModules]
  <2>1. /\ file \in Seq(Mods) /\ Len(file) \in Nat /\ Len(modules) \in Nat /\ MaxModules \in Nat
        /\ modules \in Seq(Mods) /\ index \in [Mods -> 0 .. MaxModules]
    BY ConstantsOK, TableIs DEF LoaderTypeOK
  <2>2. /\ \A i, j \in 1 .. Len(file) : file[i] = file[j] => i = j
        /\ \A i \in 1 .. Len(file) : file[i] \in ToSet(file) /\ file[i] \in Dynamic
    BY ConstantsOK
  <2>3. \A i \in 1 .. Len(file) : file[i] \in Mods
    BY <2>1
  <2> QED
    BY <2>1, <2>2, <2>3
<1> HIDE DEF file
<1>1. /\ front \in Seq(Mods) /\ Len(front) = k /\ \A i \in 1 .. k : front[i] = file[i]
  BY <1>0, FrontIs
<1> HIDE DEF front
<1>2. modules' = modules \o front
  BY DEF Enter, front, file
<1>3. modules' \in Seq(Mods) /\ Len(modules') = Len(modules) + k
  BY <1>0, <1>1, <1>2, JoinIs
<1>4. \A i \in 1 .. Len(modules) : modules'[i] = modules[i]
  BY <1>0, <1>1, <1>2, JoinIs
<1>5. \A i \in 1 .. k : modules'[Len(modules) + i] = file[i]
  <2>1. \A i \in 1 .. Len(front) : (modules \o front)[Len(modules) + i] = front[i]
    BY <1>0, <1>1, JoinIs
  <2> QED
    BY <1>1, <1>2, <2>1
<1>6. StaticFirst'
  <2>1. Len(Static) \in Nat /\ Static' = Static /\ Dynamic' = Dynamic /\ Len(Static) <= Len(modules)
    BY ConstantsOK DEF StaticFirst
  <2>0. /\ \A i \in 1 .. Len(Static) : modules[i] = Static[i] /\ i \in 1 .. Len(modules)
        /\ \A i \in 1 .. Len(modules) : i > Len(Static) => modules[i] \in Dynamic
    BY <1>0, <2>1 DEF StaticFirst
  <2>2. \A i \in 1 .. Len(Static) : modules'[i] = Static[i]
    BY <1>4, <2>0
  <2>3. ASSUME NEW i \in 1 .. Len(modules'), i > Len(Static) PROVE modules'[i] \in Dynamic
    <3>1. CASE i <= Len(modules)
      <4>1. i \in 1 .. Len(modules)
        BY <1>0, <1>3, <3>1
      <4> QED
        BY <1>4, <2>0, <2>3, <4>1
    <3>2. CASE i > Len(modules)
      <4>1. i - Len(modules) \in 1 .. k /\ Len(modules) + (i - Len(modules)) = i
        BY <1>0, <1>3, <3>2
      <4>2. modules'[i] = file[i - Len(modules)]
        BY <1>5, <4>1
      <4> QED
        BY <1>0, <4>1, <4>2
    <3> QED
      BY <1>0, <1>3, <3>1, <3>2
  <2> QED
    BY <1>0, <1>3, <2>1, <2>2, <2>3 DEF StaticFirst
<1> DEFINE place(m) == CHOOSE i \in 1 .. n : file[i] = m
<1>7. \A m \in Mods : index'[m] = IF \E i \in 1 .. n : file[i] = m
                                    THEN Len(modules) + place(m) ELSE index[m]
  BY DEF Enter, file
<1>8. DOMAIN index' = Mods /\ index' = [m \in Mods |-> index'[m]]
  BY DEF Enter
<1>9. \A i \in 1 .. n : place(file[i]) = i
  BY <1>0
<1>10. \A i \in 1 .. n : index'[file[i]] = Len(modules) + i
  <2> SUFFICES ASSUME NEW i \in 1 .. n PROVE index'[file[i]] = Len(modules) + i
    OBVIOUS
  <2>1. file[i] \in Mods
    BY <1>0
  <2>2. place(file[i]) = i
    BY <1>9
  <2> HIDE DEF place, file
  <2>3. index'[file[i]] = Len(modules) + place(file[i])
    BY <1>7, <2>1
  <2> QED
    BY <2>2, <2>3
<1>11. \A m \in Mods \ ToSet(file) : index'[m] = index[m]
  <2>1. \A m \in Mods \ ToSet(file) : ~ \E i \in 1 .. n : file[i] = m
    BY <1>0
  <2> QED
    BY <1>7, <2>1
<1>12. \A m \in Mods : index'[m] \in 0 .. MaxModules
  <2> SUFFICES ASSUME NEW m \in Mods PROVE index'[m] \in 0 .. MaxModules
    OBVIOUS
  <2>1. CASE \E i \in 1 .. n : file[i] = m
    BY <1>0, <1>10, <2>1
  <2>2. CASE ~ \E i \in 1 .. n : file[i] = m
    BY <1>0, <1>7, <2>2
  <2> QED
    BY <2>1, <2>2
<1>13. index' \in [Mods -> 0 .. MaxModules]
  BY <1>8, <1>12
<1> QED
  BY <1>3, <1>4, <1>5, <1>6, <1>10, <1>11, <1>13 DEF file

-----------------------------------------------------------------------------
(* The steps of the loader                                                  *)

\* The loader as the master process finds it.
LEMMA LoaderBegins == LoaderInit => LoaderInv
<1> SUFFICES ASSUME LoaderInit PROVE LoaderInv
  OBVIOUS
<1> USE DEF LoaderInit
<1>1. LoaderTypeOK
  <2>1. Empty \in [Slots -> Confs]
    BY ConfType DEF Empty
  <2>2. [m \in Mods |-> 0] \in [Mods -> 0 .. MaxModules]
    BY ConstantsOK
  <2> QED
    BY ConstantsOK, <2>1, <2>2 DEF LoaderTypeOK
<1>2. StaticFirst
  BY ConstantsOK DEF StaticFirst
<1>3. StaticIndex
  BY ConstantsOK DEF StaticIndex
<1> QED
  BY <1>1, <1>2, <1>3 DEF LoaderInv, Indexed, Accepted, StaticSurvives

\* What a step that fails leaves of the table: the modules linked in, their places
\* and their numbers.
Keeps ==
    /\ modules' \in Seq(Mods) /\ Len(modules') <= MaxModules /\ StaticFirst'
    /\ index' \in [Mods -> 0 .. MaxModules]
    /\ \A i \in 1 .. Len(Static) : index'[Static[i]] = index[Static[i]]

LEMMA Abandoned ==
    ASSUME LoaderInv, phase = "config", Keeps, Abandon
    PROVE  LoaderInv'
<1>1. LoaderTypeOK'
  <2>1. Empty \in [Slots -> Confs]
    BY ConfType DEF Empty
  <2> QED
    BY <2>1 DEF LoaderInv, LoaderTypeOK, Keeps, Abandon, ForgetConf, activeVars, Confs, Slots
<1>2. StaticFirst'
  BY DEF Keeps
<1>3. StaticIndex'
  BY DEF LoaderInv, StaticIndex, Keeps, Abandon, activeVars
<1>4. Indexed' /\ Accepted'
  BY DEF Abandon, ForgetConf, Indexed, Accepted
<1>5. StaticSurvives'
  <2>1. \A m \in ToSet(Static) : index'[m] = index[m]
    BY ConstantsOK DEF Keeps
  <2>2. active' = active /\ running' = running
    BY DEF Abandon, activeVars
  <2> QED
    BY <2>1, <2>2 DEF LoaderInv, StaticSurvives, CoreMods, Mods
<1> QED
  BY <1>1, <1>2, <1>3, <1>4, <1>5 DEF LoaderInv

\* Entering part of a file is such a step.
LEMMA EnterKeeps ==
    ASSUME LoaderInv, NEW f \in Files,
           NEW k \in 0 .. Len(Provides[f]), NEW n \in k .. Len(Provides[f]),
           Len(modules) + n <= MaxModules, Enter(f, k, n)
    PROVE  Keeps
<1>1. LoaderTypeOK /\ StaticFirst
  BY DEF LoaderInv
<1>2. /\ modules' \in Seq(Mods) /\ Len(modules') = Len(modules) + k
      /\ StaticFirst' /\ index' \in [Mods -> 0 .. MaxModules]
      /\ \A m \in Mods \ ToSet(Provides[f]) : index'[m] = index[m]
  BY <1>1, Entered
<1>3. \A i \in 1 .. Len(Static) : Static[i] \in Mods \ ToSet(Provides[f])
  BY ConstantsOK
<1>4. Len(modules') <= MaxModules
  <2>1. /\ Len(modules) \in Nat /\ Len(Provides[f]) \in Nat /\ MaxModules \in Nat
        /\ k \in Nat /\ n \in Nat /\ k <= n
    BY <1>1, TableIs, ConstantsOK
  <2> QED
    BY <1>2, <2>1
<1> QED
  BY <1>2, <1>3, <1>4 DEF Keeps

LEMMA Fails ==
    ASSUME LoaderInv,
           ConfFails \/ \E f \in Files : LoadModuleFails(f) \/ LoadModuleLimit(f)
    PROVE  LoaderInv'
<1> DEFINE same == UNCHANGED <<modules, index>>
<1>1. phase = "config" /\ Abandon
  BY DEF ConfFails, LoadModuleFails, LoadModuleLimit
<1>2. same => Keeps
  BY DEF Keeps, LoaderInv, LoaderTypeOK, StaticFirst
<1>3. ASSUME NEW f \in Files, LoadModuleFails(f), ~same PROVE Keeps
  <2>1. PICK k \in 0 .. Len(Provides[f]) - 1 : Len(modules) + k < MaxModules /\ Enter(f, k, k + 1)
    BY <1>3 DEF LoadModuleFails
  <2>2. /\ k \in 0 .. Len(Provides[f]) /\ k + 1 \in k .. Len(Provides[f])
        /\ Len(modules) + (k + 1) <= MaxModules
    BY <2>1, TableIs, ConstantsOK DEF LoaderInv
  <2> QED
    BY <2>1, <2>2, EnterKeeps
<1>4. ASSUME NEW f \in Files, LoadModuleLimit(f) PROVE Keeps
  <2> DEFINE room == IF handles < MaxModules THEN MaxModules - Len(modules) ELSE 0
  <2>1. (room = 0 \/ room < Len(Provides[f])) /\ Enter(f, room, room)
    BY <1>4 DEF LoadModuleLimit
  <2>2. room \in Nat /\ Len(modules) + room <= MaxModules
    BY TableIs, ConstantsOK DEF LoaderInv, LoaderTypeOK
  <2> HIDE DEF room
  <2>3. room \in 0 .. Len(Provides[f]) /\ room \in room .. Len(Provides[f])
    BY <2>1, <2>2, ConstantsOK
  <2> QED
    BY <2>1, <2>2, <2>3, EnterKeeps
<1>5. Keeps
  BY <1>2, <1>3, <1>4 DEF ConfFails
<1> QED
  BY <1>1, <1>5, Abandoned

\* The table is gone through anew.
LEMMA Reloads ==
    ASSUME LoaderInv, CreateConf
    PROVE  LoaderInv'
<1> DEFINE latest(m) == IF PositionsOf(m) # {} THEN LatestEntry(m) ELSE index[m]
           fresh(i) == IF i \in DOMAIN modules /\ LatestEntry(modules[i]) = i
                         THEN NewConf(modules[i]) ELSE NoConf
<1>1. /\ LoaderTypeOK /\ StaticFirst /\ MaxModules \in Nat /\ Len(modules) <= MaxModules
      /\ Len(modules) \in Nat /\ DOMAIN modules = 1 .. Len(modules)
  BY TableIs, ConstantsOK DEF LoaderInv, LoaderTypeOK
<1>2. /\ modules' = modules /\ phase' = "config" /\ accepted' = {}
      /\ active' = active /\ running' = running
      /\ index' = [m \in Mods |-> latest(m)]
      /\ conf' = [i \in Slots |-> fresh(i)]
  BY DEF CreateConf, activeVars
<1>3. \A m \in ToSet(modules) : latest(m) = LatestEntry(m) /\ LatestEntry(m) \in 1 .. Len(modules)
                                  /\ modules[LatestEntry(m)] = m /\ m \in Mods
  BY <1>1, LatestIs, TableIs
<1>4. \A m \in ToSet(modules) : index'[m] \in 1 .. Len(modules) /\ modules[index'[m]] = m
                                  /\ index'[m] = LatestEntry(m)
  <2> HIDE DEF latest
  <2> QED
    BY <1>2, <1>3
<1>5. \A i \in 1 .. Len(Static) : index'[Static[i]] = i
  BY <1>1, <1>4, LatestStatic
<1>6. LoaderTypeOK'
  <2>1. \A m \in Mods : latest(m) \in 0 .. MaxModules
    <3>1. \A m \in Mods : m \notin ToSet(modules) => PositionsOf(m) = {}
      BY <1>1 DEF PositionsOf, ToSet
    <3>2. \A m \in ToSet(modules) : latest(m) \in 0 .. MaxModules
      BY <1>1, <1>3
    <3>3. \A m \in Mods : index[m] \in 0 .. MaxModules
      BY <1>1 DEF LoaderTypeOK
    <3> QED
      BY <3>1, <3>2, <3>3
  <2>2. \A i \in Slots : fresh(i) \in Confs
    BY <1>1, ConfType, TableIs
  <2> HIDE DEF latest, fresh
  <2> QED
    BY <1>1, <1>2, <2>1, <2>2 DEF LoaderTypeOK
<1>7. StaticFirst' /\ StaticIndex'
  BY <1>1, <1>2, <1>5 DEF StaticFirst, StaticIndex
<1>8. Indexed'
  <2> SUFFICES ASSUME NEW m \in ToSet(modules), m \in CoreMods PROVE conf'[index'[m]].of = m
    BY <1>2, <1>4 DEF Indexed, CoreMods, Mods
  <2>1. index'[m] \in Slots /\ index'[m] \in DOMAIN modules
        /\ modules[index'[m]] = m /\ LatestEntry(m) = index'[m]
    BY <1>1, <1>4 DEF Slots
  <2>2. fresh(index'[m]) = NewConf(m)
    BY <2>1
  <2> HIDE DEF fresh
  <2>3. conf'[index'[m]] = NewConf(m)
    BY <1>2, <2>1, <2>2
  <2> QED
    BY <2>3 DEF NewConf
<1>9. Accepted'
  BY <1>2 DEF Accepted
<1>10. StaticSurvives'
  <2>1. running # {} => \A i \in 1 .. Len(Static) : index[Static[i]] = i
    BY DEF LoaderInv, StaticIndex
  <2>2. running # {} => \A m \in ToSet(Static) : index'[m] = index[m]
    BY <1>5, <2>1, ConstantsOK
  <2> QED
    BY <1>2, <2>2 DEF LoaderInv, StaticSurvives, CoreMods, Mods
<1> QED
  BY <1>6, <1>7, <1>8, <1>9, <1>10 DEF LoaderInv

\* A file is loaded to its end.
LEMMA Loads ==
    ASSUME LoaderInv, NEW f \in Files, LoadModule(f)
    PROVE  LoaderInv'
<1> DEFINE file == Provides[f]
           new(i) == IF i \in Len(modules) + 1 .. Len(modules') THEN NewConf(modules'[i]) ELSE conf[i]
<1>1. /\ LoaderTypeOK /\ StaticFirst /\ MaxModules \in Nat /\ Len(modules) \in Nat
      /\ file \in Seq(Mods) /\ Len(file) \in Nat /\ Len(modules) + Len(file) <= MaxModules
      /\ phase = "config" /\ Enter(f, Len(file), Len(file))
  BY TableIs, ConstantsOK DEF LoaderInv, LoaderTypeOK, LoadModule
<1>2. /\ phase' = "config" /\ accepted' = accepted \ ToSet(file)
      /\ active' = active /\ running' = running
      /\ conf' = [i \in Slots |-> new(i)]
  BY DEF LoadModule, activeVars
<1>3. Len(file) \in 0 .. Len(file) /\ Len(file) \in Len(file) .. Len(file)
  BY <1>1
<1>4. /\ modules' \in Seq(Mods) /\ Len(modules') = Len(modules) + Len(file)
      /\ \A i \in 1 .. Len(modules) : modules'[i] = modules[i]
      /\ \A i \in 1 .. Len(file) : modules'[Len(modules) + i] = file[i]
      /\ StaticFirst'
      /\ index' \in [Mods -> 0 .. MaxModules]
      /\ \A m \in Mods \ ToSet(file) : index'[m] = index[m]
      /\ \A i \in 1 .. Len(file) : index'[file[i]] = Len(modules) + i
  BY <1>1, <1>3, Entered
<1>5. \A i \in 1 .. Len(Static) : Static[i] \in Mods /\ Static[i] \notin ToSet(file)
  BY ConstantsOK
<1>6. LoaderTypeOK'
  <2>1. \A i \in Slots : new(i) \in Confs
    <3>1. \A i \in Len(modules) + 1 .. Len(modules') : modules'[i] \in Mods
      BY <1>1, <1>4
    <3>2. \A i \in Slots : conf[i] \in Confs
      BY <1>1 DEF LoaderTypeOK
    <3> QED
      BY <3>1, <3>2, ConfType
  <2> HIDE DEF new
  <2> QED
    BY <1>1, <1>2, <1>4, <2>1 DEF LoaderTypeOK
<1>7. StaticIndex'
  BY <1>1, <1>2, <1>4, <1>5 DEF LoaderInv, StaticIndex
\* an entry that was in the table before stays what it is
<1>8. \A i \in 1 .. Len(modules) : i \in Slots /\ conf'[i] = conf[i] /\ modules'[i] = modules[i]
  <2>1. \A i \in 1 .. Len(modules) : i \in Slots /\ new(i) = conf[i]
    BY <1>1 DEF Slots
  <2> HIDE DEF new
  <2> QED
    BY <1>2, <1>4, <2>1
\* a module that the file has not is where it was
<1>9. ASSUME NEW m \in ToSet(modules'), m \notin ToSet(file)
      PROVE  m \in ToSet(modules) /\ m \in Mods /\ index'[m] = index[m]
  <2>1. PICK i \in 1 .. Len(modules') : modules'[i] = m
    BY <1>4 DEF ToSet
  <2>2. CASE i <= Len(modules)
    <3>1. i \in 1 .. Len(modules)
      BY <1>1, <1>4, <2>1, <2>2
    <3> QED
      BY <1>1, <1>4, <1>9, <2>1, <3>1, TableIs
  <2>3. CASE i > Len(modules)
    <3>1. i - Len(modules) \in 1 .. Len(file) /\ Len(modules) + (i - Len(modules)) = i
      BY <1>1, <1>4, <2>1, <2>3
    <3>2. m = file[i - Len(modules)]
      BY <1>4, <2>1, <3>1
    <3> QED
      BY <1>9, <3>1, <3>2, ConstantsOK
  <2> QED
    BY <1>1, <1>4, <2>1, <2>2, <2>3
<1>10. Indexed'
  <2> SUFFICES ASSUME NEW m \in ToSet(modules')
               PROVE  /\ index'[m] \in 1 .. Len(modules') /\ modules'[index'[m]] = m
                      /\ m \in CoreMods => conf'[index'[m]].of = m
    BY <1>2 DEF Indexed, CoreMods, Mods
  <2>1. CASE m \notin ToSet(file)
    <3>1. m \in ToSet(modules) /\ index'[m] = index[m]
      BY <1>9, <2>1
    <3>2. /\ index[m] \in 1 .. Len(modules) /\ modules[index[m]] = m
          /\ m \in CoreMods => conf[index[m]].of = m
      BY <1>1, <3>1 DEF LoaderInv, Indexed
    <3>3. index[m] \in 1 .. Len(modules')
      BY <1>1, <1>4, <3>2
    <3> QED
      BY <1>8, <3>1, <3>2, <3>3
  <2>2. CASE m \in ToSet(file)
    <3>1. PICK i \in 1 .. Len(file) : file[i] = m
      BY <1>1, <2>2 DEF ToSet
    <3>2. index'[m] = Len(modules) + i /\ modules'[Len(modules) + i] = m
      BY <1>4, <3>1
    <3>3. index'[m] \in Len(modules) + 1 .. Len(modules') /\ index'[m] \in 1 .. Len(modules')
          /\ index'[m] \in Slots
      BY <1>1, <1>4, <3>1, <3>2 DEF Slots
    <3>4. new(index'[m]) = NewConf(m)
      BY <3>2, <3>3
    <3> HIDE DEF new
    <3>5. conf'[index'[m]] = NewConf(m)
      BY <1>2, <3>3, <3>4
    <3> QED
      BY <3>2, <3>3, <3>5 DEF NewConf
  <2> QED
    BY <2>1, <2>2
<1>11. Accepted'
  <2> SUFFICES ASSUME NEW m \in accepted, m \notin ToSet(file)
               PROVE  m \in ToSet(modules') /\ conf'[index'[m]].set
    BY <1>2 DEF Accepted
  <2>1. m \in ToSet(modules) /\ conf[index[m]].set /\ m \in Mods
    BY <1>1, TableIs DEF LoaderInv, Accepted
  <2>2. index[m] \in 1 .. Len(modules) /\ modules[index[m]] = m
    BY <1>1, <2>1 DEF LoaderInv, Indexed
  <2>3. index[m] \in 1 .. Len(modules') /\ DOMAIN modules' = 1 .. Len(modules')
    BY <1>1, <1>4, <2>2
  <2>4. modules'[index[m]] = m /\ conf'[index[m]] = conf[index[m]]
    BY <1>8, <2>2
  <2>5. index'[m] = index[m]
    BY <1>4, <2>1
  <2> QED
    BY <2>1, <2>3, <2>4, <2>5 DEF ToSet
<1>12. StaticSurvives'
  <2>1. \A m \in ToSet(Static) : index'[m] = index[m]
    BY <1>4, <1>5, ConstantsOK
  <2> QED
    BY <1>2, <2>1 DEF LoaderInv, StaticSurvives, CoreMods, Mods
<1> QED
  BY <1>4, <1>6, <1>7, <1>10, <1>11, <1>12 DEF LoaderInv

LEMMA Directs ==
    ASSUME LoaderInv, NEW m \in Mods, SetDirective(m)
    PROVE  LoaderInv'
<1>1. /\ phase = "config" /\ phase' = "config" /\ modules' = modules /\ index' = index
      /\ active' = active /\ running' = running
      /\ m \in CoreMods /\ PositionsOf(m) # {}
      /\ conf' = [conf EXCEPT ![index[m]].set = TRUE] /\ accepted' = accepted \cup {m}
      /\ conf \in [Slots -> Confs] /\ LoaderTypeOK
  BY DEF SetDirective, activeVars, LoaderInv, LoaderTypeOK
<1>2. m \in ToSet(modules)
  BY <1>1 DEF PositionsOf, ToSet
<1>3. index[m] \in Slots
  BY <1>1, <1>2, TableIs, ConstantsOK DEF LoaderInv, Indexed, Slots, LoaderTypeOK
<1>4. /\ conf' \in [Slots -> Confs]
      /\ \A i \in Slots : conf'[i].of = conf[i].of /\ (conf[i].set => conf'[i].set)
      /\ conf'[index[m]].set
  BY <1>1, <1>3 DEF Confs
<1>5. LoaderTypeOK' /\ StaticFirst' /\ StaticIndex'
  BY <1>1, <1>4 DEF LoaderInv, LoaderTypeOK, StaticFirst, StaticIndex
<1>6. \A c \in ToSet(modules) : index[c] \in Slots
  BY <1>1, TableIs, ConstantsOK DEF LoaderInv, Indexed, Slots, LoaderTypeOK
<1>7. Indexed'
  BY <1>1, <1>4, <1>6 DEF LoaderInv, Indexed
<1>8. Accepted'
  BY <1>1, <1>2, <1>4, <1>6 DEF LoaderInv, Accepted
<1>9. StaticSurvives'
  BY <1>1 DEF LoaderInv, StaticSurvives
<1> QED
  BY <1>5, <1>7, <1>8, <1>9 DEF LoaderInv

\* The configuration that was read is the one in use.
LEMMA Done ==
    ASSUME LoaderInv, ConfDone
    PROVE  LoaderInv'
<1>1. /\ phase = "config" /\ phase' = "idle" /\ modules' = modules /\ index' = index
      /\ active' = conf /\ running' = ToSet(modules) /\ conf' = Empty /\ accepted' = {}
  BY DEF ConfDone, ForgetConf
<1>2. LoaderTypeOK'
  <2>1. Empty \in [Slots -> Confs]
    BY ConfType DEF Empty
  <2> QED
    BY <1>1, <2>1 DEF LoaderInv, LoaderTypeOK
<1>3. StaticFirst' /\ StaticIndex'
  BY <1>1 DEF LoaderInv, StaticFirst, StaticIndex
<1>4. Indexed' /\ Accepted'
  BY <1>1 DEF Indexed, Accepted
<1>5. StaticSurvives'
  BY <1>1 DEF LoaderInv, Indexed, StaticSurvives
<1> QED
  BY <1>2, <1>3, <1>4, <1>5 DEF LoaderInv

\* Steps of the protocol block leave the loader's part alone.
LEMMA LoaderAside ==
    ASSUME LoaderInv, UNCHANGED <<modules, index, phase, conf, accepted, activeVars>>
    PROVE  LoaderInv'
BY DEF LoaderInv, LoaderTypeOK, StaticFirst, StaticIndex, Indexed, Accepted, StaticSurvives, activeVars

LEMMA LoaderGoesOn == LoaderInv /\ [Next]_vars => LoaderInv'
<1> SUFFICES ASSUME LoaderInv, [Next]_vars PROVE LoaderInv'
  OBVIOUS
<1> DEFINE aside == UNCHANGED <<modules, index, phase, conf, accepted, activeVars>>
<1>1. CASE CreateConf
  BY <1>1, Reloads
<1>2. CASE ProtoLine
  BY <1>2, Fails, Loads, Directs DEF ProtoLine, LoaderLine
<1>3. CASE ConfFails
  BY <1>3, Fails
<1>4. CASE ProtoConfDone
  BY <1>4, Done DEF ProtoConfDone
<1>5. (OpenHttp \/ OpenTcp \/ OpenUdp \/ OpenUdt \/ OpenLevel) => aside
  BY DEF OpenHttp, OpenTcp, OpenUdp, OpenUdt, OpenBlock, OpenLevel, loaderVars, confVars
<1>6. (CloseHttp \/ CloseTcp \/ CloseUdp \/ CloseUdt) => aside
  BY DEF CloseHttp, CloseTcp, CloseUdp, CloseUdt, CloseStream, CloseBlock, loaderVars, confVars
<1>7. (\E m \in Mods \ CoreMods :
          HttpDirective(m) \/ TcpDirective(m) \/ UdpDirective(m) \/ UdtDirective(m)) => aside
  BY DEF HttpDirective, TcpDirective, UdpDirective, UdtDirective, PutDirective
<1>8. (SetScript \/ SetScriptParser) => aside
  BY DEF SetScript, SetScriptParser
<1>9. UNCHANGED vars => aside
  BY DEF vars, loaderVars, confVars
<1>10. aside => LoaderInv'
  BY LoaderAside
<1> HIDE DEF aside
<1> QED
  BY <1>1, <1>2, <1>3, <1>4, <1>5, <1>6, <1>7, <1>8, <1>9, <1>10 DEF Next

LEMMA LoaderSound == Spec => []LoaderInv
<1>1. Init => LoaderInv
  BY LoaderBegins DEF Init
<1> QED
  BY <1>1, LoaderGoesOn, PTL DEF Spec

\* A module of the table that is asked for its configuration while a file is read
\* gets its own, whatever was loaded, twice or again, before: ngx_squ_get_conf.
THEOREM OwnConfHolds == Spec => []OwnConf
<1>1. LoaderInv => OwnConf
  <2> SUFFICES ASSUME LoaderInv, phase = "config", NEW m \in ToSet(modules) \cap CoreMods
               PROVE  index[m] \in Slots /\ conf[index[m]].of = m
    BY DEF OwnConf
  <2> QED
    BY TableIs, ConstantsOK DEF LoaderInv, Indexed, Slots, LoaderTypeOK
<1> QED
  BY <1>1, LoaderSound, PTL

\* An accepted directive of ngx_squ_set_directive is in the configuration that its
\* module will use, unless the file of the module is loaded after it.
THEOREM DirectivesAlwaysStick == Spec => []DirectivesStick
<1>1. LoaderInv => DirectivesStick
  BY DEF LoaderInv, Accepted, DirectivesStick
<1> QED
  BY <1>1, LoaderSound, PTL

\* Whatever reloads failed in between, a worker that is started finds the
\* configuration of every linked-in module at its index.
THEOREM StaticAlwaysSurvives == Spec => []StaticSurvives
<1>1. LoaderInv => StaticSurvives
  BY DEF LoaderInv
<1> QED
  BY <1>1, LoaderSound, PTL

-----------------------------------------------------------------------------
(* The numbers of the modules of a protocol                                 *)

LEMMA KindsOK ==
    ASSUME NEW kind \in Kinds, NEW m \in ProtoMods(kind)
    PROVE  m \in Mods \ CoreMods /\ m \in Mods /\ TypeOf[m] = kind /\ ScopeOf[m] \in 1 .. 3
<1>1. m \in Mods /\ TypeOf[m] = kind /\ kind # "core"
  BY DEF ProtoMods, Kinds
<1>2. m \in Mods \ CoreMods
  BY <1>1 DEF CoreMods
<1>3. CASE kind = "http"
  BY <1>1, <1>2, <1>3, ProtocolAssumption
<1>4. CASE kind # "http"
  <2>1. m \in Mods \ (CoreMods \cup ProtoMods("http"))
    BY <1>1, <1>2, <1>4 DEF ProtoMods
  <2>2. ScopeOf[m] \in 1 .. 2
    BY <2>1, ProtocolAssumption
  <2> QED
    BY <1>1, <1>2, <2>2
<1> QED
  BY <1>3, <1>4

LEMMA CountedIs ==
    ASSUME LoaderTypeOK, NEW kind, NEW i \in 0 .. Len(modules)
    PROVE  /\ Counted(kind, i) \in Nat
           /\ \A j \in 1 .. i : TypeOf[modules[j]] = kind => Counted(kind, i) >= 1
           /\ \A j \in 0 .. i : Counted(kind, j) \in Nat /\ Counted(kind, j) <= Counted(kind, i)
           /\ \A j \in 0 .. i : j < i /\ TypeOf[modules[i]] = kind => Counted(kind, j) < Counted(kind, i)
<1> DEFINE S(k) == {j \in 1 .. k : TypeOf[modules[j]] = kind}
<1>0. Len(modules) \in Nat /\ \A k \in 0 .. i : k \in Nat
  BY TableIs
<1>1. \A k : Counted(kind, k) = Cardinality(S(k))
  BY DEF Counted
<1>2. ASSUME NEW k \in 0 .. i PROVE IsFiniteSet(S(k)) /\ Cardinality(S(k)) \in Nat
  <2> DEFINE U == 1 .. k
  <2>0. k \in Int /\ S(k) \in SUBSET U
    BY <1>0
  <2>1. IsFiniteSet(U)
    <3> HIDE DEF S
    <3> QED
      BY <2>0, FS_Interval
  <2> HIDE DEF U, S
  <2> QED
    BY <2>0, <2>1, FS_Subset, FS_CardinalityType
<1>3. \A j \in 0 .. i : S(j) \in SUBSET S(i)
  BY <1>0
<1>4. ASSUME NEW j \in 1 .. i, TypeOf[modules[j]] = kind PROVE Cardinality(S(i)) >= 1
  <2>1. j \in S(i)
    BY <1>4
  <2> HIDE DEF S
  <2>2. IsFiniteSet(S(i)) /\ Cardinality(S(i)) \in Nat /\ S(i) # {}
    BY <1>0, <1>2, <2>1
  <2>3. Cardinality(S(i)) # 0
    BY <2>2, FS_EmptySet
  <2> QED
    BY <2>2, <2>3
<1>5. ASSUME NEW j \in 0 .. i PROVE Cardinality(S(j)) <= Cardinality(S(i))
  <2> HIDE DEF S
  <2>1. i \in 0 .. i
    BY <1>0
  <2> QED
    BY <1>2, <1>3, <2>1, FS_Subset
<1>6. ASSUME NEW j \in 0 .. i, j < i, TypeOf[modules[i]] = kind
      PROVE  Cardinality(S(j)) < Cardinality(S(i))
  <2>1. i \in S(i) /\ i \notin S(j)
    BY <1>0, <1>6
  <2> HIDE DEF S
  <2>2. i \in 0 .. i /\ S(j) # S(i)
    BY <1>0, <2>1
  <2>3. Cardinality(S(j)) # Cardinality(S(i)) /\ Cardinality(S(j)) <= Cardinality(S(i))
    BY <1>2, <1>3, <2>2, FS_Subset
  <2> QED
    BY <1>2, <2>2, <2>3
<1> HIDE DEF S
<1>7. i \in 0 .. i
  BY <1>0
<1> QED
  BY <1>1, <1>2, <1>4, <1>5, <1>6, <1>7

\* The number that a module linked in gets, whenever it gets one.
StaticNumber(i) == Cardinality({j \in 1 .. i : TypeOf[Static[j]] = TypeOf[Static[i]]})

CtxOK ==
    /\ ctxIndex \in [Mods \ CoreMods -> Nat] /\ top \in [Kinds -> Nat]
    /\ \A i \in 1 .. Len(Static) :
          Static[i] \notin CoreMods => ctxIndex[Static[i]] \in {0, StaticNumber(i)}

\* The modules of a protocol get different numbers, up to the length of the arrays;
\* those linked in the ones they have.
LEMMA Numbered ==
    ASSUME LoaderTypeOK, StaticFirst, CtxOK, NEW kind \in Kinds, Number(kind)
    PROVE  /\ CtxOK'
           /\ \A m \in InTable(kind) : m \in ProtoMods(kind) /\ ctxIndex'[m] \in 1 .. top'[kind]
           /\ \A m, o \in InTable(kind) : ctxIndex'[m] = ctxIndex'[o] => m = o
           /\ \A i \in 1 .. Len(Static) :
                 Static[i] \notin CoreMods /\ ctxIndex[Static[i]] # 0 =>
                     ctxIndex'[Static[i]] = ctxIndex[Static[i]]
<1> DEFINE number(m) == Counted(kind, LatestEntry(m))
           most == Counted(kind, Len(modules))
<1>1. Len(modules) \in Nat /\ Len(modules) \in 0 .. Len(modules)
  BY TableIs
<1>2. \A m \in InTable(kind) :
         /\ m \in ToSet(modules) /\ m \in Mods \ CoreMods /\ m \in ProtoMods(kind)
         /\ TypeOf[m] = kind
  BY TableIs, KindsOK DEF InTable, ProtoMods
<1>3. ASSUME NEW m \in InTable(kind)
      PROVE  /\ LatestEntry(m) \in 1 .. Len(modules) /\ LatestEntry(m) \in 0 .. Len(modules)
             /\ modules[LatestEntry(m)] = m
             /\ number(m) \in 1 .. most
  <2>1. LatestEntry(m) \in 1 .. Len(modules) /\ modules[LatestEntry(m)] = m
    BY <1>2, LatestIs
  <2>2. LatestEntry(m) \in 0 .. Len(modules) /\ LatestEntry(m) \in 1 .. LatestEntry(m)
    BY <1>1, <2>1
  <2>3. number(m) \in Nat /\ number(m) >= 1
    BY <1>2, <2>1, <2>2, CountedIs
  <2>4. most \in Nat /\ number(m) <= most
    BY <1>1, <2>2, CountedIs
  <2> HIDE DEF number, most
  <2> QED
    BY <2>1, <2>2, <2>3, <2>4
<1>4. ASSUME NEW m \in InTable(kind), NEW o \in InTable(kind), LatestEntry(m) < LatestEntry(o)
      PROVE  number(m) < number(o)
  <2>1. /\ LatestEntry(m) \in 0 .. LatestEntry(o) /\ LatestEntry(o) \in 0 .. Len(modules)
        /\ TypeOf[modules[LatestEntry(o)]] = kind
    BY <1>1, <1>2, <1>3, <1>4
  <2> QED
    BY <1>4, <2>1, CountedIs
<1>5. /\ ctxIndex' = [m \in DOMAIN ctxIndex |-> IF m \in InTable(kind) THEN number(m) ELSE ctxIndex[m]]
      /\ top' = [top EXCEPT ![kind] = most]
      /\ DOMAIN ctxIndex = Mods \ CoreMods /\ ctxIndex \in [Mods \ CoreMods -> Nat]
      /\ top \in [Kinds -> Nat]
  BY DEF Number, CtxOK
<1>6. most \in Nat
  BY <1>1, CountedIs
<1> HIDE DEF number, most
<1>7. /\ \A m \in InTable(kind) : ctxIndex'[m] = number(m)
      /\ \A m \in Mods \ CoreMods : m \notin InTable(kind) => ctxIndex'[m] = ctxIndex[m]
      /\ top'[kind] = most /\ top' \in [Kinds -> Nat]
  BY <1>2, <1>5, <1>6
<1>8. \A m, o \in InTable(kind) : ctxIndex'[m] = ctxIndex'[o] => m = o
  <2> SUFFICES ASSUME NEW m \in InTable(kind), NEW o \in InTable(kind), number(m) = number(o)
               PROVE  m = o
    BY <1>7
  <2>1. /\ LatestEntry(m) \in Nat /\ LatestEntry(o) \in Nat
        /\ number(m) \in Int /\ number(o) \in Int
    BY <1>3
  <2>2. ~(LatestEntry(m) < LatestEntry(o)) /\ ~(LatestEntry(o) < LatestEntry(m))
    BY <1>4, <2>1
  <2>3. LatestEntry(m) = LatestEntry(o)
    BY <2>1, <2>2
  <2> QED
    BY <1>3, <2>3
<1>9. ctxIndex' \in [Mods \ CoreMods -> Nat]
  <2>1. \A m \in Mods \ CoreMods : ctxIndex'[m] \in Nat
    BY <1>3, <1>5, <1>7
  <2> QED
    BY <1>5, <2>1
<1>10. ASSUME NEW i \in 1 .. Len(Static), Static[i] \in InTable(kind)
       PROVE  ctxIndex'[Static[i]] = StaticNumber(i)
  <2>1. LatestEntry(Static[i]) = i /\ TypeOf[Static[i]] = kind
    BY <1>2, <1>10, LatestStatic
  <2>2. \A j \in 1 .. i : modules[j] = Static[j]
    BY ConstantsOK DEF StaticFirst
  <2>3. {j \in 1 .. i : TypeOf[modules[j]] = kind} = {j \in 1 .. i : TypeOf[Static[j]] = TypeOf[Static[i]]}
    BY <2>1, <2>2
  <2>4. number(Static[i]) = StaticNumber(i)
    BY <2>1, <2>3 DEF number, Counted, StaticNumber
  <2> QED
    BY <1>7, <1>10, <2>4
<1>11. ASSUME NEW i \in 1 .. Len(Static), Static[i] \notin CoreMods
       PROVE  /\ ctxIndex'[Static[i]] \in {0, StaticNumber(i)}
              /\ ctxIndex[Static[i]] # 0 => ctxIndex'[Static[i]] = ctxIndex[Static[i]]
  <2>1. Static[i] \in Mods \ CoreMods /\ ctxIndex[Static[i]] \in {0, StaticNumber(i)}
    BY <1>11, ConstantsOK DEF CtxOK
  <2> QED
    BY <1>7, <1>10, <2>1
<1>12. CtxOK'
  BY <1>7, <1>9, <1>11 DEF CtxOK, StaticNumber
<1> QED
  BY <1>2, <1>3, <1>7, <1>8, <1>11, <1>12

-----------------------------------------------------------------------------
(* A block by itself: b, with the numbers ix of its modules, the greatest   *)
(* of them n                                                                *)

Cells == [of : Mods \cup {"none"}, val : 0 .. 4]
Paths == {NoPath} \cup {<<"file", t>> : t \in Texts} \cup {Md5(t) : t \in Texts}
Fields == [from : {"unset", "file", "conf"}, path : Paths, code : Texts \cup {""},
           parser : Parsers \cup {"unset", "null"}]

\* How many levels of a scope there are at some depth.
LevelCount(scope, depth) == IF scope < 3 /\ scope < depth THEN scope ELSE depth

Shape(b, n) ==
    /\ n \in Nat /\ b.kind \in Kinds /\ b.mods \subseteq ProtoMods(b.kind)
    /\ b \in [kind : Kinds, at : {"open", "closed"}, depth : Levels(b.kind), mods : {b.mods},
              conf : [1 .. 3 -> Seq([1 .. n -> Cells])], script : Seq(Fields),
              given : Seq(Fields), said : [b.mods -> 0 .. 4]]
    /\ \A scope \in 1 .. 3 : Len(b.conf[scope]) = LevelCount(scope, b.depth)
    /\ Len(b.script) = b.depth

\* A module's own configuration is at its number in all arrays of its scope.
Own(b, ix, n, m) ==
    /\ ix[m] \in 1 .. n
    /\ \A l \in 1 .. Len(b.conf[ScopeOf[m]]) : b.conf[ScopeOf[m]][l][ix[m]].of = m

\* Of the levels of an array the last that says something says "said".
SaidLast(c, x, said) ==
    /\ \A l \in 1 .. Len(c) : c[l][x].val \in {0, l}
    /\ said # 0 => said \in 1 .. Len(c) /\ c[said][x].val = said
    /\ \A l \in 1 .. Len(c) : l > said => c[l][x].val = 0

\* What a script directive leaves of a level.
IsGiven(s) ==
    /\ s.from = "unset" => s.path = NoPath /\ s.code = ""
    /\ s.from = "file" => s.path # NoPath /\ s.code = ""
    /\ s.from = "conf" => s.path # NoPath /\ s.code # ""

Opened(b, ix, n) ==
    /\ Shape(b, n) /\ b.at = "open"
    /\ \A m \in b.mods : Own(b, ix, n, m) /\ SaidLast(b.conf[ScopeOf[m]], ix[m], b.said[m])
    /\ \A l \in 1 .. b.depth : IsGiven(b.script[l])

\* The arrays that a level begins with.
LEMMA NewArrayIs ==
    ASSUME NEW kind \in Kinds, NEW scope \in 1 .. 3, top'[kind] \in Nat, InTable(kind) \subseteq Mods,
           \A m \in InTable(kind) : ctxIndex'[m] \in 1 .. top'[kind],
           \A m, o \in InTable(kind) :
               ScopeOf[m] = scope /\ ScopeOf[o] = scope /\ ctxIndex'[m] = ctxIndex'[o] => m = o
    PROVE  /\ NewArray(kind, scope) \in [1 .. top'[kind] -> Cells]
           /\ \A i \in 1 .. top'[kind] : NewArray(kind, scope)[i].val = 0
           /\ \A m \in InTable(kind) :
                 ScopeOf[m] = scope => NewArray(kind, scope)[ctxIndex'[m]].of = m
<1> DEFINE here(i) == {m \in InTable(kind) : ScopeOf[m] = scope /\ ctxIndex'[m] = i}
           owner(i) == IF here(i) = {} THEN "none" ELSE CHOOSE m \in here(i) : TRUE
<1>1. NewArray(kind, scope) = [i \in 1 .. top'[kind] |-> [of |-> owner(i), val |-> 0]]
  BY DEF NewArray
<1>2. \A i \in 1 .. top'[kind] : owner(i) \in Mods \cup {"none"}
  OBVIOUS
<1>3. ASSUME NEW m \in InTable(kind), ScopeOf[m] = scope PROVE owner(ctxIndex'[m]) = m
  <2>1. here(ctxIndex'[m]) = {m}
    BY <1>3
  <2> QED
    BY <2>1
<1> HIDE DEF owner
<1> QED
  BY <1>1, <1>2, <1>3 DEF Cells

\* The block begins.
LEMMA Begins ==
    ASSUME LoaderTypeOK, StaticFirst, CtxOK, NEW kind \in Kinds, OpenBlock(kind)
    PROVE  /\ Opened(block', ctxIndex', top'[block'.kind])
           /\ block'.mods = InTable(block'.kind) /\ block' # NoBlock
<1>1. Number(kind)
  BY DEF OpenBlock
<1> DEFINE n == top'[kind]
           ix == ctxIndex'
           mods == InTable(kind)
           arrays == [scope \in 1 .. 3 |-> <<NewArray(kind, scope)>>]
           b == [kind |-> kind, at |-> "open", depth |-> 1, mods |-> mods,
                 conf |-> arrays, script |-> <<NoScript>>, given |-> <<>>,
                 said |-> [m \in mods |-> 0]]
<1>2. block' = b
  BY DEF OpenBlock
<1>3. /\ n \in Nat /\ mods \subseteq ProtoMods(kind) /\ mods \subseteq Mods
      /\ \A m \in mods : ix[m] \in 1 .. n /\ ScopeOf[m] \in 1 .. 3
      /\ \A m, o \in mods : ix[m] = ix[o] => m = o
  <2>1. /\ CtxOK'
        /\ \A m \in mods : m \in ProtoMods(kind) /\ ix[m] \in 1 .. n
        /\ \A m, o \in mods : ix[m] = ix[o] => m = o
    BY <1>1, Numbered
  <2>2. n \in Nat
    BY <2>1 DEF CtxOK
  <2> QED
    BY <2>1, <2>2, KindsOK
<1>4. \A scope \in 1 .. 3 :
         /\ NewArray(kind, scope) \in [1 .. n -> Cells]
         /\ \A i \in 1 .. n : NewArray(kind, scope)[i].val = 0
         /\ \A m \in mods : ScopeOf[m] = scope => NewArray(kind, scope)[ix[m]].of = m
  BY <1>3, NewArrayIs
<1>5. /\ arrays \in [1 .. 3 -> Seq([1 .. n -> Cells])]
      /\ \A scope \in 1 .. 3 : Len(arrays[scope]) = 1 /\ arrays[scope][1] = NewArray(kind, scope)
  BY <1>4
<1> HIDE DEF arrays, n, ix, mods
<1>6. NoScript \in Fields /\ IsGiven(NoScript)
  BY DEF NoScript, Fields, Paths, IsGiven
<1>7. /\ b.kind = kind /\ b.at = "open" /\ b.depth = 1 /\ b.mods = mods /\ b.conf = arrays
      /\ b.script = <<NoScript>> /\ b.given = <<>> /\ b.said = [m \in mods |-> 0]
  OBVIOUS
<1>8. Shape(b, n)
  <2>1. 1 \in Levels(kind)
    BY DEF Levels
  <2>2. /\ <<NoScript>> \in Seq(Fields) /\ Len(<<NoScript>>) = 1 /\ <<>> \in Seq(Fields)
        /\ [m \in mods |-> 0] \in [mods -> 0 .. 4]
    BY <1>6
  <2>3. b \in [kind : Kinds, at : {"open", "closed"}, depth : Levels(b.kind), mods : {b.mods},
               conf : [1 .. 3 -> Seq([1 .. n -> Cells])], script : Seq(Fields),
               given : Seq(Fields), said : [b.mods -> 0 .. 4]]
    BY <1>5, <2>1, <2>2
  <2> HIDE DEF b
  <2>4. \A scope \in 1 .. 3 : Len(b.conf[scope]) = LevelCount(scope, b.depth)
    <3>1. \A scope \in 1 .. 3 : LevelCount(scope, 1) = 1
      BY DEF LevelCount
    <3> QED
      BY <1>5, <1>7, <3>1
  <2> QED
    BY <1>3, <1>7, <2>2, <2>3, <2>4 DEF Shape
<1>9. ASSUME NEW m \in mods
      PROVE  Own(b, ix, n, m) /\ SaidLast(b.conf[ScopeOf[m]], ix[m], b.said[m])
  <2> DEFINE c == arrays[ScopeOf[m]]
  <2>1. Len(c) = 1 /\ ix[m] \in 1 .. n /\ c[1][ix[m]].of = m /\ c[1][ix[m]].val = 0
    BY <1>3, <1>4, <1>5
  <2>2. b.conf[ScopeOf[m]] = c /\ b.said[m] = 0
    BY <1>7
  <2> HIDE DEF b, c
  <2>3. SaidLast(c, ix[m], 0)
    <3>1. \A l \in 1 .. Len(c) : c[l][ix[m]].val = 0
      BY <2>1
    <3> QED
      BY <3>1 DEF SaidLast
  <2>4. \A l \in 1 .. Len(c) : c[l][ix[m]].of = m
    BY <2>1
  <2>5. Own(b, ix, n, m)
    BY <2>1, <2>2, <2>4 DEF Own
  <2> QED
    BY <2>2, <2>3, <2>5
<1>10. \A l \in 1 .. b.depth : IsGiven(b.script[l])
  <2>1. <<NoScript>>[1] = NoScript
    OBVIOUS
  <2> HIDE DEF b
  <2> QED
    BY <1>6, <1>7, <2>1
<1>11. Opened(b, ix, n)
  <2> HIDE DEF b
  <2> QED
    BY <1>7, <1>8, <1>9, <1>10 DEF Opened
<1>12. b # NoBlock
  BY DEF NoBlock
<1> QED
  <2> HIDE DEF b
  <2> QED
    BY <1>2, <1>7, <1>11, <1>12 DEF n, ix, mods

LEMMA GrownIs ==
    ASSUME NEW S, NEW c \in Seq(S), NEW a \in S
    PROVE  /\ Append(c, a) \in Seq(S) /\ Len(Append(c, a)) = Len(c) + 1
           /\ \A l \in 1 .. Len(c) + 1 :
                 \/ l \in 1 .. Len(c) /\ Append(c, a)[l] = c[l]
                 \/ l = Len(c) + 1 /\ Append(c, a)[l] = a
           /\ \A l \in 1 .. Len(c) : Append(c, a)[l] = c[l]
<1> DEFINE both == Append(c, a)
<1>1. /\ both \in Seq(S) /\ Len(both) = Len(c) + 1
      /\ \A l \in 1 .. Len(c) : both[l] = c[l]
      /\ both[Len(c) + 1] = a
  BY AppendProperties
<1>2. Len(c) \in Nat
  OBVIOUS
<1>3. \A l \in 1 .. Len(c) + 1 : l \in 1 .. Len(c) \/ l = Len(c) + 1
  BY <1>2
<1> HIDE DEF both
<1> QED
  BY <1>1, <1>3 DEF both

LEMMA SaidStays ==
    ASSUME NEW n, NEW c \in Seq([1 .. n -> Cells]), NEW a \in [1 .. n -> Cells],
           NEW x, NEW said \in 0 .. 4, a[x].val = 0, SaidLast(c, x, said)
    PROVE  SaidLast(Append(c, a), x, said)
<1> DEFINE S == [1 .. n -> Cells]
           both == Append(c, a)
<1>1. c \in Seq(S) /\ a \in S
  OBVIOUS
<1> HIDE DEF S
<1>2. /\ Len(both) = Len(c) + 1
      /\ \A l \in 1 .. Len(c) + 1 : \/ l \in 1 .. Len(c) /\ both[l] = c[l]
                                    \/ l = Len(c) + 1 /\ both[l] = a
  BY <1>1, GrownIs
<1>3. Len(c) \in Nat
  OBVIOUS
<1> HIDE DEF both
<1>4. /\ \A l \in 1 .. Len(c) : c[l][x].val \in {0, l}
      /\ said # 0 => said \in 1 .. Len(c) /\ c[said][x].val = said
      /\ \A l \in 1 .. Len(c) : l > said => c[l][x].val = 0
  BY DEF SaidLast
<1>5. \A l \in 1 .. Len(both) : both[l][x].val \in {0, l}
  BY <1>2, <1>4
<1>6. said # 0 => said \in 1 .. Len(both) /\ both[said][x].val = said
  <2> SUFFICES ASSUME said # 0 PROVE said \in 1 .. Len(both) /\ both[said][x].val = said
    OBVIOUS
  <2>1. said \in 1 .. Len(c) + 1 /\ said # Len(c) + 1 /\ c[said][x].val = said
    BY <1>3, <1>4
  <2> QED
    BY <1>2, <2>1
<1>7. \A l \in 1 .. Len(both) : l > said => both[l][x].val = 0
  BY <1>2, <1>4
<1> QED
  BY <1>5, <1>6, <1>7 DEF SaidLast, both

LEMMA LevelOpens ==
    ASSUME LoaderTypeOK, CtxOK, Opened(block, ctxIndex, top[block.kind]),
           block.mods = InTable(block.kind), OpenLevel
    PROVE  Opened(block', ctxIndex', top'[block'.kind]) /\ block'.mods = block.mods
           /\ block'.kind = block.kind
<1> DEFINE kind == block.kind
           n == top[kind]
           ix == ctxIndex
           mods == block.mods
           d == block.depth + 1
           old == block.conf
           grows(scope) == d \in LevelsOf(kind, scope)
           arrays == [scope \in 1 .. 3 |->
                         IF grows(scope) THEN Append(old[scope], NewArray(kind, scope)) ELSE old[scope]]
<1>1. /\ block' = [block EXCEPT !.depth = d, !.conf = arrays, !.script = Append(@, NoScript)]
      /\ ctxIndex' = ix /\ top' = top /\ d \in Levels(kind)
  BY DEF OpenLevel
<1>2. /\ Shape(block, n) /\ block.at = "open" /\ mods = InTable(kind)
      /\ \A m \in mods : Own(block, ix, n, m) /\ SaidLast(old[ScopeOf[m]], ix[m], block.said[m])
      /\ \A l \in 1 .. block.depth : IsGiven(block.script[l])
  BY DEF Opened
<1>3. /\ kind \in Kinds /\ mods \subseteq ProtoMods(kind) /\ n \in Nat
      /\ block.depth \in Levels(kind) /\ block.depth \in Nat
      /\ old \in [1 .. 3 -> Seq([1 .. n -> Cells])]
      /\ block.script \in Seq(Fields) /\ Len(block.script) = block.depth
      /\ block.said \in [mods -> 0 .. 4] /\ block.given \in Seq(Fields)
      /\ \A scope \in 1 .. 3 : Len(old[scope]) = LevelCount(scope, block.depth)
      /\ block \in [kind : Kinds, at : {"open", "closed"}, depth : Levels(kind), mods : {mods},
                    conf : [1 .. 3 -> Seq([1 .. n -> Cells])], script : Seq(Fields),
                    given : Seq(Fields), said : [mods -> 0 .. 4]]
  BY <1>2 DEF Shape, Levels
<1>4. \A m \in mods : m \in Mods /\ ScopeOf[m] \in 1 .. 3
  BY <1>3, KindsOK
<1>5. \A scope \in 1 .. 3 :
         /\ LevelCount(scope, block.depth) >= 1
         /\ LevelCount(scope, d) = IF grows(scope) THEN LevelCount(scope, block.depth) + 1
                                   ELSE LevelCount(scope, block.depth)
  <2>1. kind = "http" \/ kind # "http"
    OBVIOUS
  <2>2. block.depth >= 1 /\ (d \in Levels(kind))
    BY <1>1, <1>3 DEF Levels
  <2> SUFFICES ASSUME NEW scope \in 1 .. 3
               PROVE  /\ LevelCount(scope, block.depth) >= 1
                      /\ LevelCount(scope, d) = IF grows(scope) THEN LevelCount(scope, block.depth) + 1
                                                ELSE LevelCount(scope, block.depth)
    OBVIOUS
  <2> DEFINE e == block.depth
  <2>3. e \in Nat /\ e >= 1 /\ d = e + 1 /\ d \in Levels(kind)
    BY <1>1, <1>3, <2>2
  <2> HIDE DEF d, e
  <2>4. CASE scope = 3
    BY <2>3, <2>4 DEF LevelCount, LevelsOf, e
  <2>5. CASE scope < 3
    <3>1. grows(scope) <=> e < scope
      BY <2>3, <2>5 DEF LevelsOf
    <3>2. LevelCount(scope, d) = (IF scope < e + 1 THEN scope ELSE e + 1)
          /\ LevelCount(scope, e) = (IF scope < e THEN scope ELSE e)
      BY <2>3, <2>5 DEF LevelCount
    <3> HIDE DEF grows
    <3> QED
      BY <2>3, <2>5, <3>1, <3>2 DEF e
  <2> QED
    BY <2>4, <2>5
<1>6. \A m, o \in mods : ScopeOf[m] = ScopeOf[o] /\ ix[m] = ix[o] => m = o
  <2> SUFFICES ASSUME NEW m \in mods, NEW o \in mods, ScopeOf[m] = ScopeOf[o], ix[m] = ix[o]
               PROVE  m = o
    OBVIOUS
  <2>1. 1 \in 1 .. Len(old[ScopeOf[m]])
    BY <1>3, <1>4, <1>5
  <2> QED
    BY <1>2, <2>1 DEF Own
<1>7. \A scope \in 1 .. 3 :
         /\ NewArray(kind, scope) \in [1 .. n -> Cells]
         /\ \A i \in 1 .. n : NewArray(kind, scope)[i].val = 0
         /\ \A m \in mods : ScopeOf[m] = scope => NewArray(kind, scope)[ix[m]].of = m
  <2>1. /\ top'[kind] = n /\ InTable(kind) \subseteq Mods
        /\ \A m \in InTable(kind) : ctxIndex'[m] \in 1 .. top'[kind]
        /\ \A m, o \in InTable(kind) : ScopeOf[m] = ScopeOf[o] /\ ctxIndex'[m] = ctxIndex'[o] => m = o
    BY <1>1, <1>2, <1>4, <1>6 DEF Own
  <2>2. \A scope \in 1 .. 3 :
           /\ NewArray(kind, scope) \in [1 .. top'[kind] -> Cells]
           /\ \A i \in 1 .. top'[kind] : NewArray(kind, scope)[i].val = 0
           /\ \A m \in InTable(kind) :
                 ScopeOf[m] = scope => NewArray(kind, scope)[ctxIndex'[m]].of = m
    <3> SUFFICES ASSUME NEW scope \in 1 .. 3
                 PROVE  /\ NewArray(kind, scope) \in [1 .. top'[kind] -> Cells]
                        /\ \A i \in 1 .. top'[kind] : NewArray(kind, scope)[i].val = 0
                        /\ \A m \in InTable(kind) :
                              ScopeOf[m] = scope => NewArray(kind, scope)[ctxIndex'[m]].of = m
      OBVIOUS
    <3>1. kind \in Kinds /\ top'[kind] \in Nat
      BY <1>3, <2>1
    <3>2. \A m, o \in InTable(kind) :
             ScopeOf[m] = scope /\ ScopeOf[o] = scope /\ ctxIndex'[m] = ctxIndex'[o] => m = o
      BY <2>1
    <3> QED
      BY <2>1, <3>1, <3>2, NewArrayIs
  <2> QED
    BY <1>1, <1>2, <2>1, <2>2
<1>8. \A scope \in 1 .. 3 :
         /\ arrays[scope] = IF grows(scope) THEN Append(old[scope], NewArray(kind, scope)) ELSE old[scope]
         /\ arrays[scope] \in Seq([1 .. n -> Cells])
         /\ Len(arrays[scope]) = LevelCount(scope, d)
  <2> SUFFICES ASSUME NEW scope \in 1 .. 3
               PROVE  /\ arrays[scope] \in Seq([1 .. n -> Cells])
                      /\ Len(arrays[scope]) = LevelCount(scope, d)
    OBVIOUS
  <2>1. CASE grows(scope)
    <3> DEFINE S == [1 .. n -> Cells]
               c == old[scope]
               a == NewArray(kind, scope)
    <3>1. c \in Seq(S) /\ a \in S /\ arrays[scope] = Append(c, a)
      BY <1>3, <1>7, <2>1
    <3>2. Len(c) + 1 = LevelCount(scope, d)
      BY <1>3, <1>5, <2>1
    <3> HIDE DEF S, c, a, arrays
    <3>3. Append(c, a) \in Seq(S) /\ Len(Append(c, a)) = Len(c) + 1
      BY <3>1, GrownIs
    <3> QED
      BY <3>1, <3>2, <3>3 DEF S
  <2>2. CASE ~grows(scope)
    BY <1>3, <1>5, <2>2
  <2> QED
    BY <2>1, <2>2
<1>9. ASSUME NEW m \in mods
      PROVE  /\ ix[m] \in 1 .. n /\ SaidLast(arrays[ScopeOf[m]], ix[m], block.said[m])
             /\ \A l \in 1 .. Len(arrays[ScopeOf[m]]) : arrays[ScopeOf[m]][l][ix[m]].of = m
  <2> DEFINE scope == ScopeOf[m]
             c == old[scope]
             a == NewArray(kind, scope)
  <2>1. /\ scope \in 1 .. 3 /\ c \in Seq([1 .. n -> Cells]) /\ a \in [1 .. n -> Cells]
        /\ ix[m] \in 1 .. n /\ a[ix[m]].val = 0 /\ a[ix[m]].of = m
        /\ \A l \in 1 .. Len(c) : c[l][ix[m]].of = m
        /\ SaidLast(c, ix[m], block.said[m]) /\ block.said[m] \in 0 .. 4
    BY <1>2, <1>3, <1>4, <1>7 DEF Own
  <2>2. arrays[scope] = IF grows(scope) THEN Append(c, a) ELSE c
    BY <1>8, <2>1
  <2> HIDE DEF scope, c, a, arrays, grows
  <2>3. SaidLast(Append(c, a), ix[m], block.said[m])
    BY <2>1, SaidStays
  <2>4. \A l \in 1 .. Len(Append(c, a)) : Append(c, a)[l][ix[m]].of = m
    <3> DEFINE S == [1 .. n -> Cells]
    <3>1. c \in Seq(S) /\ a \in S
      BY <2>1
    <3> HIDE DEF S
    <3>2. /\ Len(Append(c, a)) = Len(c) + 1
          /\ \A l \in 1 .. Len(c) + 1 :
                \/ l \in 1 .. Len(c) /\ Append(c, a)[l] = c[l]
                \/ l = Len(c) + 1 /\ Append(c, a)[l] = a
      BY <3>1, GrownIs
    <3> QED
      BY <2>1, <3>2
  <2> QED
    BY <2>1, <2>2, <2>3, <2>4 DEF scope
<1>10. /\ Append(block.script, NoScript) \in Seq(Fields)
       /\ Len(Append(block.script, NoScript)) = d
       /\ \A l \in 1 .. d : IsGiven(Append(block.script, NoScript)[l])
  <2>1. NoScript \in Fields /\ IsGiven(NoScript)
    BY DEF NoScript, Fields, Paths, IsGiven
  <2> DEFINE t == block.script
  <2>2. t \in Seq(Fields) /\ Len(t) = block.depth /\ \A l \in 1 .. Len(t) : IsGiven(t[l])
    BY <1>2, <1>3
  <2> HIDE DEF t
  <2>3. /\ Append(t, NoScript) \in Seq(Fields) /\ Len(Append(t, NoScript)) = Len(t) + 1
        /\ \A l \in 1 .. Len(t) + 1 :
              \/ l \in 1 .. Len(t) /\ Append(t, NoScript)[l] = t[l]
              \/ l = Len(t) + 1 /\ Append(t, NoScript)[l] = NoScript
    BY <2>1, <2>2, GrownIs
  <2>4. \A l \in 1 .. Len(t) + 1 : IsGiven(Append(t, NoScript)[l])
    BY <2>1, <2>2, <2>3
  <2> QED
    BY <2>2, <2>3, <2>4 DEF t
<1> DEFINE script == Append(block.script, NoScript)
<1>11. arrays \in [1 .. 3 -> Seq([1 .. n -> Cells])]
  <2>1. DOMAIN arrays = 1 .. 3 /\ arrays = [scope \in 1 .. 3 |-> arrays[scope]]
    OBVIOUS
  <2> HIDE DEF arrays
  <2> QED
    BY <1>8, <2>1
<1>12. block' = [block EXCEPT !.depth = d, !.conf = arrays, !.script = script]
  BY <1>1
<1> HIDE DEF arrays, script, grows, d, n
<1>13. /\ block'.kind = kind /\ block'.at = "open" /\ block'.depth = d /\ block'.mods = mods
       /\ block'.conf = arrays /\ block'.script = script /\ block'.said = block.said
       /\ block' \in [kind : Kinds, at : {"open", "closed"}, depth : Levels(kind), mods : {mods},
                      conf : [1 .. 3 -> Seq([1 .. n -> Cells])], script : Seq(Fields),
                      given : Seq(Fields), said : [mods -> 0 .. 4]]
  <2>1. script \in Seq(Fields) /\ d \in Levels(kind)
    BY <1>1, <1>10 DEF script
  <2> QED
    BY <1>2, <1>3, <1>11, <1>12, <2>1
<1>14. Shape(block', n)
  <2>1. Len(script) = d /\ \A scope \in 1 .. 3 : Len(arrays[scope]) = LevelCount(scope, d)
    BY <1>8, <1>10 DEF script
  <2> QED
    BY <1>3, <1>13, <2>1 DEF Shape
<1>15. \A m \in block'.mods :
          Own(block', ix, n, m) /\ SaidLast(block'.conf[ScopeOf[m]], ix[m], block'.said[m])
  BY <1>9, <1>13 DEF Own
<1>16. \A l \in 1 .. block'.depth : IsGiven(block'.script[l])
  BY <1>10, <1>13 DEF script
<1>17. Opened(block', ix, n)
  BY <1>13, <1>14, <1>15, <1>16 DEF Opened
<1> QED
  BY <1>1, <1>13, <1>17 DEF n

\* A value is put into a cell of the last level of an array.
LEMMA PutIs ==
    ASSUME NEW n \in Nat, NEW c \in Seq([1 .. n -> Cells]), NEW d \in 1 .. 4, Len(c) = d, NEW x \in 1 .. n
    PROVE  LET e == [c EXCEPT ![d][x].val = d]
           IN /\ e \in Seq([1 .. n -> Cells]) /\ Len(e) = Len(c)
              /\ \A l \in 1 .. Len(c) : \A y \in 1 .. n :
                    /\ e[l][y].of = c[l][y].of
                    /\ e[l][y].val = IF l = d /\ y = x THEN d ELSE c[l][y].val
<1> DEFINE last == [c[d] EXCEPT ![x].val = d]
           e == [c EXCEPT ![d] = last]
<1>1. c[d] \in [1 .. n -> Cells] /\ d \in 0 .. 4
  OBVIOUS
<1>2. /\ last \in [1 .. n -> Cells]
      /\ \A y \in 1 .. n : last[y].of = c[d][y].of /\ last[y].val = IF y = x THEN d ELSE c[d][y].val
  BY <1>1 DEF Cells
<1> DEFINE S == [1 .. n -> Cells]
<1>3. last \in S /\ c \in Seq(S)
  BY <1>2
<1> HIDE DEF last, S
<1>4. /\ e \in Seq(S) /\ Len(e) = Len(c)
      /\ \A l \in 1 .. Len(c) : e[l] = IF l = d THEN last ELSE c[l]
  BY <1>3
<1>5. e = [c EXCEPT ![d][x].val = d]
  BY DEF last
<1> HIDE DEF e
<1>6. \A l \in 1 .. Len(c) : \A y \in 1 .. n :
         /\ e[l][y].of = c[l][y].of
         /\ e[l][y].val = IF l = d /\ y = x THEN d ELSE c[l][y].val
  BY <1>2, <1>4
<1> QED
  BY <1>4, <1>5, <1>6 DEF S

\* What is said then: of the cells with that number the new value is the last; of
\* the others nothing is new.
PutIn(n, c, e, d, x) ==
    /\ n \in Nat /\ d \in 1 .. 4 /\ Len(c) = d /\ Len(e) = d /\ x \in 1 .. n
    /\ \A l \in 1 .. d : \A y \in 1 .. n :
          e[l][y].val = IF l = d /\ y = x THEN d ELSE c[l][y].val

LEMMA SaidAfter ==
    ASSUME NEW n, NEW c, NEW e, NEW d, NEW x, PutIn(n, c, e, d, x)
    PROVE  /\ \A said \in 0 .. 4 : SaidLast(c, x, said) => SaidLast(e, x, d)
           /\ \A y \in 1 .. n : \A said \in 0 .. 4 :
                 y # x /\ SaidLast(c, y, said) => SaidLast(e, y, said)
<1> USE DEF PutIn
<1>1. ASSUME NEW said \in 0 .. 4, SaidLast(c, x, said) PROVE SaidLast(e, x, d)
  <2>1. \A l \in 1 .. d : e[l][x].val \in {0, l}
    BY <1>1 DEF SaidLast
  <2>2. d \in 1 .. d /\ e[d][x].val = d
    OBVIOUS
  <2> QED
    BY <2>1, <2>2 DEF SaidLast
<1>2. ASSUME NEW y \in 1 .. n, NEW said \in 0 .. 4, y # x, SaidLast(c, y, said) PROVE SaidLast(e, y, said)
  <2>1. \A l \in 1 .. d : e[l][y].val = c[l][y].val
    BY <1>2
  <2> QED
    BY <1>2, <2>1 DEF SaidLast
<1> QED
  BY <1>1, <1>2

LEMMA Puts ==
    ASSUME CtxOK, Opened(block, ctxIndex, top[block.kind]), NEW kind, NEW m, PutDirective(kind, m),
           block.mods = InTable(block.kind)
    PROVE  Opened(block', ctxIndex', top'[block'.kind]) /\ block'.mods = block.mods
           /\ block'.kind = block.kind
<1> DEFINE n == top[kind]
           ix == ctxIndex
           mods == block.mods
           d == block.depth
           scope == ScopeOf[m]
           old == block.conf
           c == old[scope]
           e == [c EXCEPT ![d][ix[m]].val = d]
           arrays == [old EXCEPT ![scope] = e]
           said == [block.said EXCEPT ![m] = d]
<1>1. /\ block' = [block EXCEPT !.conf[scope][d][ix[m]].val = d, !.said[m] = d]
      /\ ctxIndex' = ix /\ top' = top /\ block.kind = kind /\ m \in mods
      /\ d \in LevelsOf(kind, scope)
  BY DEF PutDirective
<1>2. /\ Shape(block, n) /\ block.at = "open"
      /\ \A o \in mods : Own(block, ix, n, o) /\ SaidLast(old[ScopeOf[o]], ix[o], block.said[o])
      /\ \A l \in 1 .. d : IsGiven(block.script[l])
  BY <1>1 DEF Opened
<1>3. /\ kind \in Kinds /\ mods \subseteq ProtoMods(kind) /\ n \in Nat
      /\ d \in Levels(kind) /\ d \in 1 .. 4
      /\ old \in [1 .. 3 -> Seq([1 .. n -> Cells])]
      /\ block.script \in Seq(Fields) /\ Len(block.script) = d
      /\ block.said \in [mods -> 0 .. 4] /\ block.given \in Seq(Fields)
      /\ \A s \in 1 .. 3 : Len(old[s]) = LevelCount(s, d)
      /\ block \in [kind : Kinds, at : {"open", "closed"}, depth : Levels(kind), mods : {mods},
                    conf : [1 .. 3 -> Seq([1 .. n -> Cells])], script : Seq(Fields),
                    given : Seq(Fields), said : [mods -> 0 .. 4]]
  BY <1>1, <1>2 DEF Shape, Levels
<1>4. /\ scope \in 1 .. 3 /\ ix[m] \in 1 .. n /\ c \in Seq([1 .. n -> Cells]) /\ Len(c) = d
      /\ \A o \in mods : ScopeOf[o] \in 1 .. 3
  <2>1. \A o \in mods : ScopeOf[o] \in 1 .. 3
    BY <1>3, KindsOK
  <2>2. LevelCount(scope, d) = d
    <3>1. scope \in 1 .. 3 /\ d \in Nat /\ d \in LevelsOf(kind, scope)
      BY <1>1, <1>3, <2>1
    <3> HIDE DEF scope, d
    <3>2. scope < 3 => ~(scope < d)
      BY <3>1 DEF LevelsOf
    <3> QED
      BY <3>2 DEF LevelCount
  <2>3. scope \in 1 .. 3 /\ ix[m] \in 1 .. n
    BY <1>1, <1>2, <2>1 DEF Own
  <2> HIDE DEF scope, n
  <2>4. c \in Seq([1 .. n -> Cells]) /\ Len(c) = d
    BY <1>3, <2>2, <2>3
  <2> QED
    BY <2>1, <2>3, <2>4
<1> HIDE DEF c
<1>5. /\ e \in Seq([1 .. n -> Cells]) /\ Len(e) = d
      /\ \A l \in 1 .. d : \A y \in 1 .. n :
            /\ e[l][y].of = c[l][y].of
            /\ e[l][y].val = IF l = d /\ y = ix[m] THEN d ELSE c[l][y].val
  <2> DEFINE x == ix[m]
             e1 == [c EXCEPT ![d][x].val = d]
  <2>1. /\ n \in Nat /\ c \in Seq([1 .. n -> Cells]) /\ d \in 1 .. 4 /\ Len(c) = d /\ x \in 1 .. n
    BY <1>3, <1>4
  <2> HIDE DEF n, d, x, scope
  <2>2. /\ e1 \in Seq([1 .. n -> Cells]) /\ Len(e1) = Len(c)
        /\ \A l \in 1 .. Len(c) : \A y \in 1 .. n :
              /\ e1[l][y].of = c[l][y].of
              /\ e1[l][y].val = IF l = d /\ y = x THEN d ELSE c[l][y].val
    BY <2>1, PutIs, ZenonT(60)
  <2>3. e1 = e
    BY DEF x
  <2> HIDE DEF e1, e
  <2> QED
    BY <2>1, <2>2, <2>3 DEF x
<1>6. block' = [block EXCEPT !.conf = arrays, !.said = said]
  BY <1>1 DEF c
<1> HIDE DEF e
<1>7. /\ arrays \in [1 .. 3 -> Seq([1 .. n -> Cells])]
      /\ \A s \in 1 .. 3 : arrays[s] = IF s = scope THEN e ELSE old[s]
      /\ \A s \in 1 .. 3 : Len(arrays[s]) = LevelCount(s, d)
  BY <1>3, <1>4, <1>5 DEF c
<1>8. said \in [mods -> 0 .. 4] /\ \A o \in mods : said[o] = IF o = m THEN d ELSE block.said[o]
  BY <1>1, <1>3
<1> HIDE DEF arrays, said
<1>9. /\ block'.kind = kind /\ block'.at = "open" /\ block'.depth = d /\ block'.mods = mods
      /\ block'.conf = arrays /\ block'.script = block.script /\ block'.said = said
      /\ block' \in [kind : Kinds, at : {"open", "closed"}, depth : Levels(kind), mods : {mods},
                     conf : [1 .. 3 -> Seq([1 .. n -> Cells])], script : Seq(Fields),
                     given : Seq(Fields), said : [mods -> 0 .. 4]]
  BY <1>1, <1>2, <1>3, <1>6, <1>7, <1>8
<1>10. Shape(block', n)
  BY <1>3, <1>7, <1>9 DEF Shape
<1>11. ASSUME NEW o \in mods
       PROVE  Own(block', ix, n, o) /\ SaidLast(arrays[ScopeOf[o]], ix[o], said[o])
  <2>1. Own(block, ix, n, o) /\ SaidLast(old[ScopeOf[o]], ix[o], block.said[o])
        /\ ScopeOf[o] \in 1 .. 3 /\ ix[o] \in 1 .. n
    BY <1>2, <1>4 DEF Own
  <2>2. CASE ScopeOf[o] # scope
    <3>1. arrays[ScopeOf[o]] = old[ScopeOf[o]] /\ said[o] = block.said[o]
      BY <1>7, <1>8, <2>1, <2>2
    <3> QED
      BY <1>9, <2>1, <3>1 DEF Own
  <2>3. CASE ScopeOf[o] = scope
    <3>1. arrays[ScopeOf[o]] = e /\ old[ScopeOf[o]] = c
      BY <1>7, <2>1, <2>3 DEF c
    <3>2. \A l \in 1 .. d : e[l][ix[o]].of = o
      <4>1. \A l \in 1 .. Len(old[ScopeOf[o]]) : old[ScopeOf[o]][l][ix[o]].of = o
        BY <2>1 DEF Own
      <4>2. \A l \in 1 .. d : c[l][ix[o]].of = o
        BY <1>4, <3>1, <4>1
      <4> QED
        BY <1>5, <2>1, <4>2
    <3>3. Own(block', ix, n, o)
      BY <1>5, <1>9, <2>1, <3>1, <3>2 DEF Own
    <3>4. o # m => ix[o] # ix[m]
      <4>1. Own(block, ix, n, m) /\ Own(block, ix, n, o) /\ 1 \in 1 .. Len(c)
        BY <1>1, <1>2, <1>3, <1>4
      <4> QED
        BY <2>3, <3>1, <4>1 DEF Own
    <3>5. /\ \A v \in 0 .. 4 : SaidLast(c, ix[m], v) => SaidLast(e, ix[m], d)
          /\ \A y \in 1 .. n : \A v \in 0 .. 4 : y # ix[m] /\ SaidLast(c, y, v) => SaidLast(e, y, v)
      <4> DEFINE x == ix[m]
      <4>1. PutIn(n, c, e, d, x)
        BY <1>3, <1>4, <1>5 DEF PutIn
      <4> HIDE DEF n, d, x
      <4>2. /\ \A v \in 0 .. 4 : SaidLast(c, x, v) => SaidLast(e, x, d)
            /\ \A y \in 1 .. n : \A v \in 0 .. 4 : y # x /\ SaidLast(c, y, v) => SaidLast(e, y, v)
        BY <4>1, SaidAfter
      <4> QED
        BY <4>2 DEF x
    <3>6. SaidLast(e, ix[o], said[o])
      BY <1>3, <1>8, <2>1, <3>1, <3>4, <3>5
    <3> QED
      BY <3>1, <3>3, <3>6
  <2> QED
    BY <2>2, <2>3
<1>12. Opened(block', ix, n)
  BY <1>2, <1>9, <1>10, <1>11 DEF Opened
<1> QED
  BY <1>1, <1>9, <1>12

\* A script directive of the innermost level.
LEMMA GivenIs ==
    ASSUME NEW s \in Fields, IsGiven(s)
    PROVE  /\ s.from = "unset" => \A t \in Texts :
                 /\ FileScript(s, t) \in Fields /\ IsGiven(FileScript(s, t))
                 /\ CodeScript(s, t) \in Fields /\ IsGiven(CodeScript(s, t))
           /\ \A q \in Parsers :
                 [s EXCEPT !.parser = Find(q)] \in Fields /\ IsGiven([s EXCEPT !.parser = Find(q)])
<1>1. ASSUME NEW t \in Texts, s.from = "unset"
      PROVE  FileScript(s, t) \in Fields /\ IsGiven(FileScript(s, t))
  <2>1. <<"file", t>> \in Paths /\ <<"file", t>> # NoPath
    BY DEF Paths, NoPath
  <2> DEFINE q == <<"file", t>>
  <2>2. FileScript(s, t) = [s EXCEPT !.from = "file", !.path = q]
    BY DEF FileScript
  <2> HIDE DEF q
  <2> QED
    BY <1>1, <2>1, <2>2 DEF Fields, IsGiven, q
<1>2. ASSUME NEW t \in Texts, s.from = "unset"
      PROVE  CodeScript(s, t) \in Fields /\ IsGiven(CodeScript(s, t))
  <2>1. Md5(t) \in Paths /\ Md5(t) # NoPath /\ t # "" /\ t \in Texts \cup {""}
    BY ProtocolAssumption DEF Paths, NoPath, Md5
  <2> QED
    BY <1>2, <2>1 DEF CodeScript, Fields, IsGiven
<1>3. ASSUME NEW q \in Parsers
      PROVE  [s EXCEPT !.parser = Find(q)] \in Fields /\ IsGiven([s EXCEPT !.parser = Find(q)])
  <2>1. Find(q) \in Parsers \cup {"unset", "null"}
    BY DEF Find
  <2> QED
    BY <2>1 DEF Fields, IsGiven
<1> QED
  BY <1>1, <1>2, <1>3

LEMMA ScriptPut ==
    ASSUME Opened(block, ctxIndex, top[block.kind]), NEW g \in Fields, IsGiven(g),
           block' = [block EXCEPT !.script[block.depth] = g], UNCHANGED <<ctxIndex, top>>
    PROVE  Opened(block', ctxIndex', top'[block'.kind]) /\ block'.mods = block.mods
           /\ block'.kind = block.kind
<1> DEFINE n == top[block.kind]
           ix == ctxIndex
           kind == block.kind
           mods == block.mods
           d == block.depth
           script == [block.script EXCEPT ![d] = g]
<1>1. /\ Shape(block, n) /\ block.at = "open"
      /\ \A m \in mods : Own(block, ix, n, m) /\ SaidLast(block.conf[ScopeOf[m]], ix[m], block.said[m])
      /\ \A l \in 1 .. d : IsGiven(block.script[l])
  BY DEF Opened
<1>2. /\ n \in Nat /\ kind \in Kinds /\ mods \subseteq ProtoMods(kind)
      /\ block \in [kind : Kinds, at : {"open", "closed"}, depth : Levels(kind), mods : {mods},
                    conf : [1 .. 3 -> Seq([1 .. n -> Cells])], script : Seq(Fields),
                    given : Seq(Fields), said : [mods -> 0 .. 4]]
      /\ block.script \in Seq(Fields) /\ Len(block.script) = d /\ d \in 1 .. 4
      /\ \A scope \in 1 .. 3 : Len(block.conf[scope]) = LevelCount(scope, d)
  BY <1>1 DEF Shape, Levels
<1>3. /\ script \in Seq(Fields) /\ Len(script) = d
      /\ \A l \in 1 .. d : script[l] = IF l = d THEN g ELSE block.script[l]
  BY <1>2
<1>4. block' = [block EXCEPT !.script = script]
  OBVIOUS
<1> HIDE DEF script, n
<1>5. /\ block'.kind = kind /\ block'.at = "open" /\ block'.depth = d /\ block'.mods = mods
      /\ block'.conf = block.conf /\ block'.script = script /\ block'.said = block.said
      /\ block' \in [kind : Kinds, at : {"open", "closed"}, depth : Levels(kind), mods : {mods},
                     conf : [1 .. 3 -> Seq([1 .. n -> Cells])], script : Seq(Fields),
                     given : Seq(Fields), said : [mods -> 0 .. 4]]
  BY <1>1, <1>2, <1>3, <1>4
<1>6. Shape(block', n)
  BY <1>2, <1>3, <1>5 DEF Shape
<1>7. \A m \in block'.mods :
         Own(block', ix, n, m) /\ SaidLast(block'.conf[ScopeOf[m]], ix[m], block'.said[m])
  <2>1. \A m \in mods : Own(block', ix, n, m)
    <3>1. \A m \in mods : Own(block, ix, n, m)
      BY <1>1
    <3> QED
      BY <1>5, <3>1 DEF Own
  <2>2. \A m \in mods : SaidLast(block'.conf[ScopeOf[m]], ix[m], block'.said[m])
    <3>1. block'.conf = block.conf /\ block'.said = block.said
      BY <1>5
    <3> QED
      BY <1>1, <3>1
  <2> QED
    BY <1>5, <2>1, <2>2
<1>8. \A l \in 1 .. block'.depth : IsGiven(block'.script[l])
  BY <1>1, <1>3, <1>5
<1>9. Opened(block', ix, n)
  BY <1>5, <1>6, <1>7, <1>8 DEF Opened
<1> QED
  BY <1>5, <1>9 DEF n

LEMMA ScriptsSet ==
    ASSUME Opened(block, ctxIndex, top[block.kind]), SetScript \/ SetScriptParser
    PROVE  Opened(block', ctxIndex', top'[block'.kind]) /\ block'.mods = block.mods
           /\ block'.kind = block.kind
<1> DEFINE s == block.script[block.depth]
<1>1. s \in Fields /\ IsGiven(s)
  <2>1. /\ block.depth \in 1 .. 4 /\ Len(block.script) = block.depth
        /\ block.script \in Seq(Fields)
        /\ \A l \in 1 .. block.depth : IsGiven(block.script[l])
    BY DEF Opened, Shape, Levels
  <2>2. block.depth \in 1 .. Len(block.script) /\ block.depth \in 1 .. block.depth
    BY <2>1
  <2> QED
    BY <2>1, <2>2
<1>2. CASE SetScript
  <2>1. /\ s.from = "unset" /\ UNCHANGED <<ctxIndex, top>>
        /\ \E t \in Texts :
              \/ block' = [block EXCEPT !.script[block.depth] = FileScript(s, t)]
              \/ block' = [block EXCEPT !.script[block.depth] = CodeScript(s, t)]
    BY <1>2 DEF SetScript
  <2>2. PICK g : g \in Fields /\ IsGiven(g) /\ block' = [block EXCEPT !.script[block.depth] = g]
    <3> HIDE DEF s
    <3> QED
      BY <1>1, <2>1, GivenIs
  <2> QED
    BY <2>1, <2>2, ScriptPut
<1>3. CASE SetScriptParser
  <2>1. /\ UNCHANGED <<ctxIndex, top>>
        /\ \E q \in Parsers : block' = [block EXCEPT !.script[block.depth] = [s EXCEPT !.parser = Find(q)]]
    BY <1>3 DEF SetScriptParser
  <2>2. PICK g : g \in Fields /\ IsGiven(g) /\ block' = [block EXCEPT !.script[block.depth] = g]
    <3> HIDE DEF s
    <3> QED
      BY <1>1, <2>1, GivenIs
  <2> QED
    BY <2>1, <2>2, ScriptPut
<1> QED
  BY <1>2, <1>3

\* The levels of an array merged from the outside: each keeps its modules, and what
\* was said last is what the innermost level comes to.
LEMMA MergedIs ==
    ASSUME NEW n \in Nat, NEW levels \in Seq([1 .. n -> Cells]), Len(levels) \in 1 .. 4
    PROVE  /\ MergedArrays(levels) \in Seq([1 .. n -> Cells])
           /\ Len(MergedArrays(levels)) = Len(levels)
           /\ \A l \in 1 .. Len(levels) : \A y \in 1 .. n :
                 MergedArrays(levels)[l][y].of = levels[l][y].of
           /\ \A y \in 1 .. n : \A said \in 0 .. 4 :
                 SaidLast(levels, y, said) => MergedArrays(levels)[Len(levels)][y].val = said
<1> DEFINE M == MergedArrays(levels)
           k == Len(levels)
           S == [1 .. n -> Cells]
<1>1. /\ levels \in Seq(S) /\ k \in 1 .. 4 /\ DOMAIN levels = 1 .. k
      /\ \A l \in 1 .. k : levels[l] \in S
  OBVIOUS
<1>2. /\ DOMAIN M = 1 .. k /\ M = [l \in 1 .. k |-> M[l]]
      /\ M[1] = levels[1]
      /\ k >= 2 => M[2] = MergeArray(M[1], levels[2])
      /\ k >= 3 => M[3] = MergeArray(M[2], levels[3])
      /\ k >= 4 => M[4] = MergeArray(M[3], levels[4])
  <2> HIDE DEF k
  <2> QED
    BY <1>1 DEF MergedArrays
<1> HIDE DEF M, k
<1>3. ASSUME NEW outer \in S, NEW a \in S
      PROVE  /\ MergeArray(outer, a) \in S
             /\ \A y \in 1 .. n : /\ MergeArray(outer, a)[y].of = a[y].of
                                  /\ MergeArray(outer, a)[y].val = IF a[y].val = 0 THEN outer[y].val ELSE a[y].val
  <2>1. MergeArray(outer, a) = [y \in 1 .. n |-> [a[y] EXCEPT !.val = IF a[y].val = 0 THEN outer[y].val ELSE a[y].val]]
    BY DEF MergeArray, Inherit
  <2>2. \A y \in 1 .. n : /\ a[y] \in Cells /\ outer[y] \in Cells
                          /\ [a[y] EXCEPT !.val = IF a[y].val = 0 THEN outer[y].val ELSE a[y].val] \in Cells
    BY DEF Cells
  <2> QED
    BY <2>1, <2>2 DEF Cells
<1> DEFINE Holds(l) ==
              /\ M[l] \in S
              /\ \A y \in 1 .. n : /\ M[l][y].of = levels[l][y].of
                                   /\ \A said \in 0 .. 4 :
                                         SaidLast(levels, y, said) /\ said <= l => M[l][y].val = said
<1>4. Holds(1)
  <2>1. ASSUME NEW y \in 1 .. n, NEW said \in 0 .. 4, SaidLast(levels, y, said), said <= 1
        PROVE  levels[1][y].val = said
    BY <1>1, <2>1 DEF SaidLast, k
  <2> QED
    BY <1>1, <1>2, <2>1
<1>5. ASSUME NEW l \in 1 .. 4, l + 1 <= k, M[l + 1] = MergeArray(M[l], levels[l + 1]), Holds(l)
      PROVE  Holds(l + 1)
  <2> DEFINE j == l + 1
  <2>0. j \in 1 .. k /\ levels[j] \in S /\ M[l] \in S /\ M[j] = MergeArray(M[l], levels[j])
    BY <1>1, <1>5
  <2>1. /\ M[j] \in S
        /\ \A y \in 1 .. n : /\ M[j][y].of = levels[j][y].of
                             /\ M[j][y].val = IF levels[j][y].val = 0 THEN M[l][y].val ELSE levels[j][y].val
    <3> HIDE DEF j, S, Holds
    <3> QED
      BY <1>3, <2>0
  <2>2. ASSUME NEW y \in 1 .. n, NEW said \in 0 .. 4, SaidLast(levels, y, said), said <= j
        PROVE  M[j][y].val = said
    <3>1. CASE said = j
      <4>1. levels[j][y].val = j /\ j # 0
        BY <1>1, <2>0, <2>2, <3>1 DEF SaidLast
      <4> QED
        BY <2>1, <3>1, <4>1
    <3>2. CASE said <= l
      <4>1. levels[j][y].val = 0
        BY <1>1, <2>0, <2>2, <3>2 DEF SaidLast, k
      <4>2. M[l][y].val = said
        BY <1>5, <2>2, <3>2
      <4> QED
        BY <2>1, <4>1, <4>2
    <3> QED
      BY <2>2, <3>1, <3>2
  <2> QED
    BY <2>1, <2>2
<1> HIDE DEF Holds
<1>6. \A l \in 1 .. k : Holds(l)
  <2>1. k >= 2 => Holds(2)
    BY <1>1, <1>2, <1>4, <1>5
  <2>2. k >= 3 => Holds(3)
    BY <1>1, <1>2, <2>1, <1>5
  <2>3. k >= 4 => Holds(4)
    BY <1>1, <1>2, <2>2, <1>5
  <2>4. \A l \in 1 .. k : l = 1 \/ (l = 2 /\ k >= 2) \/ (l = 3 /\ k >= 3) \/ (l = 4 /\ k >= 4)
    BY <1>1
  <2> QED
    BY <1>4, <2>1, <2>2, <2>3, <2>4
<1>7. M \in Seq(S) /\ Len(M) = k
  <2>1. \A l \in 1 .. k : M[l] \in S
    BY <1>6 DEF Holds
  <2> HIDE DEF S
  <2> QED
    BY <1>1, <1>2, <2>1
<1>8. \A l \in 1 .. k : \A y \in 1 .. n : M[l][y].of = levels[l][y].of
  BY <1>6 DEF Holds
<1>9. ASSUME NEW y \in 1 .. n, NEW said \in 0 .. 4, SaidLast(levels, y, said)
      PROVE  M[k][y].val = said
  <2>1. said <= k /\ k \in 1 .. k
    BY <1>1, <1>9 DEF SaidLast, k
  <2> QED
    BY <1>6, <1>9, <2>1 DEF Holds
<1> QED
  BY <1>7, <1>8, <1>9 DEF M, k, S

\* What the directives g of the levels up to l come to: the last directive that was
\* given has all of it.
LastScript(g, k, l) ==
    k \in 1 .. l /\ g[k].from # "unset" /\ \A j \in 1 .. l : j > k => g[j].from = "unset"
LastParser(g, k, l) ==
    k \in 1 .. l /\ g[k].parser # "unset" /\ \A j \in 1 .. l : j > k => g[j].parser = "unset"

CameFrom(kind, s, g, l) ==
    /\ (\A k \in 1 .. l : g[k].from = "unset") => s.path = NoPath /\ s.from \in {"unset", "file"}
    /\ kind = "http" /\ l > 1 => s.from # "unset"
    /\ \A k : LastScript(g, k, l) => s.from = g[k].from /\ s.path = g[k].path
                                     /\ (s.from = "conf" => s.code = g[k].code)
    /\ \A k : LastParser(g, k, l) => s.parser = g[k].parser

LEMMA MergeGoesOn ==
    ASSUME NEW kind, NEW s, NEW g, NEW l \in 1 .. 4, g[l + 1] \in Fields, IsGiven(g[l + 1]),
           CameFrom(kind, s, g, l)
    PROVE  CameFrom(kind, MergeScript(kind, s, g[l + 1]), g, l + 1)
<1> DEFINE d == g[l + 1]
           e == MergeScript(kind, s, d)
           j == l + 1
<1>1. /\ j \in 1 .. j /\ l \in Nat /\ j = l + 1 /\ j > 1 /\ \A k \in 1 .. j : k = j \/ k \in 1 .. l
      /\ \A k \in 1 .. l : k \in 1 .. j /\ k < j
  OBVIOUS
<1>2. /\ e.from = IF d.from # "unset" THEN d.from
                  ELSE IF s.from # "unset" THEN s.from
                  ELSE IF kind = "http" THEN "file" ELSE "unset"
      /\ e.path = IF d.path = NoPath THEN s.path ELSE d.path
      /\ e.code = IF d.code = "" THEN s.code ELSE d.code
      /\ d.parser # "unset" => e.parser = d.parser
      /\ d.parser = "unset" /\ s.parser # "unset" => e.parser = s.parser
  BY DEF MergeScript, Inherit
<1>3. /\ d.from \in {"unset", "file", "conf"}
      /\ d.from = "unset" => d.path = NoPath /\ d.code = ""
      /\ d.from # "unset" => d.path # NoPath
      /\ d.from = "conf" => d.code # ""
  BY DEF Fields, IsGiven
<1> HIDE DEF e, j
<1>4. (\A k \in 1 .. j : g[k].from = "unset") => e.path = NoPath /\ e.from \in {"unset", "file"}
  <2> SUFFICES ASSUME \A k \in 1 .. j : g[k].from = "unset"
               PROVE  e.path = NoPath /\ e.from \in {"unset", "file"}
    OBVIOUS
  <2>1. d.from = "unset" /\ s.path = NoPath /\ s.from \in {"unset", "file"}
    BY <1>1 DEF CameFrom
  <2> QED
    BY <1>2, <1>3, <2>1
<1>5. kind = "http" => e.from # "unset"
  BY <1>2
<1>6. ASSUME NEW k, LastScript(g, k, j)
      PROVE  e.from = g[k].from /\ e.path = g[k].path /\ (e.from = "conf" => e.code = g[k].code)
  <2>1. CASE k = j
    <3>1. g[k] = d /\ d.from # "unset"
      BY <1>1, <1>6, <2>1 DEF LastScript
    <3> HIDE DEF d
    <3> QED
      BY <1>2, <1>3, <3>1
  <2>2. CASE k # j
    <3>1. d.from = "unset" /\ LastScript(g, k, l) /\ g[k].from # "unset"
      BY <1>1, <1>6, <2>2 DEF LastScript
    <3>2. s.from = g[k].from /\ s.path = g[k].path /\ (s.from = "conf" => s.code = g[k].code)
      BY <3>1 DEF CameFrom
    <3> QED
      BY <1>2, <1>3, <3>1, <3>2
  <2> QED
    BY <2>1, <2>2
<1>7. ASSUME NEW k, LastParser(g, k, j) PROVE e.parser = g[k].parser
  <2>1. CASE k = j
    <3>1. g[k] = d /\ d.parser # "unset"
      BY <1>1, <1>7, <2>1 DEF LastParser
    <3> HIDE DEF d
    <3> QED
      BY <1>2, <3>1
  <2>2. CASE k # j
    <3>1. d.parser = "unset" /\ LastParser(g, k, l) /\ g[k].parser # "unset"
      BY <1>1, <1>7, <2>2 DEF LastParser
    <3>2. s.parser = g[k].parser
      BY <3>1 DEF CameFrom
    <3> QED
      BY <1>2, <3>1, <3>2
  <2> QED
    BY <2>1, <2>2
<1> QED
  BY <1>4, <1>5, <1>6, <1>7 DEF CameFrom, e, j

LEMMA ScriptsMerged ==
    ASSUME block.script \in Seq(Fields), Len(block.script) \in 1 .. 4,
           \A l \in 1 .. Len(block.script) : IsGiven(block.script[l])
    PROVE  \A l \in 1 .. Len(block.script) : CameFrom(block.kind, MergedScripts[l], block.script, l)
<1> DEFINE M == MergedScripts
           g == block.script
           k == Len(g)
           kind == block.kind
<1>1. /\ k \in 1 .. 4 /\ DOMAIN g = 1 .. k
      /\ \A l \in 1 .. k : g[l] \in Fields /\ IsGiven(g[l])
  OBVIOUS
<1>2. /\ M[1] = g[1]
      /\ k >= 2 => M[2] = MergeScript(kind, M[1], g[2])
      /\ k >= 3 => M[3] = MergeScript(kind, M[2], g[3])
      /\ k >= 4 => M[4] = MergeScript(kind, M[3], g[4])
  <2> HIDE DEF k
  <2> QED
    BY <1>1 DEF MergedScripts
<1> HIDE DEF M, g, k, kind
<1>3. CameFrom(kind, M[1], g, 1)
  <2>1. g[1] \in Fields /\ IsGiven(g[1])
    BY <1>1
  <2>2. g[1].from = "unset" => g[1].path = NoPath
    BY <2>1, Zenon DEF IsGiven
  <2>3. ASSUME NEW j, LastScript(g, j, 1) \/ LastParser(g, j, 1) PROVE j = 1
    <3>1. j \in 1 .. 1
      BY <2>3 DEF LastScript, LastParser
    <3> QED
      BY <3>1
  <2>4. (\A j \in 1 .. 1 : g[j].from = "unset") => M[1].path = NoPath /\ M[1].from \in {"unset", "file"}
    BY <1>2, <2>2
  <2>5. \A j : (LastScript(g, j, 1) \/ LastParser(g, j, 1)) => M[1] = g[j]
    BY <1>2, <2>3
  <2> QED
    BY <2>2, <2>4, <2>5 DEF CameFrom
<1> DEFINE Holds(l) == CameFrom(kind, M[l], g, l)
<1>4. ASSUME NEW l \in 1 .. 4, l + 1 <= k, M[l + 1] = MergeScript(kind, M[l], g[l + 1]), Holds(l)
      PROVE  Holds(l + 1)
  <2>1. g[l + 1] \in Fields /\ IsGiven(g[l + 1])
    BY <1>1, <1>4
  <2>2. CameFrom(kind, MergeScript(kind, M[l], g[l + 1]), g, l + 1)
    BY <1>4, <2>1, MergeGoesOn
  <2> QED
    BY <1>4, <2>2
<1>5. Holds(1)
  BY <1>3
<1> HIDE DEF Holds
<1>6. \A l \in 1 .. k : Holds(l)
  <2>1. k >= 2 => Holds(2)
    BY <1>1, <1>2, <1>4, <1>5
  <2>2. k >= 3 => Holds(3)
    BY <1>1, <1>2, <2>1, <1>4
  <2>3. k >= 4 => Holds(4)
    BY <1>1, <1>2, <2>2, <1>4
  <2>4. \A l \in 1 .. k : l = 1 \/ (l = 2 /\ k >= 2) \/ (l = 3 /\ k >= 3) \/ (l = 4 /\ k >= 4)
    BY <1>1
  <2> QED
    BY <1>5, <2>1, <2>2, <2>3, <2>4
<1> QED
  BY <1>6 DEF Holds, M, g, k, kind

\* A block that has ended, until the file has been read.
Closed(b, ix, n) ==
    /\ b.at = "closed" /\ b.kind \in Kinds /\ b.mods \subseteq ProtoMods(b.kind) /\ n \in Nat
    /\ b.conf \in [1 .. 3 -> Seq([1 .. n -> Cells])]
    /\ \A m \in b.mods :
          /\ Own(b, ix, n, m)
          /\ b.conf[ScopeOf[m]][Len(b.conf[ScopeOf[m]])][ix[m]].val = b.said[m]

LEMMA ArraysClose ==
    ASSUME CtxOK, Opened(block, ctxIndex, top[block.kind]), NEW kind, CloseBlock(kind)
    PROVE  Closed(block', ctxIndex', top'[block'.kind])
<1> DEFINE n == top[kind]
           ix == ctxIndex
           mods == block.mods
           d == block.depth
           old == block.conf
           arrays == [scope \in 1 .. 3 |-> MergedArrays(old[scope])]
<1>1. /\ block' = [block EXCEPT !.at = "closed", !.conf = arrays,
                                !.script = MergedScripts, !.given = block.script]
      /\ ctxIndex' = ix /\ top' = top /\ block.kind = kind
  BY DEF CloseBlock
<1>2. /\ Shape(block, n)
      /\ \A m \in mods : Own(block, ix, n, m) /\ SaidLast(old[ScopeOf[m]], ix[m], block.said[m])
  BY <1>1 DEF Opened
<1>3. /\ kind \in Kinds /\ mods \subseteq ProtoMods(kind) /\ n \in Nat /\ d \in 1 .. 4
      /\ old \in [1 .. 3 -> Seq([1 .. n -> Cells])] /\ block.said \in [mods -> 0 .. 4]
      /\ \A s \in 1 .. 3 : Len(old[s]) = LevelCount(s, d)
      /\ block \in [kind : Kinds, at : {"open", "closed"}, depth : Levels(kind), mods : {mods},
                    conf : [1 .. 3 -> Seq([1 .. n -> Cells])], script : Seq(Fields),
                    given : Seq(Fields), said : [mods -> 0 .. 4]]
  BY <1>1, <1>2 DEF Shape, Levels
<1> HIDE DEF n
<1>4. ASSUME NEW s \in 1 .. 3
      PROVE  /\ Len(old[s]) \in 1 .. 4
             /\ MergedArrays(old[s]) \in Seq([1 .. n -> Cells])
             /\ Len(MergedArrays(old[s])) = Len(old[s])
             /\ \A l \in 1 .. Len(old[s]) : \A y \in 1 .. n : MergedArrays(old[s])[l][y].of = old[s][l][y].of
             /\ \A y \in 1 .. n : \A said \in 0 .. 4 :
                   SaidLast(old[s], y, said) => MergedArrays(old[s])[Len(old[s])][y].val = said
  <2> DEFINE c == old[s]
  <2>0. LevelCount(s, d) \in 1 .. 4
    BY <1>3 DEF LevelCount
  <2>1. c \in Seq([1 .. n -> Cells]) /\ Len(c) \in 1 .. 4
    BY <1>3, <2>0
  <2> HIDE DEF c
  <2>2. /\ MergedArrays(c) \in Seq([1 .. n -> Cells])
        /\ Len(MergedArrays(c)) = Len(c)
        /\ \A l \in 1 .. Len(c) : \A y \in 1 .. n : MergedArrays(c)[l][y].of = c[l][y].of
        /\ \A y \in 1 .. n : \A said \in 0 .. 4 :
              SaidLast(c, y, said) => MergedArrays(c)[Len(c)][y].val = said
    BY <1>3, <2>1, MergedIs
  <2> QED
    BY <2>1, <2>2 DEF c
<1>5. /\ arrays \in [1 .. 3 -> Seq([1 .. n -> Cells])]
      /\ \A s \in 1 .. 3 : arrays[s] = MergedArrays(old[s])
  BY <1>4
<1> HIDE DEF arrays
<1>6. /\ block'.kind = kind /\ block'.at = "closed" /\ block'.mods = mods
      /\ block'.conf = arrays /\ block'.said = block.said
  BY <1>1, <1>3
<1>7. ASSUME NEW m \in mods
      PROVE  /\ Own(block', ix, n, m)
             /\ arrays[ScopeOf[m]][Len(arrays[ScopeOf[m]])][ix[m]].val = block.said[m]
  <2> DEFINE c == old[ScopeOf[m]]
             e == MergedArrays(c)
             x == ix[m]
  <2>1. /\ ScopeOf[m] \in 1 .. 3 /\ x \in 1 .. n /\ block.said[m] \in 0 .. 4
        /\ SaidLast(c, x, block.said[m])
        /\ \A l \in 1 .. Len(c) : c[l][x].of = m
    BY <1>2, <1>3, KindsOK DEF Own
  <2>2. /\ arrays[ScopeOf[m]] = e /\ Len(e) = Len(c) /\ Len(c) \in 1 .. 4
        /\ \A l \in 1 .. Len(c) : \A y \in 1 .. n : e[l][y].of = c[l][y].of
        /\ \A y \in 1 .. n : \A said \in 0 .. 4 : SaidLast(c, y, said) => e[Len(c)][y].val = said
    BY <1>4, <1>5, <2>1
  <2> HIDE DEF c, e, x
  <2>3. \A l \in 1 .. Len(e) : e[l][x].of = m
    BY <2>1, <2>2
  <2>4. e[Len(e)][x].val = block.said[m]
    BY <2>1, <2>2
  <2> QED
    BY <1>6, <2>1, <2>2, <2>3, <2>4 DEF Own, x
<1>8. Closed(block', ix, n)
  BY <1>3, <1>5, <1>6, <1>7 DEF Closed
<1> QED
  BY <1>1, <1>6, <1>8 DEF n

\* Every level ends up with the directives of one level.
LEMMA ScriptsClose ==
    ASSUME Opened(block, ctxIndex, top[block.kind]), NEW kind, CloseBlock(kind),
           kind = "http" \/ \A l \in 2 .. block.depth : MergedScripts[l].from # "unset"
    PROVE  OneDirective'
<1> DEFINE g == block.script
           M == MergedScripts
           d == block.depth
<1>1. /\ g \in Seq(Fields) /\ Len(g) = d /\ d \in 1 .. 4 /\ block.kind = kind
      /\ \A l \in 1 .. d : IsGiven(g[l])
      /\ block \in [kind : Kinds, at : {"open", "closed"}, depth : Levels(block.kind), mods : {block.mods},
                    conf : [1 .. 3 -> Seq([1 .. top[block.kind] -> Cells])], script : Seq(Fields),
                    given : Seq(Fields), said : [block.mods -> 0 .. 4]]
  BY DEF Opened, Shape, Levels, CloseBlock
<1>2. block'.script = M /\ block'.given = g /\ block'.depth = d
  BY <1>1 DEF CloseBlock
<1>3. \A l \in 1 .. d : CameFrom(kind, M[l], g, l)
  BY <1>1, ScriptsMerged
<1>4. \A l \in 2 .. d : M[l].from # "unset"
  BY <1>3 DEF CameFrom
<1> HIDE DEF M, g, d
<1> SUFFICES ASSUME NEW l \in 2 .. d
             PROVE  LET s == M[l]
                        scripts == {k \in 1 .. l : g[k].from # "unset"}
                        parsers == {k \in 1 .. l : g[k].parser # "unset"}
                    IN /\ IF scripts = {} THEN s.from = "file" /\ s.path = NoPath
                          ELSE LET given == g[Max(scripts)]
                               IN /\ s.from = given.from /\ s.path = given.path
                                  /\ s.from = "conf" => s.code = given.code
                       /\ parsers # {} => s.parser = g[Max(parsers)].parser
  BY <1>2 DEF OneDirective
<1> DEFINE s == M[l]
           scripts == {k \in 1 .. l : g[k].from # "unset"}
           parsers == {k \in 1 .. l : g[k].parser # "unset"}
<1>5. l \in Nat /\ l \in 1 .. d /\ CameFrom(kind, s, g, l) /\ s.from # "unset"
  BY <1>1, <1>3, <1>4
<1>6. scripts = {} => s.from = "file" /\ s.path = NoPath
  <2>1. scripts = {} => \A k \in 1 .. l : g[k].from = "unset"
    OBVIOUS
  <2> QED
    BY <1>5, <2>1 DEF CameFrom
<1>7. scripts # {} => LET given == g[Max(scripts)]
                      IN /\ s.from = given.from /\ s.path = given.path
                         /\ s.from = "conf" => s.code = given.code
  <2> SUFFICES ASSUME scripts # {} PROVE LastScript(g, Max(scripts), l)
    BY <1>5 DEF CameFrom
  <2>1. scripts \in SUBSET (1 .. l) /\ \A k \in 1 .. l : k \notin scripts => g[k].from = "unset"
    OBVIOUS
  <2>2. \A k \in scripts : k \in 1 .. l /\ g[k].from # "unset"
    OBVIOUS
  <2> HIDE DEF scripts
  <2>3. Max(scripts) \in scripts /\ \A j \in scripts : j <= Max(scripts)
    BY <1>5, <2>1, MaxIs
  <2> DEFINE last == Max(scripts)
  <2>4. \A j \in 1 .. l : j > last => j \notin scripts
    <3>1. last \in 1 .. l /\ l \in Nat /\ \A j \in scripts : j <= last
      BY <1>5, <2>1, <2>3
    <3> HIDE DEF last
    <3> QED
      BY <3>1
  <2> QED
    BY <2>1, <2>2, <2>3, <2>4 DEF LastScript
<1>8. parsers # {} => s.parser = g[Max(parsers)].parser
  <2> SUFFICES ASSUME parsers # {} PROVE LastParser(g, Max(parsers), l)
    BY <1>5 DEF CameFrom
  <2>1. parsers \in SUBSET (1 .. l) /\ \A k \in 1 .. l : k \notin parsers => g[k].parser = "unset"
    OBVIOUS
  <2>2. \A k \in parsers : k \in 1 .. l /\ g[k].parser # "unset"
    OBVIOUS
  <2> HIDE DEF parsers
  <2>3. Max(parsers) \in parsers /\ \A j \in parsers : j <= Max(parsers)
    BY <1>5, <2>1, MaxIs
  <2> DEFINE last == Max(parsers)
  <2>4. \A j \in 1 .. l : j > last => j \notin parsers
    <3>1. last \in 1 .. l /\ l \in Nat /\ \A j \in parsers : j <= last
      BY <1>5, <2>1, <2>3
    <3> HIDE DEF last
    <3> QED
      BY <3>1
  <2> QED
    BY <2>1, <2>2, <2>3, <2>4 DEF LastParser
<1> QED
  BY <1>6, <1>7, <1>8

-----------------------------------------------------------------------------
(* The steps of the protocol block                                          *)

BlockOK ==
    /\ phase = "idle" => block = NoBlock
    /\ \/ block = NoBlock
       \/ Opened(block, ctxIndex, top[block.kind]) /\ block.mods = InTable(block.kind)
       \/ Closed(block, ctxIndex, top[block.kind]) /\ OneDirective

\* Linked-in modules of the block in use: their numbers are given for good.
ServingOK ==
    \A m \in serving.mods \cap ToSet(Static) :
        m \in Mods \ CoreMods /\ ctxIndex[m] # 0 /\ HasOwn(serving, m)

ProtoInv == LoaderInv /\ CtxOK /\ BlockOK /\ ServingOK

LEMMA NoBlockIs == NoBlock.at = "none" /\ NoBlock.mods = {}
BY DEF NoBlock

LEMMA ProtoBegins == Init => ProtoInv
<1> SUFFICES ASSUME Init PROVE ProtoInv
  OBVIOUS
<1>1. LoaderInv
  BY LoaderBegins DEF Init
<1>2. CtxOK
  <2>1. /\ ctxIndex = [m \in Mods \ CoreMods |-> 0] /\ top = [k \in Kinds |-> 0]
    BY DEF Init
  <2>2. \A i \in 1 .. Len(Static) : Static[i] \in Mods
    BY ConstantsOK
  <2> QED
    BY <2>1, <2>2 DEF CtxOK
<1>3. BlockOK /\ ServingOK
  BY DEF Init, BlockOK, ServingOK, NoService
<1> QED
  BY <1>1, <1>2, <1>3 DEF ProtoInv

\* As long as no module is numbered, what is served stays as it is.
LEMMA NumbersKept ==
    ASSUME ProtoInv, UNCHANGED <<ctxIndex, top, serving>>
    PROVE  CtxOK' /\ ServingOK'
BY DEF ProtoInv, CtxOK, StaticNumber, ServingOK, HasOwn

LEMMA OpenedStays ==
    ASSUME ProtoInv, LoaderInv', phase = "config", phase' = "config",
           UNCHANGED <<modules, ctxIndex, top, serving>>,
           Opened(block', ctxIndex', top'[block'.kind]),
           block'.mods = block.mods, block'.kind = block.kind, block.mods = InTable(block.kind)
    PROVE  ProtoInv'
<1>1. block'.mods = (InTable(block.kind))'
  <2>1. (InTable(block.kind))' = InTable(block.kind)
    BY DEF InTable
  <2> QED
    BY <2>1
<1> QED
  BY <1>1, NumbersKept DEF ProtoInv, BlockOK

LEMMA BlockBegins ==
    ASSUME ProtoInv, LoaderInv', NEW kind \in Kinds, OpenBlock(kind)
    PROVE  ProtoInv'
<1>1. /\ LoaderTypeOK /\ StaticFirst /\ CtxOK /\ Number(kind)
      /\ phase' = phase /\ phase = "config" /\ modules' = modules /\ serving' = serving
  BY DEF ProtoInv, LoaderInv, OpenBlock, loaderVars
<1>2. /\ Opened(block', ctxIndex', top'[block'.kind])
      /\ block'.mods = InTable(block'.kind)
  BY <1>1, Begins
<1>3. BlockOK'
  <2>1. (InTable(block.kind))' = InTable(block'.kind)
    BY <1>1 DEF InTable
  <2> QED
    BY <1>1, <1>2, <2>1 DEF BlockOK
<1>4. /\ CtxOK'
      /\ \A i \in 1 .. Len(Static) :
            Static[i] \notin CoreMods /\ ctxIndex[Static[i]] # 0 => ctxIndex'[Static[i]] = ctxIndex[Static[i]]
  BY <1>1, Numbered
<1>5. ServingOK'
  <2>1. \A m \in serving.mods \cap ToSet(Static) : ctxIndex'[m] = ctxIndex[m]
    BY <1>4, ConstantsOK DEF ProtoInv, ServingOK
  <2> QED
    BY <1>1, <2>1 DEF ProtoInv, ServingOK, HasOwn, CoreMods, Mods
<1> QED
  BY <1>3, <1>4, <1>5 DEF ProtoInv

LEMMA LevelBegins ==
    ASSUME ProtoInv, LoaderInv', OpenLevel
    PROVE  ProtoInv'
<1>1. /\ phase = "config" /\ phase' = "config" /\ block.at = "open"
      /\ UNCHANGED <<modules, ctxIndex, top, serving>>
  BY DEF OpenLevel, loaderVars
<1>2. Opened(block, ctxIndex, top[block.kind]) /\ block.mods = InTable(block.kind)
  BY <1>1, NoBlockIs DEF ProtoInv, BlockOK, Closed
<1>3. Opened(block', ctxIndex', top'[block'.kind]) /\ block'.mods = block.mods
      /\ block'.kind = block.kind
  BY <1>2, LevelOpens DEF ProtoInv, LoaderInv
<1> QED
  BY <1>1, <1>2, <1>3, OpenedStays

LEMMA LineRead ==
    ASSUME ProtoInv, LoaderInv',
           SetScript \/ SetScriptParser \/ \E kind, m : PutDirective(kind, m)
    PROVE  ProtoInv'
<1>1. /\ phase = "config" /\ phase' = "config" /\ block.at = "open"
      /\ UNCHANGED <<modules, ctxIndex, top, serving>>
  BY DEF SetScript, SetScriptParser, PutDirective
<1>2. Opened(block, ctxIndex, top[block.kind]) /\ block.mods = InTable(block.kind)
  BY <1>1, NoBlockIs DEF ProtoInv, BlockOK, Closed
<1>3. Opened(block', ctxIndex', top'[block'.kind]) /\ block'.mods = block.mods
      /\ block'.kind = block.kind
  BY <1>2, ScriptsSet, Puts DEF ProtoInv
<1> QED
  BY <1>1, <1>2, <1>3, OpenedStays

LEMMA BlockEnds ==
    ASSUME ProtoInv, LoaderInv', CloseHttp \/ CloseTcp \/ CloseUdp \/ CloseUdt
    PROVE  ProtoInv'
<1>1. PICK kind : /\ CloseBlock(kind)
                  /\ kind = "http" \/ \A l \in 2 .. block.depth : MergedScripts[l].from # "unset"
  BY DEF CloseHttp, CloseTcp, CloseUdp, CloseUdt, CloseStream
<1>2. /\ phase = "config" /\ phase' = "config" /\ block.at = "open"
      /\ UNCHANGED <<ctxIndex, top, serving>>
  BY <1>1 DEF CloseBlock, loaderVars
<1>3. Opened(block, ctxIndex, top[block.kind])
  BY <1>2, NoBlockIs DEF ProtoInv, BlockOK, Closed
<1>4. Closed(block', ctxIndex', top'[block'.kind]) /\ OneDirective'
  BY <1>1, <1>3, ArraysClose, ScriptsClose DEF ProtoInv
<1>5. BlockOK'
  BY <1>2, <1>4 DEF BlockOK
<1> QED
  BY <1>2, <1>5, NumbersKept DEF ProtoInv

\* The block has ended or not begun: what the loader does between is no matter to it.
LEMMA BlockAside ==
    ASSUME ProtoInv, LoaderInv', UNCHANGED <<ctxIndex, top, serving>>, Outside,
           block' = NoBlock \/ (block' = block /\ (phase' = "config" \/ block = NoBlock))
    PROVE  ProtoInv'
<1>1. CASE block' = NoBlock
  BY <1>1, NumbersKept DEF ProtoInv, BlockOK
<1>2. CASE block' = block /\ block # NoBlock /\ phase' = "config"
  <2>1. block.at # "open"
    BY DEF Outside
  <2>2. Closed(block, ctxIndex, top[block.kind]) /\ OneDirective
    BY <1>2, <2>1 DEF ProtoInv, BlockOK, Opened
  <2>3. Closed(block', ctxIndex', top'[block'.kind]) /\ OneDirective'
    BY <1>2, <2>2, ZenonT(60) DEF OneDirective
  <2>4. BlockOK'
    BY <1>2, <2>3 DEF BlockOK
  <2> QED
    BY <2>4, NumbersKept DEF ProtoInv
<1> QED
  BY <1>1, <1>2

LEMMA FileEnds ==
    ASSUME ProtoInv, LoaderInv', ProtoConfDone
    PROVE  ProtoInv'
<1>1. /\ block.at # "open" /\ block' = NoBlock /\ UNCHANGED <<ctxIndex, top>>
      /\ serving' = [mods |-> block.mods, conf |-> OwnersOf(block.conf)]
  BY DEF ProtoConfDone, Outside
<1>2. CtxOK' /\ BlockOK'
  BY <1>1 DEF ProtoInv, CtxOK, StaticNumber, BlockOK
<1>3. ASSUME NEW m \in block.mods
      PROVE  m \in Mods \ CoreMods /\ ctxIndex[m] # 0
             /\ \A l \in DOMAIN serving'.conf[ScopeOf[m]] :
                   /\ ctxIndex[m] \in DOMAIN serving'.conf[ScopeOf[m]][l]
                   /\ serving'.conf[ScopeOf[m]][l][ctxIndex[m]].of = m
  <2> DEFINE n == top[block.kind]
             c == block.conf
             s == ScopeOf[m]
             x == ctxIndex[m]
  <2>1. Closed(block, ctxIndex, n)
    BY <1>1, <1>3, NoBlockIs DEF ProtoInv, BlockOK, Opened
  <2>2. /\ m \in Mods \ CoreMods /\ s \in 1 .. 3
        /\ c \in [1 .. 3 -> Seq([1 .. n -> Cells])] /\ n \in Nat
        /\ x \in 1 .. n /\ \A l \in 1 .. Len(c[s]) : c[s][l][x].of = m
    BY <2>1, KindsOK DEF Closed, Own
  <2>3. serving'.conf = OwnersOf(c)
    BY <1>1
  <2> HIDE DEF n, c, s, x
  <2>4. OwnersOf(c)[s] = [l \in 1 .. Len(c[s]) |-> [i \in DOMAIN c[s][l] |-> [of |-> c[s][l][i].of, val |-> 0]]]
    <3>1. DOMAIN c = 1 .. 3 /\ s \in DOMAIN c /\ DOMAIN c[s] = 1 .. Len(c[s])
      BY <2>2
    <3> QED
      BY <3>1 DEF OwnersOf
  <2>5. \A l \in 1 .. Len(c[s]) : DOMAIN c[s][l] = 1 .. n
    BY <2>2
  <2>6. \A l \in DOMAIN OwnersOf(c)[s] : x \in DOMAIN OwnersOf(c)[s][l] /\ OwnersOf(c)[s][l][x].of = m
    <3>1. DOMAIN OwnersOf(c)[s] = 1 .. Len(c[s])
      BY <2>4
    <3> SUFFICES ASSUME NEW l \in 1 .. Len(c[s])
                 PROVE  x \in DOMAIN OwnersOf(c)[s][l] /\ OwnersOf(c)[s][l][x].of = m
      BY <3>1
    <3>2. OwnersOf(c)[s][l] = [i \in 1 .. n |-> [of |-> c[s][l][i].of, val |-> 0]]
      BY <2>4, <2>5
    <3>3. x \in 1 .. n /\ c[s][l][x].of = m
      BY <2>2
    <3> QED
      BY <3>2, <3>3
  <2>7. x # 0
    BY <2>2
  <2> QED
    BY <2>2, <2>3, <2>6, <2>7 DEF s, x
<1>4. ServingOK'
  <2>1. serving'.mods = block.mods
    BY <1>1
  <2> QED
    BY <1>1, <1>3, <2>1 DEF ServingOK, HasOwn, CoreMods, Mods
<1> QED
  BY <1>2, <1>4 DEF ProtoInv

LEMMA ProtoGoesOn == ProtoInv /\ [Next]_vars => ProtoInv'
<1> SUFFICES ASSUME ProtoInv, [Next]_vars PROVE ProtoInv'
  OBVIOUS
<1>0. LoaderInv'
  BY LoaderGoesOn DEF ProtoInv
<1>1. CASE CreateConf /\ UNCHANGED protoVars
  <2>1. block = NoBlock
    BY <1>1 DEF CreateConf, ProtoInv, BlockOK
  <2> QED
    BY <1>0, <1>1, <2>1, BlockAside, NoBlockIs DEF protoVars, Outside
<1>2. CASE ProtoLine
  <2>1. phase = "config" /\ phase' \in {"idle", "config"}
    BY <1>0, <1>2 DEF ProtoLine, LoaderLine, LoadModule, LoadModuleFails, LoadModuleLimit, SetDirective,
                      LoaderInv, LoaderTypeOK
  <2> QED
    BY <1>0, <1>2, <2>1, BlockAside DEF ProtoLine
<1>3. CASE OpenHttp \/ OpenTcp \/ OpenUdp \/ OpenUdt
  BY <1>0, <1>3, BlockBegins DEF OpenHttp, OpenTcp, OpenUdp, OpenUdt, Kinds
<1>4. CASE OpenLevel
  BY <1>0, <1>4, LevelBegins
<1>5. CASE CloseHttp \/ CloseTcp \/ CloseUdp \/ CloseUdt
  BY <1>0, <1>5, BlockEnds
<1>6. CASE \E m \in Mods \ CoreMods :
              HttpDirective(m) \/ TcpDirective(m) \/ UdpDirective(m) \/ UdtDirective(m)
  BY <1>0, <1>6, LineRead DEF HttpDirective, TcpDirective, UdpDirective, UdtDirective
<1>7. CASE SetScript \/ SetScriptParser
  BY <1>0, <1>7, LineRead
<1>8. CASE ConfFails /\ block' = NoBlock /\ UNCHANGED <<ctxIndex, top, serving>>
  BY <1>0, <1>8, NumbersKept DEF ProtoInv, BlockOK
<1>9. CASE ProtoConfDone
  BY <1>0, <1>9, FileEnds
<1>10. CASE UNCHANGED vars
  <2>1. UNCHANGED <<ctxIndex, top, serving, block, phase, modules>>
    BY <1>10 DEF vars, protoVars, loaderVars
  <2>2. BlockOK'
    BY <2>1, ZenonT(60) DEF ProtoInv, BlockOK, InTable, OneDirective
  <2> QED
    BY <1>0, <2>1, <2>2, NumbersKept DEF ProtoInv
<1> QED
  BY <1>1, <1>2, <1>3, <1>4, <1>5, <1>6, <1>7, <1>8, <1>9, <1>10 DEF Next

LEMMA ProtoSound == Spec => []ProtoInv
BY ProtoBegins, ProtoGoesOn, PTL DEF Spec

\* A protocol module that was in the table when its block began finds its own
\* configuration at ctx_index at every level; and whatever reloads fail after, so
\* does every linked-in module in the block that is served.
THEOREM OwnBlockConfHolds == Spec => []OwnBlockConf
<1>1. ProtoInv => OwnBlockConf
  <2> SUFFICES ASSUME ProtoInv PROVE OwnBlockConf
    OBVIOUS
  <2>1. ASSUME NEW m \in block.mods PROVE HasOwn(block, m)
    <3> DEFINE n == top[block.kind]
               c == block.conf[ScopeOf[m]]
    <3>1. /\ Own(block, ctxIndex, n, m) /\ n \in Nat
          /\ block.conf \in [1 .. 3 -> Seq([1 .. n -> Cells])]
          /\ block.kind \in Kinds /\ block.mods \subseteq ProtoMods(block.kind)
      BY <2>1, NoBlockIs DEF ProtoInv, BlockOK, Opened, Shape, Closed
    <3>2. c \in Seq([1 .. n -> Cells])
      BY <2>1, <3>1, KindsOK
    <3>3. \A l \in 1 .. Len(c) : c[l] \in [1 .. n -> Cells] /\ c[l][ctxIndex[m]].of = m
      <4>1. \A l \in 1 .. Len(c) : c[l][ctxIndex[m]].of = m
        BY <3>1 DEF Own
      <4> HIDE DEF c, n
      <4>2. \A l \in 1 .. Len(c) : c[l] \in [1 .. n -> Cells]
        BY <3>2
      <4> QED
        BY <4>1, <4>2
    <3>4. DOMAIN c = 1 .. Len(c) /\ ctxIndex[m] \in 1 .. n
      BY <3>1, <3>2 DEF Own
    <3> HIDE DEF c, n
    <3>5. \A l \in DOMAIN c : ctxIndex[m] \in DOMAIN c[l] /\ c[l][ctxIndex[m]].of = m
      BY <3>3, <3>4
    <3> QED
      BY <3>5 DEF HasOwn, c
  <2>2. \A m \in serving.mods \cap ToSet(Static) : HasOwn(serving, m)
    BY DEF ProtoInv, ServingOK
  <2> QED
    BY <2>1, <2>2 DEF OwnBlockConf
<1> QED
  BY <1>1, ProtoSound, PTL

\* The merge of the levels gives every module what the innermost of its directives
\* said: ngx_conf_merge_..._value from the outside.
THEOREM InnermostAlwaysWins == Spec => []InnermostWins
<1>1. ProtoInv => InnermostWins
  <2> SUFFICES ASSUME ProtoInv, block.at = "closed" PROVE InnermostWins
    BY DEF InnermostWins
  <2>1. Closed(block, ctxIndex, top[block.kind])
    BY NoBlockIs DEF ProtoInv, BlockOK, Opened
  <2> QED
    BY <2>1 DEF Closed, InnermostWins
<1> QED
  BY <1>1, ProtoSound, PTL

\* The origin, the path and the code of a script come from one directive, the
\* innermost, although every field is merged by itself.
THEOREM OneDirectiveHolds == Spec => []OneDirective
<1>1. ProtoInv => OneDirective
  BY NoBlockIs DEF ProtoInv, BlockOK, Opened, OneDirective
<1> QED
  BY <1>1, ProtoSound, PTL

=============================================================================
