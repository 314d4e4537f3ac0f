---------------------------- MODULE FuncCache_inv ----------------------------
(* The inductive invariant of FuncCache, and that looking a function up,      *)
(* rebuilding it and entering it preserve it, for every set of functions,     *)
(* call variants and structs and every bound.  The safety properties are not  *)
(* inductive on their own: that a busy struct keeps its tree rests on         *)
(* use_count being the number of calls, and that compiled code is of the      *)
(* right version and tree rests on what the entries of the two caches may     *)
(* look like.                                                                 *)
EXTENDS FuncCache, FiniteSetTheorems, TLAPS

(* The calls running on the struct s.                                        *)
On(s) == {i \in DOMAIN calls : calls[i].func = s}

(* The table of parsed functions names structs of the right key.             *)
TableKeys ==
  \A k \in Key : cfunc_hashtable[k] # NoStruct => function[cfunc_hashtable[k]].key = k

(* A struct is no newer than the row of its function, and rows are no newer   *)
(* than the last version written.                                             *)
VersionsBounded ==
  /\ \A f \in Fn : proc[f] <= next_version /\ saved[f] <= next_version
  /\ \A s \in Struct : function[s].key # NoKey /\ function[s].key[1] \notin reverted
                         => function[s].fn_xmin <= proc[function[s].key[1]]

(* An entry of compiled code belongs to a struct of its function, and its     *)
(* code is of the entry's version.                                            *)
EntriesConsistent ==
  \A f \in Fn : upl_cache_htab[f] # NoEntry =>
    LET entry == upl_cache_htab[f]
    IN  /\ function[entry.lang_func].key # NoKey
        /\ function[entry.lang_func].key[1] = f
        /\ entry.jit_func.version = entry.fn_xmin
        /\ entry.jit_func.func = entry.lang_func

(* Unless a version came back, an entry is no newer than its struct, and one  *)
(* of the struct's version embeds the struct's tree.                          *)
EntriesLive ==
  \A f \in Fn \ reverted : upl_cache_htab[f] # NoEntry =>
    LET entry == upl_cache_htab[f]
        func  == function[entry.lang_func]
    IN  /\ entry.fn_xmin <= func.fn_xmin
        /\ entry.fn_xmin = func.fn_xmin => entry.jit_func.tree = func.tree

(* A call runs on a struct of its function, and unless a version came back    *)
(* its code embeds the tree the struct had when the call was made.            *)
CallsConsistent ==
  \A i \in DOMAIN calls :
    /\ function[calls[i].func].key # NoKey
    /\ calls[i].code.func = calls[i].func
    /\ calls[i].fn \notin reverted => calls[i].code.tree = calls[i].tree

(* The table is cfunc_hashtable with entries removed and perhaps s under k.   *)
TableOnlyGains(k, s, table) ==
  \A j \in Key : table[j] = NoStruct \/ table[j] = cfunc_hashtable[j] \/ (j = k /\ table[j] = s)

(* The entry was made for struct s at version v, from the given tree.         *)
MadeFor(new, s, v, tree) ==
  /\ new \in Entry
  /\ new.lang_func = s /\ new.fn_xmin = v
  /\ new.jit_func.version = v /\ new.jit_func.func = s /\ new.jit_func.tree = tree

(* The cache of compiled code changes at f only: the entry goes, or is new.   *)
HtabChanges(f, new) ==
  /\ upl_cache_htab' \in [Fn -> Entry \union {NoEntry}]
  /\ \A g \in Fn : \/ upl_cache_htab'[g] = upl_cache_htab[g]
                   \/ g = f /\ upl_cache_htab'[g] \in {NoEntry, new}

IInv ==
  /\ TypeOK
  /\ TableKeys
  /\ VersionsBounded
  /\ EntriesConsistent
  /\ EntriesLive
  /\ CallsConsistent
  /\ UseCountsMatchCalls
  /\ BusyFunctionsKeepTheirTree
  /\ RunsVisibleVersion

----------------------------------------------------------------------------
USE DEF Version, Key

(* What uplpgsql_compile found, if anything, is a struct of the key that is    *)
(* not both outdated and busy.                                                *)
LEMMA FoundStruct ==
  ASSUME IInv, NEW k \in Key, NEW fn_extra \in FnExtra(k)
  PROVE  /\ Found(k, fn_extra) \in Struct \union {NoStruct}
         /\ Found(k, fn_extra) # NoStruct => function[Found(k, fn_extra)].key = k
         /\ ~LeftAlone(k, Found(k, fn_extra))
         /\ LeftStructs(k, fn_extra) \subseteq Struct
         /\ \A t \in LeftStructs(k, fn_extra) : LeftAlone(k, t)
<1> DEFINE first == FirstFound(k, fn_extra)
<1> DEFINE table == TableAfterFirst(k, fn_extra)
<1> DEFINE second == SecondFound(k, fn_extra)
<1>1. /\ first \in Struct \union {NoStruct}
      /\ first # NoStruct => function[first].key = k
  BY DEF FirstFound, FnExtra, IInv, TypeOK, TableKeys
<1>2. \A j \in Key : table[j] = NoStruct \/ table[j] = cfunc_hashtable[j]
  BY <1>1 DEF TableAfterFirst, Unhash, IInv, TypeOK
<1>3. /\ second \in Struct \union {NoStruct}
      /\ second # NoStruct => function[second].key = k
  BY <1>1, <1>2 DEF SecondFound, IInv, TypeOK, TableKeys
<1>4. ~LeftAlone(k, NoStruct)
  BY DEF LeftAlone, Outdated
<1>5. LeftStructs(k, fn_extra) \subseteq Struct
  BY <1>1, <1>3, <1>4 DEF LeftStructs
<1> QED
  BY <1>1, <1>3, <1>4, <1>5 DEF Found, LeftStructs

(* The calls running on a struct are a finite set.                            *)
LEMMA OnFinite ==
  ASSUME TypeOK, NEW s
  PROVE  IsFiniteSet(On(s)) /\ On(s) \subseteq 1..Len(calls)
<1>1. On(s) \subseteq 1..Len(calls)
  BY DEF On, TypeOK
<1>2. IsFiniteSet(1..Len(calls))
  BY FS_Interval DEF TypeOK
<1> QED BY <1>1, <1>2, FS_Subset

(* Every call on a struct counts in its use_count: a struct whose use_count is *)
(* zero, and one that was never filled, has no call running on it.            *)
LEMMA IdleStruct ==
  ASSUME IInv, NEW s \in Struct, function[s].use_count = 0 \/ function[s].key = NoKey
  PROVE  /\ On(s) = {}
         /\ function[s].use_count = 0
<1>1. IsFiniteSet(On(s))
  BY OnFinite DEF IInv
<1>2. function[s].use_count = Cardinality(On(s))
  BY DEF On, IInv, UseCountsMatchCalls
<1>3. CASE function[s].use_count = 0
  BY <1>1, <1>2, <1>3, FS_EmptySet, Zenon
<1>4. CASE function[s].key = NoKey
  <2>1. On(s) = {}
    BY <1>4 DEF On, IInv, CallsConsistent
  <2> QED BY <2>1, <1>2, FS_EmptySet
<1> QED BY <1>3, <1>4

(* What uplpgsql_compile does: the struct it returns is of the visible         *)
(* version, and either it is untouched or no call was running on it and it    *)
(* has a new tree.                                                            *)
CompileResult(k, fn_extra, s) ==
  /\ s \in Struct
  /\ Compiled(k, fn_extra, s) \in Function
  /\ Compiled(k, fn_extra, s).key = k
  /\ Compiled(k, fn_extra, s).fn_xmin = proc[k[1]]
  /\ Compiled(k, fn_extra, s).use_count = function[s].use_count
  /\ function[s].key \in {k, NoKey}
  /\ Compiled(k, fn_extra, s) # function[s] =>
       /\ On(s) = {}
       /\ function[s].fn_xmin # proc[k[1]] \/ function[s].key = NoKey
  /\ TableAfterCompile(k, fn_extra, s) \in [Key -> Struct \union {NoStruct}]
  /\ HashkeyAfterCompile(k, fn_extra, s) \subseteq Struct
  /\ TableOnlyGains(k, s, TableAfterCompile(k, fn_extra, s))

(* uplpgsql_compile does just that.                                           *)
LEMMA CompileEffect ==
  ASSUME IInv, NEW k \in Key, NEW fn_extra \in FnExtra(k),
         NEW s \in CompiledInto(k, fn_extra)
  PROVE  CompileResult(k, fn_extra, s)
<1> DEFINE func == Compiled(k, fn_extra, s)
<1> USE StructAssumption, NoneAssumption
<1>1. /\ s \in Struct
      /\ function[s].key \in {k, NoKey}
      /\ Found(k, fn_extra) = s \/ function[s].key = NoKey
  BY FoundStruct DEF CompiledInto
<1>2. /\ TableAfterSecond(k, fn_extra) \in [Key -> Struct \union {NoStruct}]
      /\ \A j \in Key : TableAfterSecond(k, fn_extra)[j] \in {NoStruct, cfunc_hashtable[j]}
  BY Zenon DEF TableAfterSecond, TableAfterFirst, Unhash, IInv, TypeOK
<1>3. /\ TableAfterCompile(k, fn_extra, s) \in [Key -> Struct \union {NoStruct}]
      /\ TableOnlyGains(k, s, TableAfterCompile(k, fn_extra, s))
  BY <1>1, <1>2 DEF TableAfterCompile, Unhash, TableOnlyGains
<1>4. HashkeyAfterCompile(k, fn_extra, s) \subseteq Struct
  BY <1>1 DEF HashkeyAfterCompile, IInv, TypeOK
<1>5. CASE Kept(k, fn_extra, s)
  <2>1. func = function[s]
    BY <1>5 DEF Compiled
  <2>2. function[s].key = k /\ function[s].fn_xmin = proc[k[1]]
    BY <1>1, <1>5, FoundStruct DEF Current, Kept
  <2> QED BY <1>1, <1>3, <1>4, <2>1, <2>2 DEF CompileResult, IInv, TypeOK
<1>6. CASE ~Kept(k, fn_extra, s)
  <2>1. func = Rebuilt(k, s)
    BY <1>6 DEF Compiled
  <2>2. \/ function[s].use_count = 0 /\ function[s].fn_xmin # proc[k[1]]
        \/ function[s].key = NoKey
    BY <1>1, <1>6, FoundStruct DEF LeftAlone, Outdated, Current, Busy, Kept
  <2>3. On(s) = {} /\ function[s].use_count = 0
    BY <1>1, <2>2, IdleStruct
  <2>4. func \in Function
    BY <1>1, <2>1 DEF Rebuilt, IInv, TypeOK, Function
  <2>5. /\ func.key = k
        /\ func.fn_xmin = proc[k[1]]
        /\ func.use_count = 0
    BY <2>1 DEF Rebuilt
  <2> QED BY <1>1, <1>3, <1>4, <2>2, <2>3, <2>4, <2>5 DEF CompileResult
<1> QED BY <1>5, <1>6

----------------------------------------------------------------------------
(* The structs of a call, all but the counting: what uplpgsql_compile and the  *)
(* cache of compiled code leave behind keeps the caches consistent.  g is the  *)
(* new content of the struct s; the cache of compiled code may have lost its   *)
(* entry for the function, or have got the entry new.                          *)
LEMMA CachesConsistent ==
  ASSUME IInv, NEW k \in Key, NEW fn_extra \in FnExtra(k),
         NEW s \in CompiledInto(k, fn_extra), NEW g \in Function,
         g.key = k, g.fn_xmin = proc[k[1]], g.tree = Compiled(k, fn_extra, s).tree,
         function' = [function EXCEPT ![s] = g],
         cfunc_hashtable' = TableAfterCompile(k, fn_extra, s),
         NEW new, MadeFor(new, s, proc[k[1]], g.tree), HtabChanges(k[1], new),
         UNCHANGED <<proc, saved, next_version, reverted>>
  PROVE  TableKeys' /\ VersionsBounded' /\ EntriesConsistent' /\ EntriesLive'
<1> USE StructAssumption, NoneAssumption
<1>1. /\ s \in Struct
      /\ function[s].key \in {k, NoKey}
      /\ TableOnlyGains(k, s, cfunc_hashtable')
      /\ cfunc_hashtable' \in [Key -> Struct \union {NoStruct}]
      /\ \/ g.tree = function[s].tree /\ g.fn_xmin = function[s].fn_xmin
         \/ function[s].fn_xmin # proc[k[1]] \/ function[s].key = NoKey
  <2> DEFINE func == Compiled(k, fn_extra, s)
  <2>0. CompileResult(k, fn_extra, s)
    BY CompileEffect, Zenon
  <2>1. s \in Struct /\ function[s].key \in {k, NoKey}
    BY <2>0 DEF CompileResult
  <2>2. TableOnlyGains(k, s, TableAfterCompile(k, fn_extra, s))
    BY <2>0 DEF CompileResult
  <2>3. TableAfterCompile(k, fn_extra, s) \in [Key -> Struct \union {NoStruct}]
    BY <2>0 DEF CompileResult
  <2>4. func.fn_xmin = proc[k[1]]
    BY <2>0 DEF CompileResult
  <2>5. func # function[s] => function[s].fn_xmin # proc[k[1]] \/ function[s].key = NoKey
    BY <2>0 DEF CompileResult
  <2>6. TableOnlyGains(k, s, cfunc_hashtable')
    BY <2>2 DEF TableOnlyGains
  <2> QED BY <2>1, <2>3, <2>4, <2>5, <2>6
<1>2. /\ function'[s] = g
      /\ \A t \in Struct \ {s} : function'[t] = function[t]
  BY <1>1 DEF IInv, TypeOK
<1>3. k[1] \in Fn /\ k # NoKey /\ proc[k[1]] \in Version
  BY DEF IInv, TypeOK
<1>4. TableKeys'
  <2> SUFFICES ASSUME NEW j \in Key, cfunc_hashtable'[j] # NoStruct
               PROVE  function'[cfunc_hashtable'[j]].key = j
    BY DEF TableKeys
  <2>1. CASE cfunc_hashtable'[j] = s /\ j = k
    BY <2>1, <1>2
  <2>2. CASE cfunc_hashtable'[j] = cfunc_hashtable[j]
    <3>1. function[cfunc_hashtable[j]].key = j /\ cfunc_hashtable[j] \in Struct
      BY <2>2 DEF IInv, TypeOK, TableKeys
    <3>2. CASE cfunc_hashtable[j] = s
      BY <3>1, <3>2, <2>2, <1>1, <1>2
    <3>3. CASE cfunc_hashtable[j] # s
      BY <3>1, <3>3, <2>2, <1>2
    <3> QED BY <3>2, <3>3
  <2> QED BY <2>1, <2>2, <1>1 DEF TableOnlyGains
<1>5. VersionsBounded'
  <2>1. \A f \in Fn : proc'[f] <= next_version' /\ saved'[f] <= next_version'
    BY DEF IInv, VersionsBounded
  <2>2. ASSUME NEW t \in Struct, function'[t].key # NoKey, function'[t].key[1] \notin reverted
        PROVE  function'[t].fn_xmin <= proc[function'[t].key[1]]
    <3>1. CASE t = s
      BY <3>1, <1>2, <1>3
    <3>2. CASE t # s
      BY <3>2, <2>2, <1>2, SMTT(30) DEF IInv, VersionsBounded
    <3> QED BY <3>1, <3>2
  <2> QED BY <2>1, <2>2 DEF VersionsBounded
<1>6. ASSUME NEW f \in Fn, upl_cache_htab'[f] # NoEntry
      PROVE  LET entry == upl_cache_htab'[f]
             IN  /\ function'[entry.lang_func].key # NoKey
                 /\ function'[entry.lang_func].key[1] = f
                 /\ entry.jit_func.version = entry.fn_xmin
                 /\ entry.jit_func.func = entry.lang_func
                 /\ f \notin reverted =>
                      /\ entry.fn_xmin <= function'[entry.lang_func].fn_xmin
                      /\ entry.fn_xmin = function'[entry.lang_func].fn_xmin
                           => entry.jit_func.tree = function'[entry.lang_func].tree
  <2> DEFINE entry == upl_cache_htab'[f]
  <2>0. entry \in Entry /\ (entry = upl_cache_htab[f] \/ (f = k[1] /\ entry = new))
    BY <1>6 DEF HtabChanges
  <2>1. CASE f = k[1] /\ entry = new
    BY <2>1, <1>2, <1>3, SMTT(30) DEF MadeFor
  <2>2. CASE entry = upl_cache_htab[f]
    <3>1. /\ function[entry.lang_func].key # NoKey
          /\ function[entry.lang_func].key[1] = f
          /\ entry.jit_func.version = entry.fn_xmin
          /\ entry.jit_func.func = entry.lang_func
          /\ entry.lang_func \in Struct
          /\ entry.fn_xmin \in Version
      BY <2>0, <2>2, <1>6 DEF IInv, EntriesConsistent, Entry
    <3>2. f \notin reverted =>
             /\ entry.fn_xmin <= function[entry.lang_func].fn_xmin
             /\ entry.fn_xmin = function[entry.lang_func].fn_xmin
                  => entry.jit_func.tree = function[entry.lang_func].tree
      BY <2>2, <1>6, SMTT(30) DEF IInv, EntriesLive
    <3>3. CASE entry.lang_func # s
      BY <3>1, <3>2, <3>3, <1>2, SMTT(30)
    <3>4. CASE entry.lang_func = s
      <4>1. function[s].key = k /\ k[1] = f
        BY <3>1, <3>4, <1>1
      <4>2. f \notin reverted => function[s].fn_xmin <= proc[f]
        BY <4>1, <1>1, <1>3 DEF IInv, VersionsBounded
      <4>3. function[s].fn_xmin \in Nat /\ proc[f] \in Nat /\ entry.fn_xmin \in Nat
        <5>1. \A v \in Version \union {0} : v \in Nat
          BY BoundAssumption
        <5>2. function[s].fn_xmin \in Version \union {0}
          BY <1>1 DEF IInv, TypeOK, Function
        <5>3. proc[f] \in Version
          BY DEF IInv, TypeOK
        <5> QED BY <5>1, <5>2, <5>3, <3>1
      <4> QED BY <3>1, <3>2, <3>4, <4>1, <4>2, <4>3, <1>1, <1>2, <1>3
    <3> QED BY <3>3, <3>4
  <2> QED BY <2>0, <2>1, <2>2
<1>7. EntriesConsistent' /\ EntriesLive'
  BY <1>6 DEF EntriesConsistent, EntriesLive
<1> QED BY <1>4, <1>5, <1>7

(* The stack of calls with one call more.                                     *)
Pushed(r, q, a) ==
  /\ \A i : i \in DOMAIN r <=> (i \in DOMAIN q \/ i = Len(q) + 1)
  /\ \A i \in DOMAIN q : r[i] = q[i]
  /\ r[Len(q) + 1] = a

(* The handler's frame is pushed on the C stack: the calls below keep theirs. *)
LEMMA AppendFacts ==
  ASSUME NEW S, NEW q \in Seq(S), NEW a \in S, NEW r, r = Append(q, a)
  PROVE  /\ r \in Seq(S)
         /\ Len(q) \in Nat
         /\ Pushed(r, q, a)
  BY DEF Pushed

(* uplpgsql_call_handler up to the execution preserves the invariant, when    *)
(* the code that will run is of the visible version and, unless a version     *)
(* came back, embeds the tree of the struct.                                  *)
LEMMA EnterStep ==
  ASSUME IInv, NEW k \in Key, NEW fn_extra \in FnExtra(k),
         NEW s \in CompiledInto(k, fn_extra), NEW code \in Code,
         EnterFunction(k, fn_extra, s, code),
         code.version = proc[k[1]], code.func = s,
         k[1] \notin reverted => code.tree = Compiled(k, fn_extra, s).tree,
         NEW new, MadeFor(new, s, proc[k[1]], Compiled(k, fn_extra, s).tree),
         HtabChanges(k[1], new)
  PROVE  IInv'
<1> DEFINE func == Compiled(k, fn_extra, s)
<1> DEFINE g == MarkedBusy(func, func.use_count + 1, Len(calls) + 1)
<1> DEFINE act == [func |-> s, fn |-> k[1], version |-> proc[k[1]], tree |-> func.tree,
                   code |-> code, save_cur_estate |-> func.cur_estate]
<1>0. CompileResult(k, fn_extra, s)
  BY CompileEffect, Zenon
<1>1. s \in Struct /\ func \in Function
  BY <1>0 DEF CompileResult
<1>2. func.key = k /\ func.fn_xmin = proc[k[1]] /\ func.use_count = function[s].use_count
  BY <1>0 DEF CompileResult
<1>3. func # function[s] => On(s) = {}
  BY <1>0 DEF CompileResult
<1>4. cfunc_hashtable' \in [Key -> Struct \union {NoStruct}] /\ fn_hashkey' \subseteq Struct
  BY <1>0 DEF CompileResult, EnterFunction
<1>5. /\ g \in Function
      /\ g.key = func.key /\ g.fn_xmin = func.fn_xmin /\ g.tree = func.tree
      /\ g.use_count = func.use_count + 1
  BY <1>1, SMTT(30) DEF Function, IInv, TypeOK, MarkedBusy
<1>6. /\ function' = [function EXCEPT ![s] = g]
      /\ cfunc_hashtable' = TableAfterCompile(k, fn_extra, s)
      /\ calls' = Append(calls, act)
      /\ UNCHANGED <<proc, saved, next_version, reverted>>
  BY DEF EnterFunction
<1>7. act \in Activation /\ k[1] \in Fn
  BY <1>1 DEF Activation, Function, IInv, TypeOK
<1> HIDE DEF func, g, act
<1>8. TableKeys' /\ VersionsBounded' /\ EntriesConsistent' /\ EntriesLive'
  <2>1. g \in Function /\ g.key = k /\ g.fn_xmin = proc[k[1]]
    BY <1>2, <1>5, Zenon
  <2>2. g.tree = Compiled(k, fn_extra, s).tree /\ MadeFor(new, s, proc[k[1]], g.tree)
    BY <1>5, Zenon DEF func
  <2> QED BY <2>1, <2>2, <1>6, CachesConsistent, Zenon
<1>9. /\ function'[s] = g
      /\ \A t \in Struct \ {s} : function'[t] = function[t]
      /\ function' \in [Struct -> Function]
  <2>1. function \in [Struct -> Function]
    BY DEF IInv, TypeOK
  <2>2. g \in Function /\ s \in Struct /\ function' = [function EXCEPT ![s] = g]
    BY <1>1, <1>5, <1>6, Zenon
  <2> QED BY <2>1, <2>2
<1>10. /\ calls' \in Seq(Activation)
       /\ \A i : i \in DOMAIN calls' <=> (i \in DOMAIN calls \/ i = Len(calls) + 1)
       /\ \A i \in DOMAIN calls : calls'[i] = calls[i]
       /\ calls'[Len(calls) + 1] = act
       /\ Len(calls) \in Nat
  <2>1. calls \in Seq(Activation)
    BY DEF IInv, TypeOK
  <2>2. act \in Activation /\ calls' = Append(calls, act)
    BY <1>6, <1>7, Zenon
  <2>3. calls' \in Seq(Activation) /\ Len(calls) \in Nat /\ Pushed(calls', calls, act)
    BY <2>1, <2>2, AppendFacts, Zenon
  <2> QED BY <2>3, Zenon DEF Pushed
<1>11. TypeOK'
  <2>1. /\ proc' \in [Fn -> Version] /\ saved' \in [Fn -> Version]
        /\ next_version' \in Version /\ reverted' \in SUBSET Fn
    BY <1>6 DEF IInv, TypeOK
  <2>2. upl_cache_htab' \in [Fn -> Entry \union {NoEntry}]
    BY DEF HtabChanges
  <2>3. fn_hashkey' \in SUBSET Struct
    BY <1>4
  <2> QED BY <2>1, <2>2, <2>3, <1>4, <1>9, <1>10, Zenon DEF TypeOK
<1>12. act.func = s /\ act.fn = k[1] /\ act.tree = func.tree /\ act.code = code
       /\ act.version = proc[k[1]]
  BY DEF act
<1>13. \A i \in DOMAIN calls : calls[i].func \in Struct
  <2>1. \A i \in DOMAIN calls : calls[i] \in Activation
    BY DEF IInv, TypeOK
  <2> QED BY <2>1 DEF Activation
<1>14. \A i \in DOMAIN calls' : i \in DOMAIN calls \/ i = Len(calls) + 1
  BY <1>10, Zenon
<1>15. \A i \in DOMAIN calls : calls[i].func = s => i \in On(s)
  BY DEF On
<1>16. CallsConsistent'
  <2> SUFFICES ASSUME NEW i \in DOMAIN calls'
               PROVE  /\ function'[calls'[i].func].key # NoKey
                      /\ calls'[i].code.func = calls'[i].func
                      /\ calls'[i].fn \notin reverted' => calls'[i].code.tree = calls'[i].tree
    BY DEF CallsConsistent
  <2>1. CASE i = Len(calls) + 1
    <3>1. k # NoKey
      BY NoneAssumption
    <3>2. k[1] \notin reverted => code.tree = func.tree
      BY DEF func
    <3>3. calls'[i] = act /\ reverted' = reverted
      BY <2>1, <1>6, <1>10, Zenon
    <3>4. function'[s].key # NoKey
      BY <3>1, <1>2, <1>5, <1>9, Zenon
    <3> QED BY <3>2, <3>3, <3>4, <1>12, Zenon
  <2>2. CASE i \in DOMAIN calls
    <3>1. /\ function[calls[i].func].key # NoKey
          /\ calls[i].code.func = calls[i].func
          /\ calls[i].fn \notin reverted => calls[i].code.tree = calls[i].tree
      BY <2>2, SMTT(30) DEF IInv, CallsConsistent
    <3>2. function'[calls[i].func].key # NoKey
      <4>1. k # NoKey
        BY NoneAssumption
      <4>2. CASE calls[i].func = s
        BY <4>1, <4>2, <1>2, <1>5, <1>9, Zenon
      <4>3. CASE calls[i].func # s
        BY <2>2, <3>1, <4>3, <1>9, <1>13
      <4> QED BY <4>2, <4>3
    <3>3. calls'[i] = calls[i] /\ reverted' = reverted
      BY <2>2, <1>6, <1>10, Zenon
    <3> QED BY <3>1, <3>2, <3>3, Zenon
  <2> QED BY <2>1, <2>2, <1>14
<1>17. BusyFunctionsKeepTheirTree'
  <2> SUFFICES ASSUME NEW i \in DOMAIN calls'
               PROVE  function'[calls'[i].func].tree = calls'[i].tree
    BY DEF BusyFunctionsKeepTheirTree
  <2>1. CASE i = Len(calls) + 1
    BY <2>1, <1>5, <1>9, <1>10, <1>12
  <2>2. CASE i \in DOMAIN calls
    <3>1. function[calls[i].func].tree = calls[i].tree
      BY <2>2, SMTT(30) DEF IInv, BusyFunctionsKeepTheirTree
    <3>2. CASE calls[i].func = s
      <4>1. calls'[i] = calls[i]
        BY <2>2, <1>10, Zenon
      <4>2. func = function[s]
        BY <2>2, <3>2, <1>3, <1>15, Zenon
      <4>3. function'[s].tree = function[s].tree
        BY <4>2, <1>5, <1>9, Zenon
      <4> QED BY <4>1, <4>3, <3>1, <3>2, Zenon
    <3>3. CASE calls[i].func # s
      BY <2>2, <3>1, <3>3, <1>9, <1>10, <1>13
    <3> QED BY <3>2, <3>3
  <2> QED BY <2>1, <2>2, <1>14
<1>18. RunsVisibleVersion'
  <2> SUFFICES ASSUME NEW i \in DOMAIN calls'
               PROVE  calls'[i].code.version = calls'[i].version
    BY DEF RunsVisibleVersion
  <2>1. CASE i = Len(calls) + 1
    BY <2>1, <1>10, <1>12
  <2>2. CASE i \in DOMAIN calls
    BY <2>2, <1>10 DEF IInv, RunsVisibleVersion
  <2> QED BY <2>1, <2>2, <1>14
<1>19. UseCountsMatchCalls'
  <2> SUFFICES ASSUME NEW t \in Struct
               PROVE  function'[t].use_count
                        = Cardinality({i \in DOMAIN calls' : calls'[i].func = t})
    BY DEF UseCountsMatchCalls
  <2> DEFINE on == {i \in DOMAIN calls' : calls'[i].func = t}
  <2>1. function[t].use_count = Cardinality(On(t))
    BY DEF IInv, UseCountsMatchCalls, On
  <2>2. IsFiniteSet(On(t)) /\ On(t) \subseteq 1..Len(calls)
    BY OnFinite DEF IInv
  <2>3. CASE t = s
    <3>1. on = On(t) \union {Len(calls) + 1}
      <4>1. calls'[Len(calls) + 1].func = t
        BY <2>3, <1>10, <1>12, Zenon
      <4>2. \A i : i \in DOMAIN calls' <=> (i \in DOMAIN calls \/ i = Len(calls) + 1)
        BY <1>10, Zenon
      <4>3. \A i \in DOMAIN calls : calls'[i].func = calls[i].func
        BY <1>10, Zenon
      <4>4. \A i \in on : i \in On(t) \union {Len(calls) + 1}
        BY <4>2, <4>3, Zenon DEF On
      <4>5. \A i \in On(t) \union {Len(calls) + 1} : i \in on
        BY <4>1, <4>2, <4>3, Zenon DEF On
      <4> HIDE DEF on
      <4> QED BY <4>4, <4>5, Zenon
    <3>2. Len(calls) + 1 \notin On(t)
      <4>1. Len(calls) \in Nat
        BY <1>10, Zenon
      <4>2. Len(calls) + 1 \notin 1..Len(calls)
        BY <4>1
      <4> QED BY <4>2, <2>2, Zenon
    <3>3. Cardinality(on) = Cardinality(On(t)) + 1
      BY <3>1, <3>2, <2>2, FS_AddElement, Zenon
    <3> QED BY <2>1, <2>3, <3>3, <1>2, <1>5, <1>9
  <2>4. CASE t # s
    <3>1. on = On(t)
      <4>1. calls'[Len(calls) + 1].func # t
        BY <2>4, <1>10, <1>12, Zenon
      <4>2. \A i : i \in DOMAIN calls' <=> (i \in DOMAIN calls \/ i = Len(calls) + 1)
        BY <1>10, Zenon
      <4>3. \A i \in DOMAIN calls : calls'[i].func = calls[i].func
        BY <1>10, Zenon
      <4>4. \A i \in on : i \in On(t)
        BY <4>1, <4>2, <4>3, Zenon DEF On
      <4>5. \A i \in On(t) : i \in on
        BY <4>2, <4>3, Zenon DEF On
      <4> HIDE DEF on
      <4> QED BY <4>4, <4>5, Zenon
    <3> QED BY <3>1, <2>1, <2>4, <1>9, Zenon
  <2> QED BY <2>3, <2>4
<1> QED BY <1>8, <1>11, <1>16, <1>17, <1>18, <1>19 DEF IInv
=============================================================================
