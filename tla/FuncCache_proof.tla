--------------------------- MODULE FuncCache_proof ---------------------------
(* Every action of FuncCache preserves the invariant of FuncCache_inv, and    *)
(* the safety properties follow.                                              *)
EXTENDS FuncCache_inv

USE DEF Version, Key

(* What a struct that was just compiled can be turned into is code.           *)
LEMMA CodeOfStruct ==
  ASSUME IInv, NEW k \in Key, NEW fn_extra \in FnExtra(k),
         NEW s \in CompiledInto(k, fn_extra), NEW jit \in BOOLEAN,
         NEW skip \in BOOLEAN
  PROVE  LET code  == [jit |-> jit, func |-> s, tree |-> Compiled(k, fn_extra, s).tree,
                       version |-> Compiled(k, fn_extra, s).fn_xmin]
             entry == [skip |-> skip, jit_func |-> code,
                       fn_xmin |-> Compiled(k, fn_extra, s).fn_xmin, lang_func |-> s]
         IN  /\ code \in Code
             /\ code.version = proc[k[1]]
             /\ code.func = s
             /\ code.tree = Compiled(k, fn_extra, s).tree
             /\ entry \in Entry
             /\ entry.lang_func = s
             /\ entry.fn_xmin = proc[k[1]]
             /\ entry.jit_func = code
<1> DEFINE func == Compiled(k, fn_extra, s)
<1>0. CompileResult(k, fn_extra, s)
  BY CompileEffect, Zenon
<1>1. func \in Function /\ func.fn_xmin = proc[k[1]]
  BY <1>0 DEF CompileResult
<1>2. s \in Struct
  BY <1>0 DEF CompileResult
<1>3. proc[k[1]] \in Version
  BY DEF IInv, TypeOK
<1> QED BY <1>1, <1>2, <1>3 DEF Code, Entry, Function

(* A miss: whatever its outcome, what runs is made from the struct.           *)
LEMMA CallMissStep ==
  ASSUME IInv, NEW k \in Key, NEW fn_extra \in FnExtra(k),
         NEW s \in CompiledInto(k, fn_extra),
         NEW outcome \in {"compiled", "failed", "skipped"},
         CallMiss(k, fn_extra, s, outcome)
  PROVE  IInv'
<1> DEFINE func == Compiled(k, fn_extra, s)
<1> DEFINE code == IF outcome = "compiled" THEN uplpgsql_compile_function(s, func)
                   ELSE Interpreted(s, func)
<1> DEFINE new == [skip |-> ~code.jit, jit_func |-> code, fn_xmin |-> func.fn_xmin,
                   lang_func |-> s]
<1>1. /\ code \in Code
      /\ code.version = proc[k[1]]
      /\ code.func = s
      /\ code.tree = func.tree
      /\ new \in Entry
      /\ new.lang_func = s
      /\ new.fn_xmin = proc[k[1]]
      /\ new.jit_func = code
  <2>1. CASE outcome = "compiled"
    <3>1. code = [jit |-> TRUE, func |-> s, tree |-> func.tree, version |-> func.fn_xmin]
      BY <2>1 DEF uplpgsql_compile_function
    <3>2. code.jit = TRUE
      BY <3>1
    <3>3. new = [skip |-> FALSE, jit_func |-> code, fn_xmin |-> func.fn_xmin, lang_func |-> s]
      BY <3>2, Zenon
    <3> HIDE DEF code, new
    <3> QED BY <3>1, <3>3, CodeOfStruct, Zenon
  <2>2. CASE outcome # "compiled"
    <3>1. code = [jit |-> FALSE, func |-> s, tree |-> func.tree, version |-> func.fn_xmin]
      BY <2>2 DEF Interpreted
    <3>2. code.jit = FALSE
      BY <3>1
    <3>3. new = [skip |-> TRUE, jit_func |-> code, fn_xmin |-> func.fn_xmin, lang_func |-> s]
      BY <3>2, Zenon
    <3> HIDE DEF code, new
    <3> QED BY <3>1, <3>3, CodeOfStruct, Zenon
  <2> QED BY <2>1, <2>2, Zenon
<1>2. EnterFunction(k, fn_extra, s, code)
  BY DEF CallMiss
<1>3. k[1] \in Fn /\ upl_cache_htab \in [Fn -> Entry \union {NoEntry}]
  BY DEF IInv, TypeOK
<1>4. \/ upl_cache_htab' = [upl_cache_htab EXCEPT ![k[1]] = NoEntry]
      \/ upl_cache_htab' = [upl_cache_htab EXCEPT ![k[1]] = new]
  BY DEF CallMiss, upl_cache_store
<1> HIDE DEF code, new
<1>5. HtabChanges(k[1], new)
  BY <1>1, <1>3, <1>4 DEF HtabChanges
<1>6. MadeFor(new, s, proc[k[1]], func.tree)
  BY <1>1 DEF MadeFor
<1>7. code \in Code /\ code.version = proc[k[1]] /\ code.func = s
  BY <1>1
<1>8. k[1] \notin reverted => code.tree = func.tree
  BY <1>1
<1> QED BY <1>2, <1>5, <1>6, <1>7, <1>8, EnterStep, Zenon

(* An event trigger runs in the interpreter, on the struct's own tree.        *)
LEMMA CallEventTriggerStep ==
  ASSUME IInv, NEW k \in Key, NEW fn_extra \in FnExtra(k),
         NEW s \in CompiledInto(k, fn_extra), CallEventTrigger(k, fn_extra, s)
  PROVE  IInv'
<1> DEFINE func == Compiled(k, fn_extra, s)
<1> DEFINE code == Interpreted(s, func)
<1> DEFINE new == [skip |-> TRUE, jit_func |-> code, fn_xmin |-> func.fn_xmin,
                   lang_func |-> s]
<1>1. /\ code \in Code
      /\ code.version = proc[k[1]]
      /\ code.func = s
      /\ code.tree = func.tree
      /\ new \in Entry
      /\ new.lang_func = s
      /\ new.fn_xmin = proc[k[1]]
      /\ new.jit_func = code
  BY CodeOfStruct, Zenon DEF Interpreted
<1>2. EnterFunction(k, fn_extra, s, code) /\ upl_cache_htab' = upl_cache_htab
  BY DEF CallEventTrigger
<1> HIDE DEF code, new
<1>3. HtabChanges(k[1], new)
  BY <1>2 DEF IInv, TypeOK, HtabChanges
<1>4. MadeFor(new, s, proc[k[1]], func.tree)
  BY <1>1 DEF MadeFor
<1>5. code \in Code /\ code.version = proc[k[1]] /\ code.func = s /\ code.tree = func.tree
  BY <1>1
<1> QED BY <1>2, <1>3, <1>4, <1>5, EnterStep, Zenon

(* A hit: the entry is of this struct and this version, so the struct was not  *)
(* just rebuilt unless an earlier version came back.                          *)
LEMMA CallCachedStep ==
  ASSUME IInv, NEW k \in Key, NEW fn_extra \in FnExtra(k),
         NEW s \in CompiledInto(k, fn_extra), CallCached(k, fn_extra, s)
  PROVE  IInv'
<1> DEFINE func == Compiled(k, fn_extra, s)
<1> DEFINE entry == upl_cache_htab[k[1]]
<1> DEFINE status == upl_cache_lookup(k[1], func.fn_xmin, s)
<1> DEFINE code == IF status = "HIT" THEN entry.jit_func ELSE Interpreted(s, func)
<1> DEFINE new == [skip |-> TRUE, jit_func |-> Interpreted(s, func), fn_xmin |-> func.fn_xmin,
                   lang_func |-> s]
<1>1. /\ new \in Entry
      /\ new.lang_func = s
      /\ new.fn_xmin = proc[k[1]]
      /\ new.jit_func.version = proc[k[1]]
      /\ new.jit_func.tree = func.tree
      /\ new.jit_func.func = s
      /\ Interpreted(s, func).func = s
      /\ Interpreted(s, func) \in Code
      /\ Interpreted(s, func).version = proc[k[1]]
      /\ Interpreted(s, func).tree = func.tree
  BY CodeOfStruct, Zenon DEF Interpreted
<1>2. EnterFunction(k, fn_extra, s, code) /\ upl_cache_htab' = upl_cache_htab
  BY DEF CallCached
<1>3. upl_cache_htab' \in [Fn -> Entry \union {NoEntry}] /\ k[1] \in Fn
  BY <1>2 DEF IInv, TypeOK
<1>4. HtabChanges(k[1], new) /\ MadeFor(new, s, proc[k[1]], func.tree)
  BY <1>1, <1>2, <1>3, Zenon DEF HtabChanges, MadeFor
<1>5. ASSUME status = "HIT"
      PROVE  /\ code \in Code
             /\ code.version = proc[k[1]]
             /\ code.func = s
             /\ k[1] \notin reverted => code.tree = func.tree
  <2>0. CompileResult(k, fn_extra, s)
    BY CompileEffect, Zenon
  <2>1. entry # NoEntry /\ entry.fn_xmin = func.fn_xmin /\ entry.lang_func = s
    BY <1>5 DEF upl_cache_lookup, uplpgsql_cache_check
  <2>2. entry \in Entry
    BY <2>1, <1>3 DEF IInv, TypeOK
  <2>3. func.fn_xmin = proc[k[1]]
    BY <2>0 DEF CompileResult
  <2>4. s \in Struct /\ function[s].key \in {k, NoKey}
    BY <2>0 DEF CompileResult
  <2>5. func # function[s] => function[s].fn_xmin # proc[k[1]] \/ function[s].key = NoKey
    BY <2>0 DEF CompileResult
  <2>6. function[s].key = k /\ code.version = proc[k[1]] /\ code.func = s
    <3>1. /\ function[entry.lang_func].key # NoKey /\ entry.jit_func.version = entry.fn_xmin
          /\ entry.jit_func.func = entry.lang_func
      BY <2>1, <1>3 DEF IInv, EntriesConsistent
    <3> QED BY <1>5, <2>1, <2>3, <2>4, <3>1
  <2>7. code \in Code
    BY <1>5, <2>2 DEF Entry
  <2>8. ASSUME k[1] \notin reverted
        PROVE  code.tree = func.tree
    <3>1. /\ entry.fn_xmin <= function[s].fn_xmin
          /\ entry.fn_xmin = function[s].fn_xmin => entry.jit_func.tree = function[s].tree
      BY <2>1, <2>8, <1>3 DEF IInv, EntriesLive
    <3>2. function[s].fn_xmin <= proc[k[1]]
      BY <2>4, <2>6, <2>8, NoneAssumption, Zenon DEF IInv, VersionsBounded
    <3>3. function[s].fn_xmin \in Nat /\ proc[k[1]] \in Nat
      <4>1. \A v \in Version \union {0} : v \in Nat
        BY BoundAssumption
      <4>2. function[s].fn_xmin \in Version \union {0}
        BY <2>4 DEF IInv, TypeOK, Function
      <4>3. proc[k[1]] \in Version
        BY <1>3 DEF IInv, TypeOK
      <4> QED BY <4>1, <4>2, <4>3
    <3>4. function[s].fn_xmin = proc[k[1]]
      <4>1. proc[k[1]] <= function[s].fn_xmin
        BY <2>1, <2>3, <3>1, Zenon
      <4>2. \A a, b \in Nat : a <= b /\ b <= a => a = b
        OBVIOUS
      <4> QED BY <4>1, <4>2, <3>2, <3>3, Zenon
    <3> QED BY <1>5, <2>1, <2>3, <2>5, <2>6, <3>1, <3>4, NoneAssumption
  <2> QED BY <2>6, <2>7, <2>8, Zenon
<1>6. /\ code \in Code
      /\ code.version = proc[k[1]]
      /\ code.func = s
      /\ k[1] \notin reverted => code.tree = func.tree
  BY <1>1, <1>5, Zenon
<1> HIDE DEF code, new
<1> QED BY <1>2, <1>4, <1>6, EnterStep, Zenon

----------------------------------------------------------------------------
(* The end of a call.                                                         *)
LEMMA LeaveStep == ASSUME IInv, Leave PROVE IInv'
<1> DEFINE n == Len(calls)
<1> DEFINE act == calls[n]
<1> DEFINE g == MarkedBusy(function[act.func], function[act.func].use_count - 1,
                           act.save_cur_estate)
<1>1. n \in Nat /\ n # 0 /\ DOMAIN calls = 1..n /\ n \in DOMAIN calls
  BY DEF Leave, IInv, TypeOK
<1>2. \A i \in DOMAIN calls : calls[i] \in Activation
  BY DEF IInv, TypeOK
<1>3. act.func \in Struct /\ act.save_cur_estate \in Nat
  BY <1>1, <1>2 DEF Activation
<1>4. function' = [function EXCEPT ![act.func] = g]
  BY DEF Leave
<1>5. UNCHANGED <<proc, saved, next_version, reverted, cfunc_hashtable, fn_hashkey,
                  upl_cache_htab>>
  BY DEF Leave
<1>6. /\ calls' \in Seq(Activation)
      /\ DOMAIN calls' = 1..(n - 1)
      /\ \A i \in 1..(n - 1) : calls'[i] = calls[i]
  BY <1>1 DEF Leave, IInv, TypeOK
<1>7. function[act.func].use_count = Cardinality(On(act.func))
  BY <1>3, Zenon DEF IInv, UseCountsMatchCalls, On
<1>8. IsFiniteSet(On(act.func)) /\ n \in On(act.func)
  BY <1>1, OnFinite, Zenon DEF On, IInv
<1>9. /\ Cardinality(On(act.func) \ {n}) = Cardinality(On(act.func)) - 1
      /\ Cardinality(On(act.func) \ {n}) \in Nat
  BY <1>8, FS_RemoveElement, FS_CardinalityType, SMTT(30)
<1>10. /\ g \in Function
       /\ g.key = function[act.func].key /\ g.fn_xmin = function[act.func].fn_xmin
       /\ g.tree = function[act.func].tree
       /\ g.use_count = function[act.func].use_count - 1
  BY <1>3, <1>7, <1>9 DEF MarkedBusy, Function, IInv, TypeOK
<1> HIDE DEF g, act
<1>11. /\ function' \in [Struct -> Function]
       /\ \A t \in Struct : /\ function'[t].key = function[t].key
                             /\ function'[t].fn_xmin = function[t].fn_xmin
                             /\ function'[t].tree = function[t].tree
       /\ function'[act.func].use_count = function[act.func].use_count - 1
       /\ \A t \in Struct \ {act.func} : function'[t] = function[t]
  BY <1>3, <1>4, <1>10 DEF IInv, TypeOK
<1>f. \A t \in Struct : /\ function'[t].key = function[t].key
                         /\ function'[t].fn_xmin = function[t].fn_xmin
                         /\ function'[t].tree = function[t].tree
  BY <1>11
<1>12. TypeOK'
  BY <1>5, <1>6, <1>11 DEF IInv, TypeOK
<1>13. TableKeys'
  BY <1>5, <1>11 DEF IInv, TypeOK, TableKeys
<1>14. VersionsBounded'
  BY <1>5, <1>11 DEF IInv, VersionsBounded
<1>15. EntriesConsistent' /\ EntriesLive'
  <2>1. \A f \in Fn : upl_cache_htab[f] # NoEntry => upl_cache_htab[f].lang_func \in Struct
    <3>1. \A f \in Fn : upl_cache_htab[f] # NoEntry => upl_cache_htab[f] \in Entry
      BY DEF IInv, TypeOK
    <3> QED BY <3>1 DEF Entry
  <2>2. EntriesConsistent'
    <3> SUFFICES ASSUME NEW f \in Fn, upl_cache_htab[f] # NoEntry
                 PROVE  /\ function'[upl_cache_htab[f].lang_func].key # NoKey
                        /\ function'[upl_cache_htab[f].lang_func].key[1] = f
                        /\ upl_cache_htab[f].jit_func.version = upl_cache_htab[f].fn_xmin
                        /\ upl_cache_htab[f].jit_func.func = upl_cache_htab[f].lang_func
      BY <1>5 DEF EntriesConsistent
    <3>1. /\ function[upl_cache_htab[f].lang_func].key # NoKey
          /\ function[upl_cache_htab[f].lang_func].key[1] = f
          /\ upl_cache_htab[f].jit_func.version = upl_cache_htab[f].fn_xmin
          /\ upl_cache_htab[f].jit_func.func = upl_cache_htab[f].lang_func
      BY DEF IInv, EntriesConsistent
    <3>2. function'[upl_cache_htab[f].lang_func].key = function[upl_cache_htab[f].lang_func].key
      BY <2>1, <1>f, Zenon
    <3> QED BY <3>1, <3>2, Zenon
  <2>3. EntriesLive'
    <3> SUFFICES ASSUME NEW f \in Fn \ reverted, upl_cache_htab[f] # NoEntry
                 PROVE  LET entry == upl_cache_htab[f]
                            func  == function'[entry.lang_func]
                        IN  /\ entry.fn_xmin <= func.fn_xmin
                            /\ entry.fn_xmin = func.fn_xmin => entry.jit_func.tree = func.tree
      BY <1>5 DEF EntriesLive
    <3>1. LET entry == upl_cache_htab[f]
              func  == function[entry.lang_func]
          IN  /\ entry.fn_xmin <= func.fn_xmin
              /\ entry.fn_xmin = func.fn_xmin => entry.jit_func.tree = func.tree
      BY DEF IInv, EntriesLive
    <3>2. upl_cache_htab[f].lang_func \in Struct
      BY <2>1
    <3>3. /\ function'[upl_cache_htab[f].lang_func].fn_xmin
               = function[upl_cache_htab[f].lang_func].fn_xmin
          /\ function'[upl_cache_htab[f].lang_func].tree
               = function[upl_cache_htab[f].lang_func].tree
      BY <3>2, <1>f, Zenon
    <3> QED BY <3>1, <3>3, Zenon
  <2> QED BY <2>2, <2>3
<1>16. \A i \in 1..(n - 1) : i \in DOMAIN calls /\ calls[i].func \in Struct
  BY <1>1, <1>2 DEF Activation
<1>17. CallsConsistent'
  <2>1. DOMAIN calls' = 1..(n - 1) /\ reverted' = reverted
    BY <1>5, <1>6
  <2>2. \A i \in 1..(n - 1) :
          /\ function[calls[i].func].key # NoKey
          /\ calls[i].code.func = calls[i].func
          /\ calls[i].fn \notin reverted => calls[i].code.tree = calls[i].tree
    BY <1>16 DEF IInv, CallsConsistent
  <2>3. \A i \in 1..(n - 1) :
          calls'[i] = calls[i] /\ function'[calls[i].func].key = function[calls[i].func].key
    BY <1>6, <1>16, <1>f
  <2> QED BY <2>1, <2>2, <2>3 DEF CallsConsistent
<1>18. BusyFunctionsKeepTheirTree'
  BY <1>6, <1>11, <1>16 DEF IInv, BusyFunctionsKeepTheirTree
<1>19. RunsVisibleVersion'
  BY <1>6, <1>16 DEF IInv, RunsVisibleVersion
<1>20. UseCountsMatchCalls'
  <2> SUFFICES ASSUME NEW t \in Struct
               PROVE  function'[t].use_count
                        = Cardinality({i \in DOMAIN calls' : calls'[i].func = t})
    BY DEF UseCountsMatchCalls
  <2> DEFINE on == {i \in DOMAIN calls' : calls'[i].func = t}
  <2>1. CASE t = act.func
    <3>1. on = On(t) \ {n}
      BY <1>1, <1>6 DEF On
    <3> QED BY <2>1, <3>1, <1>7, <1>9, <1>11, Zenon
  <2>2. CASE t # act.func
    <3>1. on = On(t)
      BY <2>2, <1>1, <1>6 DEF On, act
    <3>2. function[t].use_count = Cardinality(On(t))
      BY DEF IInv, UseCountsMatchCalls, On
    <3> QED BY <3>1, <3>2, <2>2, <1>11, Zenon
  <2> QED BY <2>1, <2>2
<1> QED BY <1>12, <1>13, <1>14, <1>15, <1>17, <1>18, <1>19, <1>20 DEF IInv

(* The validator rebuilds at most an idle struct.                             *)
LEMMA ValidatorStep ==
  ASSUME IInv, NEW k \in Key, NEW s \in CompiledInto(k, NoStruct), uplpgsql_validator(k, s)
  PROVE  IInv'
<1> DEFINE g == Compiled(k, NoStruct, s)
<1> DEFINE code == [jit |-> FALSE, func |-> s, tree |-> g.tree, version |-> g.fn_xmin]
<1> DEFINE new == [skip |-> TRUE, jit_func |-> code, fn_xmin |-> g.fn_xmin, lang_func |-> s]
<1>0. NoStruct \in FnExtra(k)
  BY DEF FnExtra
<1>1. /\ new \in Entry
      /\ new.lang_func = s
      /\ new.fn_xmin = proc[k[1]]
      /\ new.jit_func.version = proc[k[1]]
      /\ new.jit_func.tree = g.tree
      /\ new.jit_func.func = s
  BY <1>0, CodeOfStruct, Zenon
<1>2. /\ function' = [function EXCEPT ![s] = g]
      /\ cfunc_hashtable' = TableAfterCompile(k, NoStruct, s)
      /\ fn_hashkey' = HashkeyAfterCompile(k, NoStruct, s)
      /\ UNCHANGED <<proc, saved, next_version, reverted>>
      /\ upl_cache_htab' = upl_cache_htab /\ calls' = calls
  BY Zenon DEF uplpgsql_validator
<1>c. CompileResult(k, NoStruct, s)
  BY <1>0, CompileEffect, Zenon
<1>3. s \in Struct /\ g \in Function /\ g.key = k
  BY <1>c, Zenon DEF CompileResult
<1>4. g.fn_xmin = proc[k[1]] /\ g.use_count = function[s].use_count
  BY <1>c DEF CompileResult
<1>5. g # function[s] => On(s) = {}
  BY <1>c DEF CompileResult
<1>6. cfunc_hashtable' \in [Key -> Struct \union {NoStruct}] /\ fn_hashkey' \subseteq Struct
  BY <1>c, <1>2 DEF CompileResult
<1> HIDE DEF new, code
<1>7. HtabChanges(k[1], new) /\ MadeFor(new, s, proc[k[1]], g.tree)
  BY <1>1, <1>2 DEF IInv, TypeOK, HtabChanges, MadeFor
<1>8. TableKeys' /\ VersionsBounded' /\ EntriesConsistent' /\ EntriesLive'
  BY <1>0, <1>2, <1>3, <1>4, <1>7, CachesConsistent, Zenon
<1> HIDE DEF g
<1>9. /\ function'[s] = g
      /\ \A t \in Struct \ {s} : function'[t] = function[t]
      /\ function' \in [Struct -> Function]
  BY <1>2, <1>3 DEF IInv, TypeOK
<1>10. TypeOK'
  BY <1>2, <1>6, <1>9 DEF IInv, TypeOK
<1>11. \A i \in DOMAIN calls : /\ calls[i].func \in Struct
                               /\ calls[i].func = s => g = function[s]
  <2>1. \A i \in DOMAIN calls : calls[i] \in Activation
    BY DEF IInv, TypeOK
  <2> QED BY <2>1, <1>5 DEF Activation, On
<1>12. CallsConsistent'
  <2>1. \A i \in DOMAIN calls : function'[calls[i].func].key # NoKey
    BY <1>9, <1>11 DEF IInv, CallsConsistent
  <2>2. \A i \in DOMAIN calls :
          /\ calls[i].code.func = calls[i].func
          /\ calls[i].fn \notin reverted => calls[i].code.tree = calls[i].tree
    BY DEF IInv, CallsConsistent
  <2>3. calls' = calls /\ reverted' = reverted
    BY <1>2
  <2> QED BY <2>1, <2>2, <2>3 DEF CallsConsistent
<1>13. BusyFunctionsKeepTheirTree'
  <2>1. \A i \in DOMAIN calls : function'[calls[i].func] = function[calls[i].func]
    BY <1>9, <1>11
  <2> QED BY <2>1, <1>2 DEF IInv, BusyFunctionsKeepTheirTree
<1>14. RunsVisibleVersion'
  BY <1>2 DEF IInv, RunsVisibleVersion
<1>15. UseCountsMatchCalls'
  BY <1>2, <1>4, <1>9 DEF IInv, UseCountsMatchCalls
<1> QED BY <1>8, <1>10, <1>12, <1>13, <1>14, <1>15 DEF IInv

(* What changes pg_proc leaves both caches and the calls alone.  A version     *)
(* that is written is newer than any struct; one that comes back puts its      *)
(* function among the reverted.                                               *)
LEMMA CatalogStep ==
  ASSUME IInv, (\E f \in Fn : CreateOrReplace(f)) \/ Commit \/ Rollback
  PROVE  IInv'
<1>1. UNCHANGED <<function, cfunc_hashtable, fn_hashkey, upl_cache_htab, calls>>
  BY DEF CreateOrReplace, Commit, Rollback
<1>2. /\ proc' \in [Fn -> Version]
      /\ saved' \in [Fn -> Version]
      /\ next_version' \in Version
      /\ reverted \subseteq reverted'
      /\ reverted' \in SUBSET Fn
  BY BoundAssumption DEF CreateOrReplace, Commit, Rollback, IInv, TypeOK
<1>n. /\ next_version \in Nat
      /\ \A f \in Fn : /\ proc[f] \in Nat /\ saved[f] \in Nat /\ proc'[f] \in Nat
                       /\ proc[f] <= next_version /\ saved[f] <= next_version
  <2>1. \A v \in Version : v \in Nat
    BY BoundAssumption
  <2>2. /\ next_version \in Version
        /\ \A f \in Fn : proc[f] \in Version /\ saved[f] \in Version /\ proc'[f] \in Version
    BY <1>2 DEF IInv, TypeOK
  <2>3. \A f \in Fn : proc[f] <= next_version /\ saved[f] <= next_version
    BY DEF IInv, VersionsBounded
  <2> QED BY <2>1, <2>2, <2>3, Zenon
<1>w. ASSUME NEW h \in Fn, CreateOrReplace(h)
      PROVE  /\ next_version' = next_version + 1 /\ saved' = saved
             /\ \A f \in Fn : proc'[f] = proc[f] \/ proc'[f] = next_version + 1
  BY <1>w DEF CreateOrReplace, IInv, TypeOK
<1>3. \A f \in Fn \ reverted' : proc[f] <= proc'[f]
  <2>1. CASE \E h \in Fn : CreateOrReplace(h)
    <3>1. \A f \in Fn : proc'[f] = proc[f] \/ proc'[f] = next_version + 1
      BY <2>1, <1>w, Zenon
    <3> QED BY <3>1, <1>n
  <2>2. CASE Commit
    BY <2>2, <1>n DEF Commit
  <2>3. CASE Rollback
    <3>1. \A f \in Fn \ reverted' : proc'[f] = proc[f]
      BY <2>3 DEF Rollback
    <3> QED BY <3>1, <1>n
  <2> QED BY <2>1, <2>2, <2>3
<1>4. \A s \in Struct : function[s].fn_xmin \in Version \union {0} /\ function[s].key \in Key \union {NoKey}
  BY DEF IInv, TypeOK, Function
<1>5. ASSUME NEW s \in Struct, function[s].key # NoKey, function[s].key[1] \notin reverted'
      PROVE  function[s].fn_xmin <= proc'[function[s].key[1]]
  <2> DEFINE f == function[s].key[1]
  <2>1. f \in Fn \ reverted'
    BY <1>4, <1>5
  <2>2. function[s].fn_xmin <= proc[f]
    BY <1>2, <1>5 DEF IInv, VersionsBounded
  <2>3. function[s].fn_xmin \in Int /\ proc[f] \in Int /\ proc'[f] \in Int
    <3>1. \A v \in Version \union {0} : v \in Int
      BY BoundAssumption
    <3>2. proc[f] \in Int /\ proc'[f] \in Int
      BY <2>1, <1>n
    <3> QED BY <1>4, <3>1, <3>2, Zenon
  <2> QED BY <2>1, <2>2, <2>3, <1>3
<1>6. \A f \in Fn : proc'[f] <= next_version' /\ saved'[f] <= next_version'
  <2>1. CASE \E h \in Fn : CreateOrReplace(h)
    <3>1. /\ next_version' = next_version + 1 /\ saved' = saved
          /\ \A f \in Fn : proc'[f] = proc[f] \/ proc'[f] = next_version + 1
      BY <2>1, <1>w, Zenon
    <3> QED BY <3>1, <1>n
  <2>2. CASE Commit
    BY <2>2, <1>n DEF Commit
  <2>3. CASE Rollback
    BY <2>3, <1>n DEF Rollback
  <2> QED BY <2>1, <2>2, <2>3
<1>7. VersionsBounded'
  BY <1>1, <1>5, <1>6 DEF VersionsBounded
<1>8. TypeOK'
  BY <1>1, <1>2, SMTT(30) DEF IInv, TypeOK
<1>9. TableKeys' /\ EntriesConsistent' /\ EntriesLive'
  BY <1>1, <1>2 DEF IInv, TableKeys, EntriesConsistent, EntriesLive
<1>10. CallsConsistent'
  BY <1>1, <1>2 DEF IInv, CallsConsistent
<1>11. UseCountsMatchCalls' /\ BusyFunctionsKeepTheirTree' /\ RunsVisibleVersion'
  BY <1>1 DEF IInv, UseCountsMatchCalls, BusyFunctionsKeepTheirTree, RunsVisibleVersion
<1> QED BY <1>7, <1>8, <1>9, <1>10, <1>11 DEF IInv

----------------------------------------------------------------------------
(* The theorems *)

(* A backend starts with both caches empty and no call running.               *)
LEMMA InitInv == Init => IInv
<1> SUFFICES ASSUME Init PROVE IInv
  OBVIOUS
<1>1. 1 \in Version
  BY BoundAssumption
<1>2. FreeStruct \in Function
  BY DEF FreeStruct, Function
<1>3. TypeOK
  BY <1>1, <1>2 DEF Init, TypeOK
<1>4. DOMAIN calls = {} /\ \A s \in Struct : {i \in DOMAIN calls : calls[i].func = s} = {}
  BY DEF Init
<1>5. UseCountsMatchCalls
  BY <1>4, FS_EmptySet DEF Init, UseCountsMatchCalls, FreeStruct
<1>6. TableKeys /\ EntriesConsistent /\ EntriesLive
  BY DEF Init, TableKeys, EntriesConsistent, EntriesLive
<1>7. VersionsBounded
  BY DEF Init, VersionsBounded, FreeStruct
<1>8. CallsConsistent /\ BusyFunctionsKeepTheirTree /\ RunsVisibleVersion
  BY <1>4 DEF CallsConsistent, BusyFunctionsKeepTheirTree, RunsVisibleVersion
<1> QED BY <1>3, <1>5, <1>6, <1>7, <1>8 DEF IInv

(* Every step of the handlers and of the catalog preserves the invariant.     *)
LEMMA NextInv == IInv /\ [Next]_vars => IInv'
<1> SUFFICES ASSUME IInv, [Next]_vars PROVE IInv'
  OBVIOUS
<1>1. CASE \E k \in Key : Call(k)
  <2>1. PICK k \in Key : Call(k)
    BY <1>1
  <2>2. PICK fn_extra \in FnExtra(k) : \E s \in CompiledInto(k, fn_extra) :
          \/ CallCached(k, fn_extra, s)
          \/ \E outcome \in {"compiled", "failed", "skipped"} : CallMiss(k, fn_extra, s, outcome)
          \/ CallEventTrigger(k, fn_extra, s)
    BY <2>1 DEF Call
  <2>6. PICK s \in CompiledInto(k, fn_extra) :
          \/ CallCached(k, fn_extra, s)
          \/ \E outcome \in {"compiled", "failed", "skipped"} : CallMiss(k, fn_extra, s, outcome)
          \/ CallEventTrigger(k, fn_extra, s)
    BY <2>2
  <2>3. CASE CallCached(k, fn_extra, s)
    BY <2>3, CallCachedStep
  <2>4. CASE \E outcome \in {"compiled", "failed", "skipped"} : CallMiss(k, fn_extra, s, outcome)
    BY <2>4, CallMissStep
  <2>5. CASE CallEventTrigger(k, fn_extra, s)
    BY <2>5, CallEventTriggerStep
  <2> QED BY <2>6, <2>3, <2>4, <2>5
<1>2. CASE \E k \in Key : \E s \in CompiledInto(k, NoStruct) : uplpgsql_validator(k, s)
  BY <1>2, ValidatorStep
<1>3. CASE Leave
  BY <1>3, LeaveStep
<1>4. CASE (\E f \in Fn : CreateOrReplace(f)) \/ Commit \/ Rollback
  BY <1>4, CatalogStep
<1>5. CASE UNCHANGED vars
  <2>1. TypeOK' /\ TableKeys' /\ VersionsBounded'
    BY <1>5 DEF vars, IInv, TypeOK, TableKeys, VersionsBounded
  <2>2. EntriesConsistent' /\ EntriesLive' /\ CallsConsistent'
    BY <1>5 DEF vars, IInv, EntriesConsistent, EntriesLive, CallsConsistent
  <2>3. UseCountsMatchCalls' /\ BusyFunctionsKeepTheirTree' /\ RunsVisibleVersion'
    BY <1>5 DEF vars, IInv, UseCountsMatchCalls, BusyFunctionsKeepTheirTree, RunsVisibleVersion
  <2> QED BY <2>1, <2>2, <2>3 DEF IInv
<1> QED BY <1>1, <1>2, <1>3, <1>4, <1>5 DEF Next

(* The inductive invariant holds in every reachable state of the backend.     *)
THEOREM Invariance == Spec => []IInv
<1>1. Init => IInv
  BY InitInv
<1>2. IInv /\ [Next]_vars => IInv'
  BY NextInv
<1> QED BY <1>1, <1>2, PTL DEF Spec

(* The variables keep their types.                                            *)
THEOREM TypeCorrect == Spec => []TypeOK
<1>1. IInv => TypeOK
  BY DEF IInv
<1> QED BY <1>1, Invariance, PTL

(* A struct that a call is running on is never rebuilt, and its use_count is   *)
(* exactly the number of those calls.                                         *)
THEOREM BusySafe == Spec => [](BusyFunctionsKeepTheirTree /\ UseCountsMatchCalls)
<1>1. IInv => BusyFunctionsKeepTheirTree /\ UseCountsMatchCalls
  BY DEF IInv
<1> QED BY <1>1, Invariance, PTL

(* A call runs the version that was visible when it was made, rolled back      *)
(* versions included.                                                         *)
THEOREM VersionSafe == Spec => []RunsVisibleVersion
<1>1. IInv => RunsVisibleVersion
  BY DEF IInv
<1> QED BY <1>1, Invariance, PTL

(* Compiled code embeds the live tree of its struct as long as no ROLLBACK     *)
(* gave the function an earlier version back.                                 *)
THEOREM TreeSafe == Spec => []CodeEmbedsLiveTree
<1>1. IInv => CodeEmbedsLiveTree
  BY DEF IInv, CallsConsistent, BusyFunctionsKeepTheirTree, CodeEmbedsLiveTree,
         RunsLiveTree
<1> QED BY <1>1, Invariance, PTL
=============================================================================
