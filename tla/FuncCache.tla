------------------------------ MODULE FuncCache ------------------------------
(* How one backend gets from a function call to the code it runs:          *)
(* uplpgsql_call_handler (drivers/plpgsql/uplpgsql_handler.c), the cache of *)
(* parsed functions it asks first (uplpgsql_compile, over PostgreSQL's      *)
(* funccache.c) and the cache of compiled code it asks next                 *)
(* (core/upl_cache.c).                                                      *)
(*                                                                          *)
(* A parsed function is a UPLpgSQL_function struct.  The struct lives as     *)
(* long as the backend, but its statement tree is freed and rebuilt when the *)
(* pg_proc row has changed, so a tree is named by its struct and a           *)
(* generation.  Compiled code embeds pointers into the tree it was compiled  *)
(* from.  pg_proc row versions (fn_xmin, fn_tid) are numbers; a version that *)
(* a ROLLBACK makes visible again is the same version.                       *)
EXTENDS Naturals, Sequences, FiniteSets

CONSTANTS
  Fn,               \* function OIDs
  EventTriggerFn,   \* the ones that are called as event triggers
  Variant,          \* what funccache.c tells apart beside the OID: the trigger
                    \* a function fires for, its argument types, its collation
  Struct,           \* addresses of UPLpgSQL_function structs
  NoStruct,         \* the null pointer
  NoKey,            \* the key of an address that holds no struct yet
  NoEntry,          \* an OID that has no entry of compiled code
  MaxVersion,       \* bound: pg_proc row versions written
  MaxCalls          \* bound: nesting of calls

ASSUME FnAssumption == EventTriggerFn \subseteq Fn
ASSUME StructAssumption == NoStruct \notin Struct /\ IsFiniteSet(Struct)
ASSUME BoundAssumption == MaxVersion \in Nat \ {0} /\ MaxCalls \in Nat \ {0}

VARIABLES
  proc,             \* per function, the row version visible now
  saved,            \* ... and the one a ROLLBACK brings back
  next_version,     \* the last version written
  reverted,         \* history: functions that a ROLLBACK gave an old version
  function,         \* per address, the UPLpgSQL_function there
  cfunc_hashtable,  \* funccache.c's table: key -> struct
  fn_hashkey,       \* the structs that remember having an entry in it
  upl_cache_htab,   \* core/upl_cache.c's table: OID -> entry
  calls             \* the activations of uplpgsql_call_handler, innermost last

vars == <<proc, saved, next_version, reverted, function, cfunc_hashtable,
          fn_hashkey, upl_cache_htab, calls>>

Version == 1..MaxVersion
Key == Fn \X Variant

----------------------------------------------------------------------------
(* Types *)

FreeStruct == [key |-> NoKey, fn_xmin |-> 0, tree |-> 0, use_count |-> 0,
               cur_estate |-> 0]
Function == [key : Key \union {NoKey}, fn_xmin : Version \union {0}, tree : Nat,
             use_count : Nat, cur_estate : Nat]

(* What a call executes: compiled code, which embeds the tree it was         *)
(* compiled from and knows the version it was compiled for, or the           *)
(* interpreter on the struct's own tree.                                     *)
Code == [jit : BOOLEAN, func : Struct, tree : Nat, version : Version]

(* UPL_cache_entry.  jit_func is a pointer or the sentinel UPL_SKIP_JIT,      *)
(* here the flag skip.                                                       *)
Entry == [skip : BOOLEAN, jit_func : Code, fn_xmin : Version, lang_func : Struct]

Activation == [func : Struct, fn : Fn, version : Version, tree : Nat,
               code : Code, save_cur_estate : Nat]

ASSUME NoneAssumption == NoKey \notin Key /\ NoEntry \notin Entry

(* The types of the variables.                                               *)
TypeOK ==
  /\ proc \in [Fn -> Version]
  /\ saved \in [Fn -> Version]
  /\ next_version \in Version
  /\ reverted \in SUBSET Fn
  /\ function \in [Struct -> Function]
  /\ cfunc_hashtable \in [Key -> Struct \union {NoStruct}]
  /\ fn_hashkey \in SUBSET Struct
  /\ upl_cache_htab \in [Fn -> Entry \union {NoEntry}]
  /\ calls \in Seq(Activation)

Init ==
  /\ proc = [f \in Fn |-> 1]
  /\ saved = proc
  /\ next_version = 1
  /\ reverted = {}
  /\ function = [s \in Struct |-> FreeStruct]
  /\ cfunc_hashtable = [k \in Key |-> NoStruct]
  /\ fn_hashkey = {}
  /\ upl_cache_htab = [f \in Fn |-> NoEntry]
  /\ calls = <<>>

----------------------------------------------------------------------------
(* The cache of parsed functions                                             *)

Current(k, s) == s # NoStruct /\ function[s].fn_xmin = proc[k[1]]
Outdated(k, s) == s # NoStruct /\ function[s].fn_xmin # proc[k[1]]
Busy(s) == s # NoStruct /\ function[s].use_count # 0

(* cfunc_hashtable_delete: the entry the struct remembers having goes.        *)
Unhash(table, s) ==
  IF s \in fn_hashkey
  THEN [table EXCEPT ![function[s].key] = NoStruct]
  ELSE table

(* An outdated struct that is busy is left to its callers: it leaves the      *)
(* table, and when it was reached through fn_extra the table is asked, once.  *)
FirstFound(k, fn_extra) == IF fn_extra # NoStruct THEN fn_extra ELSE cfunc_hashtable[k]
LeftAlone(k, s) == Outdated(k, s) /\ Busy(s)
TableAfterFirst(k, fn_extra) ==
  IF LeftAlone(k, FirstFound(k, fn_extra))
  THEN Unhash(cfunc_hashtable, FirstFound(k, fn_extra))
  ELSE cfunc_hashtable
SecondFound(k, fn_extra) ==
  IF LeftAlone(k, FirstFound(k, fn_extra))
  THEN IF fn_extra # NoStruct THEN TableAfterFirst(k, fn_extra)[k] ELSE NoStruct
  ELSE FirstFound(k, fn_extra)
TableAfterSecond(k, fn_extra) ==
  IF LeftAlone(k, SecondFound(k, fn_extra))
  THEN Unhash(TableAfterFirst(k, fn_extra), SecondFound(k, fn_extra))
  ELSE TableAfterFirst(k, fn_extra)
Found(k, fn_extra) ==
  IF LeftAlone(k, SecondFound(k, fn_extra)) THEN NoStruct ELSE SecondFound(k, fn_extra)
LeftStructs(k, fn_extra) ==
  {s \in {FirstFound(k, fn_extra), SecondFound(k, fn_extra)} : LeftAlone(k, s)}

(* uplpgsql_free_function_memory and then uplpgsql_compile_callback: the old  *)
(* tree of the struct is gone and a new one is in its place.                  *)
Rebuilt(k, s) ==
  [key |-> k, fn_xmin |-> proc[k[1]], tree |-> function[s].tree + 1,
   use_count |-> 0, cur_estate |-> 0]

(* The structs uplpgsql_compile may return: the current one, the outdated     *)
(* one it found, rebuilt in place, or a new one.                              *)
CompiledInto(k, fn_extra) ==
  LET s == Found(k, fn_extra)
  IN  IF s = NoStruct THEN {n \in Struct : function[n].key = NoKey} ELSE {s}

(* The struct s, the table and the structs that remember an entry of it once  *)
(* uplpgsql_compile has returned s.                                           *)
Kept(k, fn_extra, s) == Found(k, fn_extra) = s /\ Current(k, s)
Compiled(k, fn_extra, s) == IF Kept(k, fn_extra, s) THEN function[s] ELSE Rebuilt(k, s)
TableAfterCompile(k, fn_extra, s) ==
  IF Kept(k, fn_extra, s)
  THEN TableAfterSecond(k, fn_extra)
  ELSE [Unhash(TableAfterSecond(k, fn_extra), Found(k, fn_extra)) EXCEPT ![k] = s]
HashkeyAfterCompile(k, fn_extra, s) ==
  (fn_hashkey \ LeftStructs(k, fn_extra)) \union (IF Kept(k, fn_extra, s) THEN {} ELSE {s})

(* A call site's fn_extra is null or what an earlier call through it got.      *)
FnExtra(k) == {NoStruct} \union {s \in Struct : function[s].key = k}

----------------------------------------------------------------------------
(* The cache of compiled code                                                *)

(* Mutant: an entry is taken whatever struct it was made for.                 *)
cache_check_any(entry, s) == TRUE

(* uplpgsql_cache_check: the entry was made for this very struct.              *)
uplpgsql_cache_check(entry, s) == entry.lang_func = s

(* Mutant: the version is not compared.                                       *)
cache_lookup_any_version(f, fn_xmin, s) ==
  LET entry == upl_cache_htab[f]
  IN  IF entry = NoEntry \/ ~uplpgsql_cache_check(entry, s) THEN "MISS"
      ELSE IF entry.skip THEN "SKIP" ELSE "HIT"

(* upl_cache_lookup: MISS, SKIP or HIT for the struct s at version fn_xmin.    *)
upl_cache_lookup(f, fn_xmin, s) ==
  LET entry == upl_cache_htab[f]
  IN  IF entry = NoEntry \/ entry.fn_xmin # fn_xmin \/ ~uplpgsql_cache_check(entry, s)
      THEN "MISS"
      ELSE IF entry.skip THEN "SKIP" ELSE "HIT"

(* upl_cache_store and upl_cache_store_skip: overwrite whatever is there.      *)
upl_cache_store(f, fn_xmin, s, code) ==
  [upl_cache_htab EXCEPT ![f] = [skip |-> ~code.jit, jit_func |-> code,
                                 fn_xmin |-> fn_xmin, lang_func |-> s]]

(* The interpreter on the tree of the struct s, whose contents are func, and   *)
(* the code compiled from it.                                                  *)
Interpreted(s, func) ==
  [jit |-> FALSE, func |-> s, tree |-> func.tree, version |-> func.fn_xmin]
uplpgsql_compile_function(s, func) ==
  [jit |-> TRUE, func |-> s, tree |-> func.tree, version |-> func.fn_xmin]

----------------------------------------------------------------------------
(* The handlers                                                              *)

(* The struct with another use_count and cur_estate.                          *)
MarkedBusy(func, use_count, cur_estate) ==
  [key |-> func.key, fn_xmin |-> func.fn_xmin, tree |-> func.tree,
   use_count |-> use_count, cur_estate |-> cur_estate]

(* uplpgsql_call_handler up to the execution: func is the struct             *)
(* uplpgsql_compile returned, marked busy, and code is what will run.         *)
EnterFunction(k, fn_extra, s, code) ==
  LET func == Compiled(k, fn_extra, s)
  IN  /\ function' = [function EXCEPT ![s] = MarkedBusy(func, func.use_count + 1, Len(calls) + 1)]
      /\ cfunc_hashtable' = TableAfterCompile(k, fn_extra, s)
      /\ fn_hashkey' = HashkeyAfterCompile(k, fn_extra, s)
      /\ calls' = Append(calls, [func |-> s, fn |-> k[1], version |-> proc[k[1]],
                                 tree |-> func.tree, code |-> code,
                                 save_cur_estate |-> func.cur_estate])
      /\ UNCHANGED <<proc, saved, next_version, reverted>>

(* A call whose code is there already, or that was decided to be interpreted. *)
CallCached(k, fn_extra, s) ==
  LET func   == Compiled(k, fn_extra, s)
      status == upl_cache_lookup(k[1], func.fn_xmin, s)
  IN  /\ Len(calls) < MaxCalls
      /\ k[1] \notin EventTriggerFn
      /\ status # "MISS"
      /\ EnterFunction(k, fn_extra, s,
           IF status = "HIT" THEN upl_cache_htab[k[1]].jit_func ELSE Interpreted(s, func))
      /\ UNCHANGED upl_cache_htab

(* A call that misses: compile and store, or fail to compile and interpret    *)
(* without remembering it, or (uplpgsql.enable_jit_heuristic) store the        *)
(* decision not to compile.  An entry that did not match is gone in any case.  *)
CallMiss(k, fn_extra, s, outcome) ==
  LET func == Compiled(k, fn_extra, s)
      code == IF outcome = "compiled" THEN uplpgsql_compile_function(s, func)
              ELSE Interpreted(s, func)
  IN  /\ Len(calls) < MaxCalls
      /\ k[1] \notin EventTriggerFn
      /\ upl_cache_lookup(k[1], func.fn_xmin, s) = "MISS"
      /\ EnterFunction(k, fn_extra, s, code)
      /\ upl_cache_htab' =
           IF outcome = "failed" THEN [upl_cache_htab EXCEPT ![k[1]] = NoEntry]
           ELSE upl_cache_store(k[1], func.fn_xmin, s, code)

(* An event trigger is interpreted and does not look at the cache.             *)
CallEventTrigger(k, fn_extra, s) ==
  /\ Len(calls) < MaxCalls
  /\ k[1] \in EventTriggerFn
  /\ EnterFunction(k, fn_extra, s, Interpreted(s, Compiled(k, fn_extra, s)))
  /\ UNCHANGED upl_cache_htab

(* Mutants of Leave: use_count is dropped twice, or not at all; cur_estate is  *)
(* cleared instead of restored.                                               *)
LeaveWith(drop, cur_estate) ==
  LET act == calls[Len(calls)]
  IN  /\ calls # <<>>
      /\ function' = [function EXCEPT ![act.func] =
                        MarkedBusy(@, @.use_count - drop, cur_estate)]
      /\ calls' = SubSeq(calls, 1, Len(calls) - 1)
      /\ UNCHANGED <<proc, saved, next_version, reverted, cfunc_hashtable, fn_hashkey, upl_cache_htab>>

Leave_twice  == LeaveWith(2, calls[Len(calls)].save_cur_estate)
Leave_busy   == LeaveWith(0, calls[Len(calls)].save_cur_estate)
Leave_clears == LeaveWith(1, 0)

(* The function returns or fails: PG_FINALLY.                                 *)
Leave ==
  LET act == calls[Len(calls)]
  IN  /\ calls # <<>>
      /\ function' = [function EXCEPT ![act.func] =
                        MarkedBusy(@, @.use_count - 1, act.save_cur_estate)]
      /\ calls' = SubSeq(calls, 1, Len(calls) - 1)
      /\ UNCHANGED <<proc, saved, next_version, reverted, cfunc_hashtable, fn_hashkey, upl_cache_htab>>

----------------------------------------------------------------------------
(* What changes pg_proc.  Any of this may also be done by a function that is   *)
(* running, and the transaction that ends may be a subtransaction of it.       *)

(* CREATE OR REPLACE FUNCTION with check_function_bodies off.                 *)
CreateOrReplace(f) ==
  /\ next_version < MaxVersion
  /\ next_version' = next_version + 1
  /\ proc' = [proc EXCEPT ![f] = next_version + 1]
  /\ UNCHANGED <<saved, reverted, function, cfunc_hashtable, fn_hashkey,
                 upl_cache_htab, calls>>

(* Mutant: the validator rebuilds the struct it finds, busy or not.            *)
validator_rebuilds(k, s) ==
  LET t == cfunc_hashtable[k]
  IN  /\ Outdated(k, t)
      /\ function' = [function EXCEPT ![t] = Rebuilt(k, t)]
      /\ UNCHANGED <<proc, saved, next_version, reverted, cfunc_hashtable, fn_hashkey,
                     upl_cache_htab, calls>>

(* uplpgsql_validator: parses the function as a call would, through the same   *)
(* cache of parsed functions, and looks at no compiled code.                   *)
uplpgsql_validator(k, s) ==
  /\ Outdated(k, cfunc_hashtable[k]) \/ cfunc_hashtable[k] = NoStruct
  /\ function' = [function EXCEPT ![s] = Compiled(k, NoStruct, s)]
  /\ cfunc_hashtable' = TableAfterCompile(k, NoStruct, s)
  /\ fn_hashkey' = HashkeyAfterCompile(k, NoStruct, s)
  /\ UNCHANGED <<proc, saved, next_version, reverted, upl_cache_htab, calls>>

Commit ==
  /\ saved' = proc
  /\ UNCHANGED <<proc, next_version, reverted, function, cfunc_hashtable, fn_hashkey,
                 upl_cache_htab, calls>>

Rollback ==
  /\ proc' = saved
  /\ reverted' = reverted \union {f \in Fn : proc[f] # saved[f]}
  /\ UNCHANGED <<saved, next_version, function, cfunc_hashtable, fn_hashkey,
                 upl_cache_htab, calls>>

Call(k) ==
  \E fn_extra \in FnExtra(k) : \E s \in CompiledInto(k, fn_extra) :
    \/ CallCached(k, fn_extra, s)
    \/ \E outcome \in {"compiled", "failed", "skipped"} : CallMiss(k, fn_extra, s, outcome)
    \/ CallEventTrigger(k, fn_extra, s)

Next ==
  \/ \E k \in Key : Call(k)
  \/ \E k \in Key : \E s \in CompiledInto(k, NoStruct) : uplpgsql_validator(k, s)
  \/ Leave
  \/ \E f \in Fn : CreateOrReplace(f)
  \/ Commit
  \/ Rollback

Spec == Init /\ [][Next]_vars

----------------------------------------------------------------------------
(* Properties                                                                *)

(* uplpgsql_handler.c, "Mark the function as busy, so it can't be deleted      *)
(* from under us": as long as a call is running, the struct it entered keeps   *)
(* the tree it had, whatever is replaced, rolled back or called meanwhile.     *)
BusyFunctionsKeepTheirTree ==
  \A i \in DOMAIN calls : function[calls[i].func].tree = calls[i].tree

(* use_count counts the calls that are running on the struct, through errors,  *)
(* recursion and rebuilding: one too few frees a tree that is in use, one too  *)
(* many leaks every later version.                                             *)
UseCountsMatchCalls ==
  \A s \in Struct :
    function[s].use_count = Cardinality({i \in DOMAIN calls : calls[i].func = s})

(* func->cur_estate, from which the parser hooks resolve variables, is that of *)
(* the innermost call running on the struct.                                   *)
CurEstateIsInnermost ==
  \A s \in Struct :
    LET on == {i \in DOMAIN calls : calls[i].func = s}
    IN  IF on = {} THEN function[s].cur_estate = 0
        ELSE function[s].cur_estate \in on /\ \A i \in on : i <= function[s].cur_estate

(* README.md, "a CREATE OR REPLACE recompiles": what a call runs was made from *)
(* the version of the function that was visible when the call was made.        *)
RunsVisibleVersion ==
  \A i \in DOMAIN calls : calls[i].code.version = calls[i].version

RunsLiveTree(act) == act.code.func = act.func /\ act.code.tree = function[act.func].tree

(* upl_cache.c, "the JIT'd code has AST node pointers embedded ... If the       *)
(* compiler recreated the struct, those embedded pointers are dangling": as     *)
(* long as no ROLLBACK gave the function an earlier version back, a call runs   *)
(* code whose embedded tree is the live tree of its struct.                     *)
CodeEmbedsLiveTree ==
  \A i \in DOMAIN calls : calls[i].fn \notin reverted => RunsLiveTree(calls[i])
=============================================================================
