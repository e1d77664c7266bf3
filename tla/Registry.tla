------------------------------- MODULE Registry -------------------------------
(***************************************************************************)
(* Register of base/register.h, with the lookup of base/allocator.cc, and  *)
(* GeneralFactory of base/general_factory.h.  Both are filled by static    *)
(* initialisers, which run in any order before main, interleaved with      *)
(* initialisers that already look names up or log; the logger itself, g_date, *)
(* is made by one of them.                                                 *)
(***************************************************************************)
EXTENDS Integers, FiniteSets, Sequences

CONSTANTS Names,      \* names in the register
          Classes,    \* names in the factory
          Factories,  \* GeneralClassFactoryImpl objects
          Users,      \* pieces of code that keep what Find returned
          MaxEntries, \* bound: the number of OPENMI_REGISTER_OBJECT statements
          MaxAliases  \* bound: the number of calls of AddAlias

ASSUME RegistryAssumption == MaxEntries \in Nat /\ MaxAliases \in Nat

VARIABLES func_mapper_,   \* Register: name -> position in entry_list_
          entry_list_,    \* Register: the names of the entries made; each has a func of its own
          deletes,        \* how often each of them was deleted
          class_mapper_,  \* GeneralFactory: class name -> factory
          found,          \* the entry that each user keeps, or Null
          logger,         \* g_date has been constructed
          outcome,        \* "running", "exited", or why the process died
          aliased         \* history: the calls of AddAlias that returned

vars == <<func_mapper_, entry_list_, deletes, class_mapper_, found, logger, outcome, aliased>>
register == <<func_mapper_, entry_list_, deletes, aliased>>

Null == 0
Entries == DOMAIN entry_list_

\* f[k] = v of a map, and the same only if k is not there yet.
Assigned(f, k, v) == [x \in DOMAIN f \cup {k} |-> IF x = k THEN v ELSE f[x]]
Inserted(f, k, v) == [x \in DOMAIN f \cup {k} |-> IF x \in DOMAIN f THEN f[x] ELSE v]

RegistryInit ==
    /\ func_mapper_ = <<>> /\ entry_list_ = <<>> /\ deletes = <<>>
    /\ class_mapper_ = <<>>
    /\ found = [u \in Users |-> Null]
    /\ logger = FALSE /\ outcome = "running"
    /\ aliased = {}

\* Mutant: the entry that loses its name is deleted.
REGISTERDeletes(name) ==
    /\ entry_list_' = Append(entry_list_, name)
    /\ func_mapper_' = Assigned(func_mapper_, name, Len(entry_list_'))
    /\ deletes' = Append([e \in Entries |-> IF name \in DOMAIN func_mapper_ /\ func_mapper_[name] = e
                                            THEN deletes[e] + 1 ELSE deletes[e]], 0)
    /\ UNCHANGED <<class_mapper_, found, logger, outcome, aliased>>

\* OPENMI_REGISTER_OBJECT(...).SetFunction(func): a name that is taken is
\* taken again; the runtime_error is constructed and not thrown.
REGISTER(name) ==
    /\ entry_list_' = Append(entry_list_, name)
    /\ func_mapper_' = Assigned(func_mapper_, name, Len(entry_list_'))
    /\ deletes' = Append(deletes, 0)
    /\ UNCHANGED <<class_mapper_, found, logger, outcome, aliased>>

\* Mutant: the alias is given away a second time.
AddAliasAnyway(key, alias) ==
    /\ \/ /\ key \in DOMAIN func_mapper_
          /\ func_mapper_' = Assigned(func_mapper_, alias, func_mapper_[key])
          /\ aliased' = aliased \cup {[key |-> key, alias |-> alias, at |-> Len(entry_list_),
                                       taken |-> alias \in DOMAIN func_mapper_]}
          /\ UNCHANGED outcome
       \/ /\ key \notin DOMAIN func_mapper_
          /\ outcome' = "out of range" /\ UNCHANGED <<func_mapper_, aliased>>
    /\ UNCHANGED <<entry_list_, deletes, class_mapper_, found, logger>>

\* An alias that is taken stays with its entry; again the runtime_error is
\* not thrown.  at() does throw for an unknown key.
AddAlias(key, alias) ==
    /\ \/ /\ key \in DOMAIN func_mapper_
          /\ func_mapper_' = Inserted(func_mapper_, alias, func_mapper_[key])
          /\ aliased' = aliased \cup {[key |-> key, alias |-> alias, at |-> Len(entry_list_),
                                       taken |-> alias \in DOMAIN func_mapper_]}
          /\ UNCHANGED outcome
       \/ /\ key \notin DOMAIN func_mapper_
          /\ outcome' = "out of range" /\ UNCHANGED <<func_mapper_, aliased>>
    /\ UNCHANGED <<entry_list_, deletes, class_mapper_, found, logger>>

\* A LOG statement; g_date is a null pointer until logging.cc is initialised.
Log == outcome' = IF logger THEN outcome ELSE "null pointer in LOG"

\* Find, which logs an unknown name and returns NULL.  cpu_allocator logs it
\* once more; for a known name it calls func() and keeps nothing.
Find(u, name) ==
    /\ IF name \in DOMAIN func_mapper_
       THEN found' = [found EXCEPT ![u] = func_mapper_[name]] /\ UNCHANGED outcome
       ELSE found' = [found EXCEPT ![u] = Null] /\ Log
    /\ UNCHANGED <<register, class_mapper_, logger>>

\* Find(name)->func() by the pointer that u has kept.
Call(u) ==
    /\ outcome' = IF found[u] = Null THEN "null pointer"
                  ELSE IF deletes[found[u]] > 0 THEN "use after free"
                  ELSE outcome
    /\ UNCHANGED <<register, class_mapper_, found, logger>>

\* The constructor of GeneralClassRegister, which logs before it calls
\* RegisterClass; a name that is taken stays with its factory.
RegisterClass(class, f) ==
    /\ Log
    /\ class_mapper_' = IF logger THEN Inserted(class_mapper_, class, f) ELSE class_mapper_
    /\ UNCHANGED <<register, found, logger>>

\* CreateObj of a class the factory does not know: it logs and returns null.
CreateObjFails(class) ==
    /\ class \notin DOMAIN class_mapper_
    /\ Log
    /\ UNCHANGED <<register, class_mapper_, found, logger>>

\* The initialiser of g_date.
InitLogger ==
    /\ ~logger /\ logger' = TRUE
    /\ UNCHANGED <<register, class_mapper_, found, outcome>>

\* ~Register, when the process exits.
Destructor ==
    /\ deletes' = [e \in Entries |-> deletes[e] + 1]
    /\ outcome' = "exited"
    /\ UNCHANGED <<func_mapper_, entry_list_, aliased, class_mapper_, found, logger>>

Next ==
    \/ /\ outcome = "running"
       /\ \/ \E name \in Names : Len(entry_list_) < MaxEntries /\ REGISTER(name)
          \/ \E key, alias \in Names : Cardinality(aliased) < MaxAliases /\ AddAlias(key, alias)
          \/ \E u \in Users, name \in Names : Find(u, name)
          \/ \E class \in Classes, f \in Factories : RegisterClass(class, f)
          \/ \E class \in Classes : CreateObjFails(class)
          \/ InitLogger
          \/ Destructor
    \/ outcome \in {"running", "exited"} /\ \E u \in Users : Call(u)

Spec == RegistryInit /\ [][Next]_vars

------------------------------------------------------------------------------
(* Every entry is found under the name it was registered with: a second    *)
(* registration of a name is an error, as the message "already registered"  *)
(* of __REGISTER__ says.  The message is built and not thrown.              *)
RegisteredOnce == \A e \in Entries : func_mapper_[entry_list_[e]] = e

(* After AddAlias(key, alias) both names denote one entry, until one of     *)
(* them is registered anew, unless the alias was taken before: then the     *)
(* call did nothing and said nothing.                                       *)
AliasesAgree ==
    \A a \in aliased :
        \/ func_mapper_[a.key] = func_mapper_[a.alias]
        \/ a.taken
        \/ \E e \in (a.at + 1)..Len(entry_list_) : entry_list_[e] \in {a.key, a.alias}

(* A pointer that Find returned stays good as long as the process runs,     *)
(* even if its name is registered again, and each entry is deleted exactly  *)
(* once, when the process exits, however many names it has or has lost.     *)
EntriesOutliveUsers ==
    \/ \A e \in Entries : deletes[e] = 0 /\ outcome # "use after free"
    \/ \A e \in Entries : deletes[e] = 1 /\ outcome \notin {"running", "null pointer in LOG", "out of range"}
===============================================================================
