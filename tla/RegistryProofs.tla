----------------------------- MODULE RegistryProofs -----------------------------
(***************************************************************************)
(* Safety of Registry for any names, classes, factories and users, and for *)
(* any number of registrations and aliases.                                *)
(***************************************************************************)
EXTENDS Registry, TLAPS, SequenceTheorems

\* What a call of AddAlias leaves in the history.
AliasRecord == [key : Names, alias : Names, at : Nat, taken : BOOLEAN]

\* Both tables are maps to what was registered.
TypeInv ==
    /\ entry_list_ \in Seq(Names)
    /\ DOMAIN func_mapper_ \subseteq Names
    /\ func_mapper_ \in [DOMAIN func_mapper_ -> 1..Len(entry_list_)]
    /\ deletes \in Seq(Nat) /\ Len(deletes) = Len(entry_list_)
    /\ DOMAIN class_mapper_ \subseteq Classes
    /\ class_mapper_ \in [DOMAIN class_mapper_ -> Factories]
    /\ found \in [Users -> 0..Len(entry_list_)]
    /\ logger \in BOOLEAN
    /\ outcome \in {"running", "exited", "null pointer in LOG", "null pointer", "out of range",
                   "use after free"}
    /\ aliased \subseteq AliasRecord

\* Names that were aliased are in the register.
AliasInv ==
    \A a \in aliased : /\ a.key \in DOMAIN func_mapper_
                       /\ a.alias \in DOMAIN func_mapper_
                       /\ a.at <= Len(entry_list_)

\* Entries are deleted by the exit of the process and by nothing else.
DeleteInv ==
    \/ /\ \A e \in 1..Len(entry_list_) : deletes[e] = 0
       /\ outcome \in {"running", "null pointer in LOG", "null pointer", "out of range"}
    \/ /\ \A e \in 1..Len(entry_list_) : deletes[e] = 1
       /\ outcome \in {"exited", "use after free", "null pointer"}

Inv == TypeInv /\ AliasInv /\ DeleteInv /\ AliasesAgree

\* A map without keys.
LEMMA EmptyMap == DOMAIN << >> = {} /\ \A S : << >> \in [DOMAIN << >> -> S]
<1>1. << >> \in Seq({}) /\ Len(<< >>) = 0
  BY EmptySeq
<1>2. << >> \in [1..0 -> {}] /\ DOMAIN << >> = 1..0
  BY <1>1, LenProperties
<1>3. 1..0 = {}
  OBVIOUS
<1> QED
  BY <1>2, <1>3

\* Static initialisation begins with empty tables.
LEMMA InitInv == RegistryInit => Inv
<1> SUFFICES ASSUME RegistryInit PROVE Inv
  OBVIOUS
<1> USE EmptySeq DEF RegistryInit
<1>1. TypeInv
  <2>1. func_mapper_ \in [DOMAIN func_mapper_ -> 1..Len(entry_list_)] /\ DOMAIN func_mapper_ = {}
    BY Zenon, EmptyMap
  <2>2. class_mapper_ \in [DOMAIN class_mapper_ -> Factories] /\ DOMAIN class_mapper_ = {}
    BY Zenon, EmptyMap
  <2>3. << >> \in Seq(Names) /\ << >> \in Seq(Nat)
    BY Zenon
  <2>4. found \in [Users -> 0..Len(entry_list_)]
    BY DEF Null
  <2> QED
    BY <2>1, <2>2, <2>3, <2>4 DEF TypeInv
<1>2. AliasInv /\ DeleteInv /\ AliasesAgree
  BY DEF AliasInv, DeleteInv, AliasesAgree
<1> QED
  BY <1>1, <1>2 DEF Inv

\* A registration takes its name for the new entry, whoever had it.
LEMMA RegisterInv ==
  ASSUME Inv, outcome = "running", NEW name \in Names, REGISTER(name)
  PROVE  Inv'
<1> USE DEF Inv
<1> DEFINE n == Len(entry_list_)
<1>1. /\ n \in Nat
      /\ entry_list_' \in Seq(Names) /\ Len(entry_list_') = n + 1
      /\ \A e \in 1..n : entry_list_'[e] = entry_list_[e]
      /\ entry_list_'[n + 1] = name
  BY AppendProperties, LenProperties DEF REGISTER, TypeInv
<1>2. /\ DOMAIN func_mapper_' = DOMAIN func_mapper_ \cup {name}
      /\ func_mapper_'[name] = n + 1
      /\ \A x \in DOMAIN func_mapper_ : x # name => func_mapper_'[x] = func_mapper_[x]
      /\ func_mapper_' = [x \in DOMAIN func_mapper_' |-> func_mapper_'[x]]
  BY <1>1 DEF REGISTER, Assigned
<1>3. /\ deletes' \in Seq(Nat) /\ Len(deletes') = n + 1
      /\ \A e \in 1..(n + 1) : deletes'[e] = IF e = n + 1 THEN 0 ELSE deletes[e]
  BY <1>1, AppendProperties DEF REGISTER, TypeInv
<1>4. \A x \in DOMAIN func_mapper_ : func_mapper_[x] \in 1..n
  BY DEF TypeInv
<1>5. TypeInv'
  <2>1. func_mapper_' \in [DOMAIN func_mapper_' -> 1..(n + 1)]
    BY <1>1, <1>2, <1>4
  <2>2. found' \in [Users -> 0..(n + 1)]
    BY <1>1 DEF REGISTER, TypeInv
  <2>3. DOMAIN func_mapper_' \subseteq Names
    BY <1>2 DEF TypeInv
  <2> QED
    BY <1>1, <1>3, <2>1, <2>2, <2>3 DEF REGISTER, TypeInv
<1>8. AliasInv' /\ AliasesAgree'
  <2> SUFFICES ASSUME NEW a \in aliased
               PROVE  /\ a.key \in DOMAIN func_mapper_' /\ a.alias \in DOMAIN func_mapper_'
                      /\ a.at <= n + 1
                      /\ \/ func_mapper_'[a.key] = func_mapper_'[a.alias]
                         \/ a.taken
                         \/ \E e \in (a.at + 1)..(n + 1) : entry_list_'[e] \in {a.key, a.alias}
    BY <1>1 DEF REGISTER, AliasInv, AliasesAgree
  <2>1. /\ a.key \in DOMAIN func_mapper_ /\ a.alias \in DOMAIN func_mapper_
        /\ a.at \in Nat /\ a.at <= n
    BY DEF AliasInv, TypeInv, AliasRecord
  <2>2. CASE name \in {a.key, a.alias}
    BY <1>1, <1>2, <2>1, <2>2
  <2>3. CASE name \notin {a.key, a.alias} /\ \E e \in (a.at + 1)..n : entry_list_[e] \in {a.key, a.alias}
    BY <1>1, <1>2, <2>1, <2>3
  <2>4. CASE name \notin {a.key, a.alias} /\ (a.taken \/ func_mapper_[a.key] = func_mapper_[a.alias])
    BY <1>1, <1>2, <2>1, <2>4
  <2> QED
    BY <1>1, <2>1, <2>2, <2>3, <2>4 DEF AliasesAgree
<1>9. DeleteInv'
  BY <1>1, <1>3 DEF REGISTER, DeleteInv
<1> QED
  BY <1>5, <1>8, <1>9

\* AddAlias changes what no name denotes.
LEMMA AddAliasInv ==
  ASSUME Inv, NEW key \in Names, NEW alias \in Names, AddAlias(key, alias),
         key \in DOMAIN func_mapper_
  PROVE  Inv'
<1> USE DEF Inv
<1>1. /\ key \in DOMAIN func_mapper_
      /\ DOMAIN func_mapper_' = DOMAIN func_mapper_ \cup {alias}
      /\ \A x \in DOMAIN func_mapper_ : func_mapper_'[x] = func_mapper_[x]
      /\ alias \notin DOMAIN func_mapper_ => func_mapper_'[alias] = func_mapper_[key]
      /\ func_mapper_' = [x \in DOMAIN func_mapper_' |-> func_mapper_'[x]]
      /\ UNCHANGED <<entry_list_, deletes, found, outcome, logger>>
  BY DEF AddAlias, Inserted
<1>2. \A x \in DOMAIN func_mapper_ : func_mapper_[x] \in 1..Len(entry_list_)
  BY DEF TypeInv
<1>3. Len(entry_list_) \in Nat
  BY LenProperties DEF TypeInv
<1>4. PICK new \in AliasRecord : /\ aliased' = aliased \cup {new}
                                 /\ new.key = key /\ new.alias = alias /\ new.at = Len(entry_list_)
                                 /\ new.taken = (alias \in DOMAIN func_mapper_)
  <2> DEFINE new == [key |-> key, alias |-> alias, at |-> Len(entry_list_),
                     taken |-> alias \in DOMAIN func_mapper_]
  <2>1. new \in AliasRecord
    BY <1>3 DEF AliasRecord
  <2> QED
    BY <2>1 DEF AddAlias
<1>5. TypeInv'
  <2>1. func_mapper_' \in [DOMAIN func_mapper_' -> 1..Len(entry_list_)]
    BY <1>1, <1>2
  <2> QED
    BY <1>1, <1>4, <2>1 DEF AddAlias, TypeInv
<1>7. DeleteInv'
  BY <1>1 DEF DeleteInv
<1>8. AliasInv'
  BY <1>1, <1>3, <1>4 DEF AliasInv
<1>9. AliasesAgree'
  <2> SUFFICES ASSUME NEW a \in aliased'
               PROVE  \/ func_mapper_'[a.key] = func_mapper_'[a.alias]
                      \/ a.taken
                      \/ \E e \in (a.at + 1)..Len(entry_list_) : entry_list_[e] \in {a.key, a.alias}
    BY <1>1 DEF AliasesAgree
  <2>1. CASE a \in aliased
    BY <1>1, <2>1 DEF AliasInv, AliasesAgree
  <2>2. CASE a = new
    BY <1>1, <1>4, <2>2
  <2> QED
    BY <1>4, <2>1, <2>2
<1> QED
  BY <1>5, <1>7, <1>8, <1>9

\* Looking up, calling and logging change no table.
LEMMA LookUpInv ==
  ASSUME Inv, UNCHANGED <<register, class_mapper_>>, logger' \in BOOLEAN,
         found' \in [Users -> 0..Len(entry_list_)],
         \/ outcome' = outcome
         \/ outcome = "running" /\ outcome' \in {"null pointer in LOG", "out of range"}
         \/ outcome' = "null pointer"
         \/ \E e \in 1..Len(entry_list_) : deletes[e] # 0 /\ outcome' = "use after free"
  PROVE  Inv'
<1> USE DEF Inv
<1>1. TypeInv'
  BY DEF TypeInv, register
<1>2. AliasInv' /\ AliasesAgree'
  BY DEF AliasInv, AliasesAgree, register
<1>3. DeleteInv'
  <2>1. UNCHANGED <<entry_list_, deletes>>
    BY DEF register
  <2>2. CASE \E e \in 1..Len(entry_list_) : deletes[e] # 0 /\ outcome' = "use after free"
    BY <2>1, <2>2 DEF DeleteInv
  <2>3. CASE outcome' = outcome
    BY <2>1, <2>3 DEF DeleteInv
  <2>4. CASE outcome' = "null pointer"
    BY <2>1, <2>4 DEF DeleteInv
  <2>5. CASE outcome = "running" /\ outcome' \in {"null pointer in LOG", "out of range"}
    BY <2>1, <2>5 DEF DeleteInv
  <2> QED
    BY <2>2, <2>3, <2>4, <2>5
<1> QED
  BY <1>1, <1>2, <1>3

\* Find, whether the name is there or not.
LEMMA FindInv ==
  ASSUME Inv, outcome = "running", NEW u \in Users, NEW name \in Names, Find(u, name)
  PROVE  Inv'
<1>1. found' \in [Users -> 0..Len(entry_list_)]
  <2>1. found \in [Users -> 0..Len(entry_list_)] /\ Len(entry_list_) \in Nat
    BY LenProperties DEF Inv, TypeInv
  <2>2. name \in DOMAIN func_mapper_ => func_mapper_[name] \in 1..Len(entry_list_)
    BY DEF Inv, TypeInv
  <2> QED
    BY <2>1, <2>2 DEF Find, Null
<1> QED
  BY <1>1, LookUpInv DEF Find, Log, Inv, TypeInv

\* A call through a pointer that Find returned.
LEMMA CallInv ==
  ASSUME Inv, NEW u \in Users, Call(u)
  PROVE  Inv'
<1>1. found[u] \in 0..Len(entry_list_) /\ Len(entry_list_) \in Nat
  BY LenProperties DEF Inv, TypeInv
<1>2. found[u] # Null => found[u] \in 1..Len(entry_list_)
  BY <1>1 DEF Null
<1>3. \/ outcome' = outcome
      \/ outcome' = "null pointer"
      \/ \E e \in 1..Len(entry_list_) : deletes[e] # 0 /\ outcome' = "use after free"
  <2>1. found[u] # Null => deletes[found[u]] \in Nat
    BY <1>2, ElementOfSeq DEF Inv, TypeInv
  <2>2. \A x \in Nat : x > 0 => x # 0
    OBVIOUS
  <2>3. found[u] # Null /\ deletes[found[u]] > 0 => deletes[found[u]] # 0
    BY <2>1, <2>2, Zenon
  <2> QED
    BY <1>2, <2>3 DEF Call
<1> QED
  BY <1>3, LookUpInv DEF Call, Inv, TypeInv

\* A registration of a class that has a factory changes nothing.
LEMMA RegisterClassInv ==
  ASSUME Inv, outcome = "running", NEW class \in Classes, NEW f \in Factories,
         RegisterClass(class, f)
  PROVE  Inv'
<1> USE DEF Inv
<1>1. CASE ~logger
  BY <1>1, LookUpInv DEF RegisterClass, Log, TypeInv
<1>2. CASE logger
  <2>1. UNCHANGED <<register, found, logger, outcome>>
    BY <1>2 DEF RegisterClass, Log
  <2>2. /\ DOMAIN class_mapper_' \subseteq Classes
        /\ class_mapper_' \in [DOMAIN class_mapper_' -> Factories]
    BY <1>2 DEF RegisterClass, Inserted, TypeInv
  <2>3. TypeInv'
    BY <2>1, <2>2 DEF TypeInv, register
  <2>4. AliasInv' /\ DeleteInv' /\ AliasesAgree'
    BY <2>1 DEF AliasInv, DeleteInv, AliasesAgree, register
  <2> QED
    BY <2>3, <2>4
<1> QED
  BY <1>1, <1>2

\* The process exits, and every entry is deleted.
LEMMA DestructorInv ==
  ASSUME Inv, outcome = "running", Destructor
  PROVE  Inv'
<1> USE DEF Inv
<1> DEFINE n == Len(entry_list_)
<1>1. n \in Nat /\ Entries = 1..n /\ \A e \in 1..n : deletes[e] = 0
  BY LenProperties DEF Entries, TypeInv, DeleteInv
<1>2. deletes' \in [1..n -> Nat] /\ \A e \in 1..n : deletes'[e] = 1
  BY <1>1 DEF Destructor
<1>3. deletes' \in Seq(Nat) /\ Len(deletes') = n
  <2>1. deletes' \in Seq(Nat)
    BY <1>1, <1>2, SeqDef
  <2>2. DOMAIN deletes' = 1..n /\ DOMAIN deletes' = 1..Len(deletes') /\ Len(deletes') \in Nat
    BY <1>2, <2>1, LenProperties
  <2> QED
    BY <1>1, <2>1, <2>2
<1>4. TypeInv'
  BY <1>3 DEF Destructor, TypeInv
<1>5. AliasInv' /\ AliasesAgree'
  BY DEF Destructor, AliasInv, AliasesAgree
<1>6. DeleteInv'
  BY <1>2 DEF Destructor, DeleteInv
<1> QED
  BY <1>4, <1>5, <1>6

\* Every step preserves the invariant.
LEMMA NextInv == Inv /\ [Next]_vars => Inv'
<1> SUFFICES ASSUME Inv, [Next]_vars PROVE Inv'
  OBVIOUS
<1>1. ASSUME outcome = "running", NEW class \in Classes, CreateObjFails(class) PROVE Inv'
  BY <1>1, LookUpInv DEF CreateObjFails, Log, Inv, TypeInv
<1>2. ASSUME InitLogger PROVE Inv'
  BY <1>2, LookUpInv DEF InitLogger, Inv, TypeInv
<1>3. ASSUME UNCHANGED vars PROVE Inv'
  BY <1>3, LookUpInv DEF vars, register, Inv, TypeInv
<1>4. ASSUME outcome = "running", NEW key \in Names, NEW alias \in Names, AddAlias(key, alias),
             key \notin DOMAIN func_mapper_
      PROVE  Inv'
  BY <1>4, LookUpInv DEF AddAlias, register, Inv, TypeInv
<1> QED
  BY <1>1, <1>2, <1>3, <1>4, RegisterInv, AddAliasInv, FindInv, CallInv, RegisterClassInv, DestructorInv
  DEF Next

\* Inv holds in every state of every behaviour.
LEMMA Invariance == Spec => []Inv
<1> QED
  BY InitInv, NextInv, PTL DEF Spec

\* An alias that was free goes with its key until one of the two is
\* registered again.
THEOREM AliasesCorrect == Spec => []AliasesAgree
<1>1. Inv => AliasesAgree
  BY DEF Inv
<1> QED
  BY <1>1, Invariance, PTL

\* No entry is deleted before the process exits, and none twice, however
\* many names it has had.
THEOREM EntriesSafe == Spec => []EntriesOutliveUsers
<1>1. Inv => EntriesOutliveUsers
  <2> SUFFICES ASSUME Inv PROVE EntriesOutliveUsers
    OBVIOUS
  <2>1. Entries = 1..Len(entry_list_)
    BY LenProperties DEF Entries, Inv, TypeInv
  <2> QED
    BY <2>1 DEF Inv, DeleteInv, EntriesOutliveUsers
<1> QED
  BY <1>1, Invariance, PTL
===============================================================================
