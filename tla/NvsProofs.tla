------------------------------- MODULE NvsProofs -------------------------------
(***************************************************************************)
(* Theorems about Nvs, for every set of values and of valid values.        *)
(***************************************************************************)
EXTENDS Nvs, TLAPS

(* The defaults, and a valid configuration once its empty name is replaced,  *)
(* are valid configurations. *)
LEMMA DefaultValid == Default \in Configs /\ Valid(Default)
BY NvsAssumption DEF Default, Configs, Valid

LEMMA NamedValid ==
  ASSUME NEW c \in Configs, Valid(c)
  PROVE  Named(c) \in Configs /\ Valid(Named(c))
<1>1. OsdName \in Names /\ OsdName \in ValidNames BY NvsAssumption
<1>2. CASE c.osd = NoName
  BY <1>1, <1>2 DEF Named, Configs, Valid
<1>3. CASE c.osd # NoName
  BY <1>3 DEF Named
<1> QED BY <1>2, <1>3

(* Migration keeps a configuration one, with a type the type table has. *)
LEMMA MigratedConfig ==
  ASSUME NEW c \in Configs
  PROVE  Migrated(c) \in Configs
BY NvsAssumption DEF Migrated, Configs

(* A valid configuration has nothing to migrate. *)
LEMMA MigratedValid ==
  ASSUME NEW c \in Configs, Valid(c)
  PROVE  Migrated(c) = c
BY DEF Migrated, Valid

(* What is read is valid, whatever is stored. *)
LEMMA ReadValid ==
  ASSUME flash \in [state : {"stored", "erased", "torn"}, config : Configs]
  PROVE  Read \in Configs /\ Valid(Read)
<1>1. Migrated(flash.config) \in Configs BY MigratedConfig
<1> QED BY <1>1, DefaultValid DEF Read

(* What a command can make of a valid configuration is one as well. *)
LEMMA CandidatesConfigs ==
  ASSUME config \in Configs
  PROVE  Candidates \subseteq Configs
BY NvsAssumption DEF Candidates, Configs

--------------------------------------------------------------------------------
(* The inductive invariant: the flash holds the last save, or what the first *)
(* boot found, except while it is written and after a failure in between.    *)

Found == IF broken THEN Default ELSE saved

IInv ==
  /\ TypeOK /\ ConfigIsValid
  /\ save \in {"none", "asked"} => Read = Found

(* The write under way leaves nothing a boot could read. *)
Writing == save \in {"erasing", "programming"} => flash.state # "stored"

LEMMA Initially == Init => IInv /\ Writing
<1> SUFFICES ASSUME Init PROVE IInv /\ Writing
  OBVIOUS
<1>1. flash \in [state : {"stored", "erased", "torn"}, config : Configs]
  BY DefaultValid DEF Init, Unreadable, Stored
<1>2. Read \in Configs /\ Valid(Read) BY <1>1, ReadValid
<1>3. config \in Configs /\ Valid(config) BY <1>2, NamedValid DEF Init, Loaded
<1> QED BY <1>1, <1>2, <1>3 DEF Init, IInv, Writing, TypeOK, ConfigIsValid, Found

LEMMA Step == IInv /\ Writing /\ [Next]_vars => IInv' /\ Writing'
<1> SUFFICES ASSUME IInv, Writing, [Next]_vars PROVE IInv' /\ Writing'
  OBVIOUS
<1>t. TypeOK /\ ConfigIsValid BY DEF IInv
<1> USE <1>t
<1>s. ASSUME UNCHANGED flash PROVE Read' = Read
  BY <1>s DEF Read
<1>1. ASSUME NEW c \in Configs, Set(c) PROVE IInv' /\ Writing'
  BY <1>1, <1>s DEF Set, IInv, Writing, TypeOK, ConfigIsValid, Found
<1>2. ASSUME NEW p \in Physicals, TvOn(p) PROVE IInv' /\ Writing'
  <2>1. config' \in Configs /\ Valid(config')
    BY <1>2, NvsAssumption DEF TvOn, TypeOK, ConfigIsValid, Configs, Valid
  <2> QED BY <1>2, <2>1, <1>s DEF TvOn, IInv, Writing, TypeOK, ConfigIsValid, Found
<1>3. CASE Save
  BY <1>3, <1>s DEF Save, IInv, Writing, TypeOK, ConfigIsValid, Found
<1>u. Unreadable("torn") \in [state : {"stored", "erased", "torn"}, config : Configs]
      /\ Unreadable("torn").state = "torn"
  BY DefaultValid DEF Unreadable
<1>4. CASE Erase
  <2>1. CASE IdleAgain
    BY <1>4, <2>1, <1>u DEF Erase, IdleAgain, IInv, Writing, TypeOK, ConfigIsValid
  <2>2. CASE ~IdleAgain
    BY <1>4, <2>2, <1>s DEF Erase, IInv, Writing, TypeOK, ConfigIsValid, Found
  <2> QED BY <2>1, <2>2
<1>5. CASE Program
  BY <1>5, <1>u DEF Program, IInv, Writing, TypeOK, ConfigIsValid
<1>6. CASE Written
  <2>1. flash' \in [state : {"stored", "erased", "torn"}, config : Configs]
        /\ flash'.state = "stored" /\ flash'.config = config
    BY <1>6 DEF Written, Stored, TypeOK
  <2>2. Read' = config
    BY <2>1, MigratedValid DEF Read, TypeOK, ConfigIsValid
  <2> QED BY <1>6, <2>1, <2>2 DEF Written, IInv, Writing, TypeOK, ConfigIsValid, Found
<1>7. CASE Bus
  BY <1>7, <1>s DEF Bus, IInv, Writing, TypeOK, ConfigIsValid, Found
<1>8. CASE PowerFails
  <2>1. flash' \in [state : {"stored", "erased", "torn"}, config : Configs]
    BY <1>8, DefaultValid DEF PowerFails, Unreadable, TypeOK
  <2>2. Read \in Configs /\ Valid(Read) BY ReadValid DEF TypeOK
  <2>3. config' \in Configs /\ Valid(config')
    BY <1>8, <2>2, NamedValid, DefaultValid DEF PowerFails
  <2>4. CASE save \in {"erasing", "programming"}
    <3>0. flash' \in {Unreadable("torn"), Unreadable("erased")}
      BY <1>8, <2>4 DEF PowerFails
    <3>1. flash'.state # "stored" BY <3>0 DEF Unreadable
    <3>b. broken' BY <1>8, <2>4, Zenon DEF PowerFails
    <3>2. Read' = Default BY <3>1 DEF Read
    <3> QED BY <1>8, <2>1, <2>3, <3>1, <3>2, <3>b
         DEF PowerFails, IInv, Writing, TypeOK, ConfigIsValid, Found
  <2>5. CASE save \in {"none", "asked"}
    <3>1. UNCHANGED flash /\ broken' = broken
      BY <1>8, <2>5 DEF PowerFails, TypeOK
    <3>2. Read' = Found' BY <3>1, <2>5, <1>s, <1>8 DEF IInv, PowerFails, Found
    <3> QED BY <1>8, <2>1, <2>3, <3>1, <3>2
         DEF PowerFails, IInv, Writing, TypeOK, ConfigIsValid
  <2> QED BY <2>4, <2>5 DEF TypeOK
<1>9. CASE UNCHANGED vars
  BY <1>9, <1>s DEF vars, IInv, Writing, TypeOK, ConfigIsValid, Found
<1> QED BY <1>1, <1>2, <1>3, <1>4, <1>5, <1>6, <1>7, <1>8, <1>9 DEF Next

--------------------------------------------------------------------------------

(* Every variable keeps its type. *)
THEOREM Typed == Spec => []TypeOK
<1>1. IInv => TypeOK BY DEF IInv
<1> QED BY <1>1, Initially, Step, PTL DEF Spec

(* What runs and what is saved always passes cec_config_valid, whatever was  *)
(* in the flash at first and wherever power fails.                           *)
THEOREM ConfigValid == Spec => []ConfigIsValid
<1>1. IInv => ConfigIsValid BY DEF IInv
<1> QED BY <1>1, Initially, Step, PTL DEF Spec

(* A boot finds the last complete save, or the defaults after a failure in   *)
(* the middle of one, for every configuration and every number of saves.     *)
THEOREM SavesAreAtomic == Spec => []NothingElseIsFound
<1>1. IInv => NothingElseIsFound
  BY DEF IInv, NothingElseIsFound, Loaded, Found
<1> QED BY <1>1, Initially, Step, PTL DEF Spec

(* An erase begins, and the flash changes otherwise than in the course of a  *)
(* write, in no step during a frame.                                         *)
THEOREM EraseAfterIdle == Spec => EraseBeginsIdle
<1>1. ASSUME [Next]_vars, save \notin {"erasing", "programming"},
             save' = "erasing" \/ flash' # flash
      PROVE  ~bus
  <2>1. CASE Erase
    BY <1>1, <2>1 DEF Erase, IdleAgain
  <2>2. CASE PowerFails
    BY <1>1, <2>2 DEF PowerFails
  <2>3. ASSUME NEW c \in Configs, Set(c) PROVE ~bus
    BY <1>1, <2>3 DEF Set
  <2>4. ASSUME NEW p \in Physicals, TvOn(p) PROVE ~bus
    BY <1>1, <2>4 DEF TvOn
  <2>5. CASE Save \/ Bus
    BY <1>1, <2>5 DEF Save, Bus
  <2>6. CASE Program \/ Written
    BY <1>1, <2>6 DEF Program, Written
  <2>7. CASE UNCHANGED vars
    BY <1>1, <2>7 DEF vars
  <2> QED BY <1>1, <2>1, <2>2, <2>3, <2>4, <2>5, <2>6, <2>7 DEF Next
<1>2. [Next]_vars
        => (save \notin {"erasing", "programming"} /\ (save' = "erasing" \/ flash' # flash)
              => ~bus)
  BY <1>1
<1> QED BY <1>2, PTL DEF Spec, EraseBeginsIdle
================================================================================
