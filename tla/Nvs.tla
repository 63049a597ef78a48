----------------------------------- MODULE Nvs -----------------------------------
(***************************************************************************)
(* The stored configuration: nvs.c and cec-config.c, with the commands     *)
(* that change and save it.  Power may fail at any moment, in the middle   *)
(* of erasing or programming too.  A checksum that fits contents that were *)
(* not written whole is taken not to occur.                                *)
(***************************************************************************)
EXTENDS Naturals

CONSTANTS
  Delays, Physicals, Logicals, Types, Names, \* values a configuration may hold
  ValidDelays, ValidPhysicals,  \* at most 30000; what cec_physical_address_valid accepts
  ValidNames,                   \* terminated and printable
  NoPhysical, Unregistered, NoName, OsdName, \* 0, 15, "" and CEC_OSD_NAME
  DefaultDelay

NvsTypes == {"tv", "recording", "reserved", "tuner", "playback", "audio"}

ASSUME NvsAssumption ==
  /\ ValidDelays \subseteq Delays /\ DefaultDelay \in ValidDelays
  /\ ValidPhysicals \subseteq Physicals \ {NoPhysical} /\ NoPhysical \in Physicals
  /\ Unregistered \in Logicals /\ {"playback"} \subseteq Types /\ Types \subseteq NvsTypes
  /\ ValidNames \subseteq Names /\ {NoName, OsdName} \subseteq ValidNames

VARIABLES
  config,   \* the parser's copy
  flash,    \* [state |-> "stored", config |-> ...], or "erased" or "torn"
  save,     \* progress of exec_save and nvs_save_config
  bus,      \* a frame is on the line
  saved,    \* history: the configuration of the last complete save
  broken    \* history: power failed while the flash was written

vars == <<config, flash, save, bus, saved, broken>>

Configs == [delay : Delays, physical : Physicals, logical : Logicals, type : Types, osd : Names]

Default == [delay |-> DefaultDelay, physical |-> NoPhysical, logical |-> Unregistered,
            type |-> "playback", osd |-> NoName]

Valid(c) ==
  /\ c.delay \in ValidDelays /\ c.type \notin {"tv", "reserved"}
  /\ c.physical \in ValidPhysicals \cup {NoPhysical} /\ c.osd \in ValidNames

Stored(c) == [state |-> "stored", config |-> c]
Unreadable(state) == [state |-> state, config |-> Default]

--------------------------------------------------------------------------------
(* nvs_load_config.  Both tasks that load it do so before anything else.     *)

(* A television, which older firmware could be set to, becomes a player.     *)
Migrated(c) == IF c.type = "tv" THEN [c EXCEPT !.type = "playback"] ELSE c

Read ==
  IF flash.state = "stored" /\ Valid(Migrated(flash.config)) THEN Migrated(flash.config)
  ELSE Default

Named(c) == IF c.osd = NoName THEN [c EXCEPT !.osd = OsdName] ELSE c
Loaded == Named(Read)

--------------------------------------------------------------------------------
(* Commands, while no power operation runs.                                  *)

Candidates ==
     {[config EXCEPT !.osd = n] : n \in ValidNames}
  \cup {[config EXCEPT !.type = t, !.logical = Unregistered] : t \in Types \cap {"playback", "recording"}}
  \cup {[config EXCEPT !.delay = d] : d \in ValidDelays}
  \cup {[config EXCEPT !.physical = p] : p \in ValidPhysicals}
  \cup {[config EXCEPT !.logical = l] : l \in Logicals}

Set(c) ==
  /\ save = "none" /\ c \in Candidates /\ Valid(c) /\ config' = c
  /\ UNCHANGED <<flash, save, bus, saved, broken>>

(* operation_worker: `tv on` takes its address into the configuration. *)
TvOn(p) ==
  /\ save = "none" /\ p \in ValidPhysicals /\ config' = [config EXCEPT !.physical = p]
  /\ UNCHANGED <<flash, save, bus, saved, broken>>

(* exec_save: a first look at the line, with interrupts enabled. *)
Save ==
  /\ save = "none" /\ ~bus /\ Valid(config) /\ save' = "asked"
  /\ UNCHANGED <<config, flash, bus, saved, broken>>

(* Fault: only the first look counts. *)
IdleEnough == TRUE
IdleAgain == ~bus

(* Fault: the flash is erased before the second look. *)
EraseFirst ==
  /\ save = "asked" /\ flash' = Unreadable("torn")
  /\ save' = IF IdleAgain THEN "erasing" ELSE "none"
  /\ UNCHANGED <<config, bus, saved, broken>>

(* nvs_save_config looks again with interrupts disabled, or gives up. *)
Erase ==
  /\ save = "asked"
  /\ IF IdleAgain THEN save' = "erasing" /\ flash' = Unreadable("torn")
     ELSE save' = "none" /\ UNCHANGED flash
  /\ UNCHANGED <<config, bus, saved, broken>>

Program ==
  /\ save = "erasing" /\ save' = "programming" /\ flash' = Unreadable("torn")
  /\ UNCHANGED <<config, bus, saved, broken>>

Written ==
  /\ save = "programming" /\ save' = "none" /\ flash' = Stored(config) /\ saved' = config
  /\ broken' = FALSE
  /\ UNCHANGED <<config, bus>>

(* Frames of this device and of others begin and end.  Other devices begin   *)
(* them while interrupts are disabled too, and find this one deaf.           *)
Bus ==
  /\ bus' = ~bus
  /\ UNCHANGED <<config, flash, save, saved, broken>>

PowerFails ==
  /\ flash' \in (IF save \in {"erasing", "programming"}
                 THEN {Unreadable("torn"), Unreadable("erased")} ELSE {flash})
  /\ broken' = (broken \/ save \in {"erasing", "programming"})
  /\ save' = "none" /\ bus' = FALSE
  /\ config' = Named(IF flash'.state = "stored" THEN Read ELSE Default)
  /\ UNCHANGED saved

(* What other firmware left in the flash may be anything. *)
Init ==
  /\ flash \in {Unreadable("erased"), Unreadable("torn")} \cup {Stored(c) : c \in Configs}
  /\ config = Loaded /\ save = "none" /\ bus = FALSE /\ saved = Read /\ broken = FALSE

Next ==
  \/ \E c \in Configs : Set(c)
  \/ \E p \in Physicals : TvOn(p)
  \/ Save \/ Erase \/ Program \/ Written \/ Bus \/ PowerFails

Spec == Init /\ [][Next]_vars

--------------------------------------------------------------------------------
(* Properties.                                                               *)

TypeOK ==
  /\ config \in Configs /\ saved \in Configs /\ {bus, broken} \subseteq BOOLEAN
  /\ flash \in [state : {"stored", "erased", "torn"}, config : Configs]
  /\ save \in {"none", "asked", "erasing", "programming"}

(* "invalid stored values fall back to defaults" (docs/PROTOCOL.md:148), and *)
(* no command makes the configuration invalid: what runs, and what is saved, *)
(* passes cec_config_valid.                                                  *)
ConfigIsValid == Valid(config) /\ Valid(saved)

(* What the next boot finds is the last complete save, or the defaults when  *)
(* power failed in the middle of one: never a mixture, nor a save lost       *)
(* otherwise.                                                                *)
NothingElseIsFound ==
  save \in {"none", "asked"} => Loaded = Named(IF broken THEN Default ELSE saved)

(* "Save is allowed only while the bus is idle" (docs/PROTOCOL.md:146): what *)
(* a boot would find is given up, by the erase that begins with interrupts   *)
(* disabled, in no step during a frame, whatever the first look saw          *)
(* (nvs.c:109-114).  A frame that begins afterwards is another matter.       *)
EraseBeginsIdle ==
  [][save \notin {"erasing", "programming"} /\ (save' = "erasing" \/ flash' # flash)
       => ~bus]_vars
================================================================================
