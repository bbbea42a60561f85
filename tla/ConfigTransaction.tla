-------------------------- MODULE ConfigTransaction --------------------------
(***************************************************************************)
(* A change of the configuration while the compositor runs: one asked for  *)
(* by an integration (integrations.rs) is applied and saved or refused as  *)
(* a whole (apply_config_with of state.rs, with the keymap of the seat and *)
(* the devices of input_devices.rs); an edit of the files is seen by the   *)
(* watcher and read again after a pause (config.rs).                       *)
(*                                                                         *)
(* Four settings stand for the kinds there are: one compiled into a keymap *)
(* (layout), one that each device may refuse (pointer), one that a restart *)
(* is needed for (mode, of the output), and hot_reload itself (reload).    *)
(* The profile is "user", the backend that of DRM.                         *)
(***************************************************************************)
EXTENDS Naturals

CONSTANTS
    Devices,        \* input devices that may be plugged in
    Capable,        \* those that support the pointer setting
    Layouts,        \* keyboard layouts a configuration may name
    Compilable,     \* those xkb has a keymap for
    Pointers,       \* values of the pointer setting
    Modes,          \* modes of the output
    Automatic,      \* the configuration names no mode
    Defaults,       \* built-in defaults with the files of the system
    Asked,          \* what an integration may ask for
    Edits,          \* what the user may write to config.toml
    Fragments,      \* what the user may write to conf.d
    Broken          \* contents that do not load

Values == [layout |-> Layouts, pointer |-> Pointers,
           mode |-> Modes \cup {Automatic}, reload |-> BOOLEAN]
Config == [layout : Layouts, pointer : Pointers, mode : Modes \cup {Automatic}, reload : BOOLEAN]

ASSUME ConfigAssumption ==
    /\ Capable \subseteq Devices /\ Compilable \subseteq Layouts /\ Automatic \notin Modes
    /\ Asked \subseteq Config /\ Defaults \in Config /\ Defaults.layout \in Compilable
    /\ \A layer \in Edits \cup Fragments : \A f \in DOMAIN layer :
          f \in DOMAIN Values /\ layer[f] \in Values[f]
    /\ Broken \notin Config \cup Edits

VARIABLES
    config,         \* state.config
    file,           \* config.toml of the user
    fragment,       \* conf.d of the user
    edited,         \* config.toml is as the user wrote it
    unread,         \* events of the watcher wait in the channel
    debounce,       \* the timer of the watcher is armed
    refused,        \* the files as they are were refused by a reload
    keymap,         \* layout of the seat's keymap
    plugged,        \* devices of input_devices
    setting,        \* pointer setting in each device
    failed,         \* devices that did not take or take back a setting
    inputChanged    \* input_config_changed

files == <<file, edited, unread>>
devices == <<setting, failed>>
settings == <<config, keymap, inputChanged>>

\* Later layers override earlier ones, setting by setting.
Layered(f) == IF f \in DOMAIN fragment THEN fragment[f]
              ELSE IF f \in DOMAIN file THEN file[f]
              ELSE Defaults[f]
Loads == file # Broken
Loaded == [layout |-> Layered("layout"), pointer |-> Layered("pointer"),
           mode |-> Layered("mode"), reload |-> Layered("reload")]

-----------------------------------------------------------------------------
(* Devices. *)

Present == plugged \cap Capable
Differing(p) == {d \in Present : setting[d] # p}

\* configure_transaction, when each device takes the value or has it.
DevicesTake(p) ==
    /\ setting' = [d \in Devices |-> IF d \in Present THEN p ELSE setting[d]]
    /\ failed' = {}

\* restore_transaction: each device is set back, which some may refuse.
DevicesPutBack(p) ==
    \E lost \in SUBSET Present : \E kept \in SUBSET lost :
        /\ setting' = [d \in Devices |-> IF d \in kept THEN p ELSE setting[d]]
        /\ failed' = failed \cup lost

Reapply ==
    \/ DevicesTake(config.pointer)
    \/ Differing(config.pointer) # {} /\ DevicesPutBack(config.pointer)

DeviceAdded(d) ==
    /\ d \notin plugged
    /\ plugged' = plugged \cup {d}
    /\ \/ /\ setting' = [setting EXCEPT ![d] = config.pointer]
          /\ failed' = failed
       \/ /\ d \in Capable
          /\ \E p \in Pointers : setting' = [setting EXCEPT ![d] = p]
          /\ failed' = failed \cup {d}
    /\ UNCHANGED <<settings, files, fragment, debounce, refused>>

DeviceRemoved(d) ==
    /\ d \in plugged
    /\ plugged' = plugged \ {d}
    /\ setting' = [setting EXCEPT ![d] = Defaults.pointer]
    /\ failed' = failed \ {d}
    /\ UNCHANGED <<settings, files, fragment, debounce, refused>>

-----------------------------------------------------------------------------
(* The transaction. *)

\* Output changes wait for a restart: what is applied and saved has the old.
Applicable(next) == [next EXCEPT !.mode = config.mode]

KeymapChanges(next) == next.layout # config.layout
DevicesChange(next) == next.pointer # config.pointer

\* Mutant of Feasible: an unknown layout is noticed only by the seat.
FeasibleUncompiled(next) == DevicesChange(next) => Present # {}

\* The keymap compiles, and some device supports what changes (preflight).
Feasible(next) ==
    /\ KeymapChanges(next) => next.layout \in Compilable
    /\ DevicesChange(next) => Present # {}

Saved(c) ==
    /\ file' = c
    /\ edited' = FALSE
    /\ unread' = TRUE

\* The file is replaced by a rename: a failed write leaves it alone.
SaveFails ==
    /\ unread' \in {unread, TRUE}
    /\ UNCHANGED <<file, edited>>

Accept(next, save) ==
    /\ Feasible(next)
    /\ IF DevicesChange(next) THEN DevicesTake(next.pointer) ELSE UNCHANGED devices
    /\ IF save THEN Saved(next) ELSE UNCHANGED files
    /\ config' = next
    /\ keymap' = next.layout
    /\ inputChanged' = (inputChanged \/ KeymapChanges(next) \/ DevicesChange(next))

\* Mutant of Undone: what was applied before the failure stays.
NotUndone(next) ==
    IF DevicesChange(next) THEN DevicesTake(next.pointer) ELSE UNCHANGED devices

Undone(next) ==
    IF DevicesChange(next) THEN DevicesPutBack(next.pointer) ELSE UNCHANGED devices

Reject(next, save) ==
    /\ \/ ~Feasible(next) /\ UNCHANGED <<devices, files>>
       \/ /\ Feasible(next) /\ DevicesChange(next) /\ Differing(next.pointer) # {}
          /\ DevicesPutBack(next.pointer) /\ UNCHANGED files
       \/ Feasible(next) /\ save /\ SaveFails /\ Undone(next)
       \/ /\ Feasible(next) /\ KeymapChanges(next) /\ Undone(next)
          /\ IF save THEN Saved(config) \/ Saved(next) ELSE UNCHANGED files
    /\ UNCHANGED settings

\* commit_configuration, for an integration.
Update(asked) ==
    /\ Accept(Applicable(asked), TRUE) \/ Reject(Applicable(asked), TRUE)
    /\ refused' = (refused /\ ~unread')
    /\ UNCHANGED <<fragment, debounce, plugged>>

-----------------------------------------------------------------------------
(* The files and their watcher. *)

EditFile(contents) ==
    /\ contents # file
    /\ file' = contents
    /\ edited' = TRUE /\ unread' = TRUE /\ refused' = FALSE
    /\ UNCHANGED <<settings, fragment, debounce, plugged, devices>>

EditFragment(contents) ==
    /\ contents # fragment
    /\ fragment' = contents
    /\ unread' = TRUE /\ refused' = FALSE
    /\ UNCHANGED <<settings, file, edited, debounce, plugged, devices>>

\* Mutant of WatchEvent: an event takes the armed timer away.
WatchEventDisarms ==
    /\ unread
    /\ unread' = FALSE
    /\ debounce' = (config.reload /\ ~debounce)
    /\ UNCHANGED <<settings, file, edited, fragment, refused, plugged, devices>>

\* One of the events; more may follow.
WatchEvent ==
    /\ unread
    /\ unread' \in BOOLEAN
    /\ debounce' = (debounce \/ config.reload)
    /\ UNCHANGED <<settings, file, edited, fragment, refused, plugged, devices>>

\* The timer of the watcher: reload.
Reload ==
    /\ debounce /\ debounce' = FALSE
    /\ \/ /\ ~config.reload \/ (Loads /\ Loaded = config)
          /\ refused' = (refused /\ ~config.reload)
          /\ UNCHANGED <<settings, files, devices>>
       \/ config.reload /\ ~Loads /\ refused' = TRUE /\ UNCHANGED <<settings, files, devices>>
       \/ /\ config.reload /\ Loads /\ Loaded # config
          /\ \/ Accept(Applicable(Loaded), FALSE) /\ refused' = FALSE
             \/ Reject(Applicable(Loaded), FALSE) /\ refused' = TRUE
    /\ UNCHANGED <<fragment, plugged>>

-----------------------------------------------------------------------------
ConfigInit ==
    /\ file \in Edits /\ fragment \in Fragments
    /\ edited = TRUE /\ unread = FALSE /\ debounce = FALSE /\ refused = FALSE
    /\ config = Loaded /\ config.layout \in Compilable
    /\ keymap = config.layout
    /\ plugged = {} /\ setting = [d \in Devices |-> Defaults.pointer] /\ failed = {}
    /\ inputChanged = FALSE

ConfigTypeOK ==
    /\ config \in Config
    /\ file \in Config \cup Edits \cup {Broken} /\ fragment \in Fragments
    /\ {edited, unread, debounce, refused, inputChanged} \subseteq BOOLEAN
    /\ keymap \in Compilable
    /\ plugged \subseteq Devices /\ setting \in [Devices -> Pointers]
    /\ failed \subseteq Present

\* What runs is what the configuration says, whatever was refused on the way: the
\* keymap is that of its layout, which compiles, and a device that supports a setting has its value,
\* unless setting it, or setting it back, failed (state.rs:771-827, input_devices.rs).
InForce ==
    /\ keymap = config.layout /\ keymap \in Compilable
    /\ \A d \in Present : setting[d] # config.pointer => d \in failed

\* With hot_reload on, the files agree with the configuration in force, or they were
\* refused, or they will be read: the events and the timer of the watcher never miss
\* the last change, whoever made it (config.rs:1362-1396).
EditsTaken ==
    config.reload =>
        \/ unread \/ debounce \/ refused
        \/ Loads /\ Applicable(Loaded) = config
=============================================================================
