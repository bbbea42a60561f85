---------------------------- MODULE SettingsProofs ----------------------------
(***************************************************************************)
(* Proofs about DisplayModes and the ConfigTransaction it extends, for any *)
(* devices, layouts, modes, requests and edits.                            *)
(***************************************************************************)
EXTENDS DisplayModes, TLAPS

\* The configuration in force and the keymap that goes with it.
Applied ==
    /\ config \in Config
    /\ keymap \in Compilable /\ keymap = config.layout
    /\ inputChanged \in BOOLEAN

\* A device without the configured value is one that failed to take a value.
DevicesFollow ==
    /\ plugged \subseteq Devices
    /\ setting \in [Devices -> Pointers]
    /\ failed \subseteq Present
    /\ \A d \in Present : setting[d] # config.pointer => d \in failed

\* A file the compositor wrote last names the mode of the configuration in force.
FilesKept ==
    /\ file \in Config \cup Edits \cup {Broken} /\ fragment \in Fragments
    /\ edited \in BOOLEAN /\ unread \in BOOLEAN
    /\ ~edited => file \in Config /\ file.mode = config.mode

Flags ==
    /\ debounce \in BOOLEAN /\ refused \in BOOLEAN
    /\ expired \in BOOLEAN /\ active \in BOOLEAN /\ woken \in BOOLEAN
    /\ timers \in 0..MaxTimers

\* The mode on the screen, or the one a preview will go back to, is the one of the
\* configuration in force.
ModeKept ==
    /\ mode \in Modes
    /\ preview = NoPreview => mode = StartMode(config.mode)
    /\ preview # NoPreview => preview = StartMode(config.mode)

\* The strengthening of TypeOK, InForce, EditsTaken and Settled.
SettingsInv == Applied /\ DevicesFollow /\ FilesKept /\ Flags /\ ModeKept /\ EditsTaken

-----------------------------------------------------------------------------
(* Layers. *)

\* What is loaded is a configuration: each setting comes from a layer that has it.
LEMMA LoadedConfig ==
    ASSUME Loads, file \in Config \cup Edits \cup {Broken}, fragment \in Fragments
    PROVE  Loaded \in Config
<1> USE ConfigAssumption
<1>1. file \in Config \cup Edits
  BY DEF Loads
<1>2. ASSUME NEW f \in {"layout", "pointer", "mode", "reload"}
      PROVE  Layered(f) \in Values[f]
  <2>1. Defaults[f] \in Values[f]
    BY DEF Config, Values
  <2>2. f \in DOMAIN fragment => fragment[f] \in Values[f]
    OBVIOUS
  <2>3. f \in DOMAIN file => file[f] \in Values[f]
    <3>1. CASE file \in Config
      BY <3>1 DEF Config, Values
    <3>2. CASE file \in Edits
      BY <3>2
    <3> QED BY <1>1, <3>1, <3>2
  <2> QED BY <2>1, <2>2, <2>3 DEF Layered
<1> QED BY <1>2 DEF Loaded, Config, Values

LEMMA ApplicableConfig ==
    ASSUME config \in Config, NEW next \in Config
    PROVE  /\ Applicable(next) \in Config
           /\ Applicable(next).mode = config.mode
BY DEF Applicable, Config

\* What the file says of the mode counts when the fragment says nothing of it.
LEMMA LoadedMode ==
    ASSUME file \in Config, "mode" \notin DOMAIN fragment
    PROVE  Loaded.mode = file.mode
BY DEF Loaded, Layered, Config

LEMMA StartModes ==
    ASSUME NEW m \in Modes \cup {Automatic}
    PROVE  /\ StartMode(m) \in Modes
           /\ m \in Modes => StartMode(m) = m
BY ConfigAssumption, DisplayAssumption DEF StartMode

-----------------------------------------------------------------------------
(* Devices. *)

LEMMA TakeFollows ==
    ASSUME DevicesFollow, NEW p \in Pointers, DevicesTake(p)
    PROVE  /\ setting' \in [Devices -> Pointers] /\ failed' = {}
           /\ \A d \in Present : setting'[d] = p
BY DEF DevicesFollow, DevicesTake, Present

LEMMA PutBackFollows ==
    ASSUME DevicesFollow, NEW p \in Pointers, DevicesPutBack(p)
    PROVE  /\ setting' \in [Devices -> Pointers] /\ failed' \subseteq Present
           /\ \A d \in Present : setting'[d] # config.pointer => d \in failed'
<1>1. PICK lost \in SUBSET Present : \E kept \in SUBSET lost :
         /\ setting' = [d \in Devices |-> IF d \in kept THEN p ELSE setting[d]]
         /\ failed' = failed \cup lost
  BY DEF DevicesPutBack
<1>2. PICK kept \in SUBSET lost :
         /\ setting' = [d \in Devices |-> IF d \in kept THEN p ELSE setting[d]]
         /\ failed' = failed \cup lost
  BY <1>1
<1>3. Present \subseteq Devices
  BY DEF DevicesFollow, Present
<1>4. ASSUME NEW d \in Present, setting'[d] # config.pointer
      PROVE  d \in failed'
  <2>1. CASE d \in kept
    BY <1>2, <2>1
  <2>2. CASE d \notin kept
    BY <1>2, <1>3, <1>4, <2>2 DEF DevicesFollow
  <2> QED BY <2>1, <2>2
<1> QED BY <1>2, <1>4 DEF DevicesFollow

\* Configuring the devices again keeps them with the configuration.
LEMMA ReapplyFollows ==
    ASSUME DevicesFollow, Applied, Reapply, plugged' = plugged, config'.pointer = config.pointer
    PROVE  DevicesFollow'
<1>1. config.pointer \in Pointers
  BY DEF Applied, Config
<1>2. Present' = Present
  BY DEF Present
<1>3. CASE DevicesTake(config.pointer)
  BY <1>1, <1>2, <1>3, TakeFollows DEF DevicesFollow
<1>4. CASE DevicesPutBack(config.pointer)
  BY <1>1, <1>2, <1>4, PutBackFollows DEF DevicesFollow
<1> QED BY <1>3, <1>4 DEF Reapply

-----------------------------------------------------------------------------
(* The transaction. *)

\* An accepted configuration is in force as a whole.
LEMMA AcceptApplies ==
    ASSUME Applied, DevicesFollow, plugged' = plugged,
           NEW next \in Config, NEW save \in BOOLEAN, Accept(next, save)
    PROVE  Applied' /\ DevicesFollow'
<1>1. Applied'
  BY DEF Applied, Accept, Feasible, KeymapChanges, DevicesChange, Config
<1>2. Present' = Present /\ config' = next
  BY DEF Present, Accept
<1>3. CASE DevicesChange(next)
  <2>1. DevicesTake(next.pointer) /\ next.pointer \in Pointers
    BY <1>3 DEF Accept, Config
  <2> QED BY <1>1, <1>2, <2>1, TakeFollows DEF DevicesFollow
<1>4. CASE ~DevicesChange(next)
  <2>1. next.pointer = config.pointer /\ UNCHANGED devices
    BY <1>4 DEF Accept, DevicesChange
  <2> QED BY <1>1, <1>2, <2>1 DEF DevicesFollow, devices
<1> QED BY <1>1, <1>3, <1>4

\* A rejected one leaves the configuration, the keymap and the devices.
LEMMA RejectRestores ==
    ASSUME Applied, DevicesFollow, plugged' = plugged,
           NEW next \in Config, NEW save \in BOOLEAN, Reject(next, save)
    PROVE  Applied' /\ DevicesFollow' /\ config' = config
<1>1. Applied' /\ config' = config
  BY DEF Applied, Reject, settings
<1>2. Present' = Present /\ next.pointer \in Pointers
  BY DEF Present, Config
<1>3. UNCHANGED devices \/ DevicesPutBack(next.pointer)
  BY DEF Reject, Undone
<1>4. CASE UNCHANGED devices
  BY <1>1, <1>2, <1>4 DEF DevicesFollow, devices
<1>5. CASE DevicesPutBack(next.pointer)
  BY <1>1, <1>2, <1>5, PutBackFollows DEF DevicesFollow
<1> QED BY <1>1, <1>3, <1>4, <1>5

\* Whatever is written to the file is a configuration with the mode in force, and the
\* watcher will tell.
LEMMA TransactionFiles ==
    ASSUME Applied, FilesKept, fragment' = fragment,
           NEW next \in Config, next.mode = config.mode, NEW save \in BOOLEAN,
           Accept(next, save) \/ Reject(next, save)
    PROVE  /\ FilesKept'
           /\ config'.mode = config.mode
           /\ unread' \/ UNCHANGED <<file, unread>>
           /\ ~save => UNCHANGED files
           /\ Accept(next, save) /\ save => unread'
<1>1. config'.mode = config.mode /\ config' \in Config
  BY DEF Applied, Accept, Reject, settings
<1>2. \/ UNCHANGED files
      \/ save /\ SaveFails
      \/ save /\ \E c \in {config, next} : Saved(c)
  BY DEF Accept, Reject
<1>3. CASE UNCHANGED files
  <2>1. Accept(next, save) /\ save => unread'
    BY DEF Accept, Saved
  <2> QED BY <1>1, <1>3, <2>1 DEF FilesKept, files
<1>4. CASE save /\ SaveFails
  <2>1. Accept(next, save) => unread'
    BY <1>4 DEF Accept, Saved
  <2> QED BY <1>1, <1>4, <2>1 DEF FilesKept, SaveFails
<1>5. CASE save /\ \E c \in {config, next} : Saved(c)
  BY <1>1, <1>5 DEF FilesKept, Saved, Applied
<1> QED BY <1>2, <1>3, <1>4, <1>5

-----------------------------------------------------------------------------
(* The initial states and the steps. *)

LEMMA InitInv == Init => SettingsInv
<1> SUFFICES ASSUME Init PROVE SettingsInv
  OBVIOUS
<1> USE ConfigAssumption, DisplayAssumption
<1>1. Loads /\ Loaded \in Config
  BY LoadedConfig DEF Init, ConfigInit, Loads
<1>2. Applied
  BY <1>1 DEF Init, ConfigInit, Applied
<1>3. DevicesFollow
  BY <1>1 DEF Init, ConfigInit, DevicesFollow, Present, Config
<1>4. FilesKept
  BY DEF Init, ConfigInit, FilesKept
<1>5. Flags
  <2>1. timers = 0 /\ 0 \in 0..MaxTimers
    BY DEF Init
  <2>2. /\ debounce = FALSE /\ refused = FALSE
        /\ expired = FALSE /\ active = TRUE /\ woken = FALSE
    BY DEF Init, ConfigInit
  <2> QED BY <2>1, <2>2 DEF Flags
<1>6. ModeKept
  BY <1>1, StartModes DEF Init, ConfigInit, ModeKept, Config
<1>7. EditsTaken
  BY <1>1 DEF Init, ConfigInit, EditsTaken, Applicable, Config
<1> QED BY <1>2, <1>3, <1>4, <1>5, <1>6, <1>7 DEF SettingsInv

\* What EditsTaken says follows when nothing it is about has changed.
LEMMA TakenStays ==
    ASSUME EditsTaken, UNCHANGED <<config, file, fragment>>,
           unread => unread', debounce => debounce', refused => refused' \/ unread'
    PROVE  EditsTaken'
BY DEF EditsTaken, Applicable, Loaded, Layered, Loads

\* The screen stays as it is when the configuration keeps its mode.
LEMMA ModeStays ==
    ASSUME ModeKept, UNCHANGED <<mode, preview>>, config'.mode = config.mode
    PROVE  ModeKept'
BY DEF ModeKept

LEMMA UpdateInv ==
    ASSUME SettingsInv, NEW asked \in Asked, Update(asked), woken' = TRUE, UNCHANGED <<display, active>>
    PROVE  SettingsInv'
<1> DEFINE next == Applicable(asked)
<1>1. next \in Config /\ next.mode = config.mode
  BY ConfigAssumption, ApplicableConfig DEF SettingsInv, Applied
<1> HIDE DEF next
<1>2. Accept(next, TRUE) \/ Reject(next, TRUE)
  BY DEF Update, next
<1>3. UNCHANGED <<fragment, debounce, plugged>> /\ refused' = (refused /\ ~unread')
  BY DEF Update
<1>4. Applied' /\ DevicesFollow'
  BY <1>1, <1>2, <1>3, AcceptApplies, RejectRestores DEF SettingsInv
<1>5. /\ FilesKept'
      /\ config'.mode = config.mode
      /\ unread' \/ UNCHANGED <<file, unread>>
      /\ Accept(next, TRUE) => unread'
  BY <1>1, <1>2, <1>3, TransactionFiles DEF SettingsInv
<1>6. Flags'
  BY <1>3, <1>5 DEF SettingsInv, Flags, FilesKept, display
<1>7. ModeKept'
  BY <1>5, ModeStays DEF SettingsInv, display
<1>8. EditsTaken'
  <2>1. CASE unread'
    BY <2>1 DEF EditsTaken
  <2>2. CASE ~unread'
    <3>1. Reject(next, TRUE) /\ config' = config
      BY <1>2, <1>5, <2>2 DEF Reject, settings
    <3>2. UNCHANGED <<config, file, fragment, debounce>> /\ unread' = unread
      BY <1>3, <1>5, <2>2, <3>1
    <3>3. refused => refused'
      BY <1>3, <2>2 DEF SettingsInv, Flags
    <3> QED BY <3>2, <3>3, TakenStays DEF SettingsInv
  <2> QED BY <2>1, <2>2
<1> QED BY <1>4, <1>5, <1>6, <1>7, <1>8 DEF SettingsInv

LEMMA ReloadInv ==
    ASSUME SettingsInv, Reload, woken' = TRUE, UNCHANGED <<display, active>>
    PROVE  SettingsInv'
<1>1. UNCHANGED <<fragment, plugged>> /\ debounce' = FALSE
  BY DEF Reload
<1>2. CASE UNCHANGED <<settings, files, devices>>
  <2>1. Applied' /\ DevicesFollow' /\ FilesKept' /\ ModeKept'
    BY <1>1, <1>2 DEF SettingsInv, Applied, DevicesFollow, FilesKept, ModeKept, Present,
                      settings, files, devices, display
  <2>2. CASE ~config.reload
    <3>1. refused' \in BOOLEAN
      BY <2>2 DEF Reload, SettingsInv, Flags
    <3>2. EditsTaken'
      BY <1>2, <2>2 DEF EditsTaken, settings
    <3> QED BY <1>1, <2>1, <3>1, <3>2 DEF SettingsInv, Flags, display
  <2>3. CASE config.reload /\ refused' = TRUE
    BY <1>1, <2>1, <2>3 DEF SettingsInv, Flags, EditsTaken, display
  <2>4. CASE config.reload /\ Loads /\ Loaded = config
    <3>1. refused' \in BOOLEAN
      BY <2>4 DEF Reload, SettingsInv, Flags
    <3>2. Loads' /\ Loaded' = config'
      BY <1>1, <1>2, <2>4 DEF Loads, Loaded, Layered, settings, files
    <3>3. Applicable(Loaded)' = config'
      BY <2>1, <3>2 DEF Applicable, Applied, Config
    <3> QED BY <1>1, <2>1, <3>1, <3>2, <3>3 DEF SettingsInv, Flags, EditsTaken, display
  <2>5. CASE /\ config.reload /\ Loads
             /\ Accept(Applicable(Loaded), FALSE) /\ refused' = FALSE
    <3>1. config' = Applicable(Loaded) /\ config' = config
      BY <1>2, <2>5 DEF Accept, settings
    <3>2. Loads' /\ Loaded' = Loaded
      BY <1>1, <1>2, <2>5 DEF Loads, Loaded, Layered, files
    <3>3. Applicable(Loaded)' = config'
      BY <3>1, <3>2 DEF Applicable
    <3> QED BY <1>1, <2>1, <2>5, <3>2, <3>3 DEF SettingsInv, Flags, EditsTaken, display
  <2> QED BY <2>2, <2>3, <2>4, <2>5 DEF Reload
<1>3. CASE /\ config.reload /\ Loads
           /\ \/ Accept(Applicable(Loaded), FALSE) /\ refused' = FALSE
              \/ Reject(Applicable(Loaded), FALSE) /\ refused' = TRUE
  <2> DEFINE next == Applicable(Loaded)
  <2>1. next \in Config /\ next.mode = config.mode
    BY <1>3, LoadedConfig, ApplicableConfig DEF SettingsInv, Applied, FilesKept
  <2>2. next = [Loaded EXCEPT !.mode = config.mode]
    BY DEF Applicable
  <2> HIDE DEF next
  <2>3. Accept(next, FALSE) \/ Reject(next, FALSE)
    BY <1>3 DEF next
  <2>4. Applied' /\ DevicesFollow'
    BY <1>1, <2>1, <2>3, AcceptApplies, RejectRestores DEF SettingsInv
  <2>5. FilesKept' /\ config'.mode = config.mode /\ UNCHANGED files
    BY <1>1, <2>1, <2>3, TransactionFiles DEF SettingsInv
  <2>6. ModeKept'
    BY <2>5, ModeStays DEF SettingsInv, display
  <2>7. Flags'
    BY <1>1, <1>3 DEF SettingsInv, Flags, display
  <2>8. EditsTaken'
    <3>1. CASE refused'
      BY <3>1 DEF EditsTaken
    <3>2. CASE ~refused'
      <4>1. config' = next
        BY <1>3, <3>2 DEF Accept, next
      <4>2. Loads' /\ Loaded' = Loaded
        BY <1>1, <1>3, <2>5 DEF Loads, Loaded, Layered, files
      <4>3. Applicable(Loaded)' = config'
        BY <2>2, <2>5, <4>1, <4>2 DEF Applicable
      <4> QED BY <4>2, <4>3 DEF EditsTaken
    <3> QED BY <3>1, <3>2
  <2> QED BY <2>4, <2>5, <2>6, <2>7, <2>8 DEF SettingsInv
<1> QED BY <1>2, <1>3 DEF Reload

LEMMA WatchEventInv ==
    ASSUME SettingsInv, WatchEvent, woken' = TRUE, UNCHANGED <<display, active>>
    PROVE  SettingsInv'
<1>1. UNCHANGED <<config, keymap, inputChanged, file, edited, fragment, refused, plugged,
                  setting, failed, mode, preview, expired, timers, active>>
  BY DEF WatchEvent, settings, devices, display
<1>2. unread' \in BOOLEAN /\ debounce' = (debounce \/ config.reload)
  BY DEF WatchEvent
<1>3. Applied' /\ DevicesFollow' /\ ModeKept'
  BY <1>1 DEF SettingsInv, Applied, DevicesFollow, Present, ModeKept
<1>4. FilesKept' /\ Flags'
  <2>1. FilesKept'
    BY <1>1, <1>2 DEF SettingsInv, FilesKept
  <2>2. debounce' \in BOOLEAN
    BY <1>2
  <2> QED BY <1>1, <2>1, <2>2 DEF SettingsInv, Flags
<1>5. EditsTaken'
  <2>1. config.reload => debounce'
    BY <1>2
  <2> QED BY <1>1, <2>1 DEF EditsTaken
<1> QED BY <1>3, <1>4, <1>5 DEF SettingsInv

LEMMA PluggingInv ==
    ASSUME SettingsInv, NEW d \in Devices, DeviceAdded(d) \/ DeviceRemoved(d),
           woken' = TRUE, UNCHANGED <<display, active>>
    PROVE  SettingsInv'
<1>1. UNCHANGED <<config, keymap, inputChanged, file, edited, unread, fragment, debounce,
                  refused, mode, preview, expired, timers, active>>
  BY DEF DeviceAdded, DeviceRemoved, settings, files, display
<1>2. Applied' /\ FilesKept' /\ Flags' /\ ModeKept'
  BY <1>1 DEF SettingsInv, Applied, FilesKept, Flags, ModeKept
<1>3. EditsTaken'
  BY <1>1, TakenStays DEF SettingsInv
<1>4. DevicesFollow'
  <2>1. config.pointer \in Pointers /\ config' = config /\ Defaults.pointer \in Pointers
    BY <1>1, ConfigAssumption DEF SettingsInv, Applied, Config
  <2>2. CASE DeviceAdded(d)
    BY <2>1, <2>2 DEF DeviceAdded, SettingsInv, DevicesFollow, Present
  <2>3. CASE DeviceRemoved(d)
    BY <2>1, <2>3 DEF DeviceRemoved, SettingsInv, DevicesFollow, Present
  <2> QED BY <2>2, <2>3
<1> QED BY <1>2, <1>3, <1>4 DEF SettingsInv

LEMMA UserInv == SettingsInv /\ User => SettingsInv'
<1> SUFFICES ASSUME SettingsInv, User PROVE SettingsInv'
  OBVIOUS
<1>1. UNCHANGED <<config, keymap, inputChanged, debounce, plugged, setting, failed,
                  mode, preview, expired, timers, active, woken>>
  BY DEF User, EditFile, EditFragment, settings, devices, display
<1>2. unread' = TRUE /\ refused' = FALSE
  BY DEF User, EditFile, EditFragment
<1>3. Applied' /\ DevicesFollow' /\ Flags' /\ ModeKept'
  BY <1>1, <1>2 DEF SettingsInv, Applied, DevicesFollow, Present, Flags, ModeKept
<1>4. FilesKept'
  BY <1>1, <1>2 DEF User, EditFile, EditFragment, SettingsInv, FilesKept
<1>5. EditsTaken'
  BY <1>2 DEF EditsTaken
<1> QED BY <1>3, <1>4, <1>5 DEF SettingsInv

-----------------------------------------------------------------------------
(* The loop. *)

\* A mode that is tried will go back to that of the configuration, and one that is
\* confirmed becomes it.
LEMMA IterateDisplay ==
    ASSUME SettingsInv, Iterate
    PROVE  /\ ModeKept' /\ timers' \in 0..MaxTimers /\ expired' \in BOOLEAN
           /\ \/ UNCHANGED <<config, file, edited>> /\ (unread => unread') /\ unread' \in BOOLEAN
              \/ /\ config' = [config EXCEPT !.mode = mode] /\ mode \in Modes
                 /\ file' = config' /\ edited' = FALSE /\ unread' = TRUE
           /\ keymap' = keymap
<1> USE ConfigAssumption, DisplayAssumption
<1>0. /\ mode \in Modes /\ config \in Config /\ unread \in BOOLEAN
      /\ timers \in 0..MaxTimers /\ expired \in BOOLEAN
      /\ StartMode(config.mode) \in Modes
  BY StartModes DEF SettingsInv, Applied, ModeKept, FilesKept, Flags, Config
<1>1. CASE UNCHANGED <<display, config, keymap, files>>
  BY <1>0, <1>1, ModeStays DEF SettingsInv, display, files
<1>2. CASE Revert /\ UNCHANGED <<config, keymap, files>>
  <2>1. CASE UNCHANGED display
    BY <1>1, <1>2, <2>1
  <2>2. CASE ~UNCHANGED display
    <3>1. Pending /\ mode' = preview /\ preview' = NoPreview /\ expired' = FALSE /\ timers' = timers
      BY <1>2, <2>2 DEF Revert
    <3>2. ModeKept'
      BY <1>0, <1>2, <3>1 DEF SettingsInv, ModeKept, Pending
    <3> QED BY <1>0, <1>2, <3>1, <3>2 DEF files
  <2> QED BY <2>1, <2>2
<1>3. ASSUME NEW m \in Modes, Preview(m), UNCHANGED <<config, keymap, files>>
      PROVE  /\ ModeKept' /\ timers' \in 0..MaxTimers /\ expired' \in BOOLEAN
             /\ UNCHANGED <<config, file, edited, unread, keymap>>
  <2>1. CASE UNCHANGED display
    BY <1>0, <1>3, <2>1, ModeStays DEF SettingsInv, display, files
  <2>2. CASE ~UNCHANGED display
    <3>1. ~Pending /\ timers < MaxTimers /\ timers' = timers + 1
      BY <1>3, <2>2 DEF Preview
    <3>2. timers' \in 0..MaxTimers
      BY <1>0, <3>1
    <3>3. CASE mode' = m /\ preview' = mode /\ expired' = FALSE
      <4>1. ModeKept'
        BY <1>0, <1>3, <3>1, <3>3 DEF SettingsInv, ModeKept, Pending, NoPreview
      <4> QED BY <1>3, <3>2, <3>3, <4>1 DEF files
    <3>4. CASE UNCHANGED <<mode, preview, expired>>
      BY <1>0, <1>3, <3>2, <3>4, ModeStays DEF SettingsInv, files
    <3> QED BY <1>3, <2>2, <3>3, <3>4 DEF Preview
  <2> QED BY <2>1, <2>2
<1>4. CASE Confirm
  <2>1. CASE /\ Pending
             /\ config' = [config EXCEPT !.mode = mode]
             /\ Saved(config')
             /\ preview' = NoPreview /\ expired' = FALSE
             /\ UNCHANGED <<mode, timers, keymap>>
    <3>1. config'.mode = mode /\ StartMode(mode) = mode
      BY <1>0, <2>1, StartModes DEF Config
    <3>2. ModeKept'
      BY <1>0, <2>1, <3>1 DEF ModeKept
    <3> QED BY <1>0, <2>1, <3>2 DEF Saved
  <2>2. CASE /\ IF Pending THEN SaveFails ELSE UNCHANGED files
             /\ UNCHANGED <<display, config, keymap>>
    BY <1>0, <2>2, ModeStays DEF SettingsInv, display, files, SaveFails
  <2> QED BY <1>4, <2>1, <2>2 DEF Confirm
<1>5. CASE Request
  BY <1>0, <1>1, <1>2, <1>3, <1>4, <1>5 DEF Request, files
<1> QED BY <1>1, <1>2, <1>5 DEF Iterate

LEMMA IterateInv == SettingsInv /\ Iterate => SettingsInv'
<1> SUFFICES ASSUME SettingsInv, Iterate PROVE SettingsInv'
  OBVIOUS
<1>1. /\ UNCHANGED <<fragment, debounce, plugged, active, keymap>>
      /\ inputChanged' = FALSE /\ refused' = (refused /\ ~unread') /\ woken' = FALSE
      /\ IF inputChanged THEN Reapply ELSE UNCHANGED devices
  BY IterateDisplay DEF Iterate
<1>2. /\ ModeKept' /\ timers' \in 0..MaxTimers /\ expired' \in BOOLEAN
      /\ \/ UNCHANGED <<config, file, edited>> /\ (unread => unread') /\ unread' \in BOOLEAN
         \/ /\ config' = [config EXCEPT !.mode = mode] /\ mode \in Modes
            /\ file' = config' /\ edited' = FALSE /\ unread' = TRUE
  BY IterateDisplay
<1>3. /\ config' \in Config
      /\ config'.layout = config.layout /\ config'.pointer = config.pointer
  BY <1>2 DEF SettingsInv, Applied, Config
<1>4. Applied'
  BY <1>1, <1>3 DEF SettingsInv, Applied
<1>5. DevicesFollow'
  <2>1. CASE Reapply
    BY <1>1, <1>3, <2>1, ReapplyFollows DEF SettingsInv
  <2>2. CASE UNCHANGED devices
    BY <1>1, <1>3, <2>2 DEF SettingsInv, DevicesFollow, Present, devices
  <2> QED BY <1>1, <2>1, <2>2
<1>6. FilesKept'
  <2>1. CASE UNCHANGED <<config, file, edited>> /\ unread' \in BOOLEAN
    BY <1>1, <2>1 DEF SettingsInv, FilesKept
  <2>2. CASE file' = config' /\ edited' = FALSE /\ unread' = TRUE
    BY <1>1, <1>3, <2>2 DEF SettingsInv, FilesKept
  <2> QED BY <1>2, <2>1, <2>2
<1>7. refused' \in BOOLEAN
  BY <1>1
<1>8. Flags'
  BY <1>1, <1>2, <1>7 DEF SettingsInv, Flags
<1>9. EditsTaken'
  <2>1. CASE unread'
    BY <2>1 DEF EditsTaken
  <2>2. CASE ~unread'
    <3>1. UNCHANGED <<config, file, fragment, debounce>> /\ ~unread
      BY <1>1, <1>2, <2>2
    <3>2. refused => refused'
      BY <1>1, <2>2 DEF SettingsInv, Flags
    <3> QED BY <3>1, <3>2, TakenStays DEF SettingsInv
  <2> QED BY <2>1, <2>2
<1> QED BY <1>2, <1>4, <1>5, <1>6, <1>8, <1>9 DEF SettingsInv

\* The steps that leave the configuration alone.
LEMMA RestInv ==
    SettingsInv /\ (DisplayTimer \/ Elapse \/ Pause \/ Resume \/ Supervise \/ UNCHANGED vars)
        => SettingsInv'
<1> SUFFICES ASSUME SettingsInv, DisplayTimer \/ Elapse \/ Pause \/ Resume \/ Supervise \/ UNCHANGED vars
             PROVE  SettingsInv'
  OBVIOUS
<1> USE DisplayAssumption
<1>1. UNCHANGED <<config, keymap, inputChanged, file, edited, unread, fragment, debounce,
                  refused, plugged, mode, preview>>
  BY DEF DisplayTimer, Elapse, Pause, Resume, Supervise, vars, configuration, settings, files, display
<1>2. Applied' /\ FilesKept' /\ ModeKept'
  BY <1>1 DEF SettingsInv, Applied, FilesKept, ModeKept
<1>3. EditsTaken'
  BY <1>1, TakenStays DEF SettingsInv
<1>4. Flags'
  <2>1. timers' \in 0..MaxTimers
    BY DEF SettingsInv, Flags, DisplayTimer, Elapse, Pause, Resume, Supervise, vars, display
  <2>2. expired' \in BOOLEAN /\ active' \in BOOLEAN /\ woken' \in BOOLEAN
    BY DEF SettingsInv, Flags, DisplayTimer, Elapse, Pause, Resume, Supervise, vars, display
  <2> QED BY <1>1, <2>1, <2>2 DEF SettingsInv, Flags
<1>5. DevicesFollow'
  <2>1. CASE Resume
    BY <1>1, <2>1, ReapplyFollows DEF Resume, SettingsInv
  <2>2. CASE ~Resume
    <3>1. UNCHANGED <<setting, failed>>
      BY <2>2 DEF DisplayTimer, Elapse, Pause, Supervise, vars, configuration, devices
    <3> QED BY <1>1, <3>1 DEF SettingsInv, DevicesFollow, Present
  <2> QED BY <2>1, <2>2
<1> QED BY <1>2, <1>3, <1>4, <1>5 DEF SettingsInv

LEMMA StepInv == SettingsInv /\ [Next]_vars => SettingsInv'
<1> SUFFICES ASSUME SettingsInv, [Next]_vars PROVE SettingsInv'
  OBVIOUS
<1>1. CASE Iterate
  BY <1>1, IterateInv
<1>2. CASE DisplayTimer \/ Elapse \/ Pause \/ Resume \/ Supervise \/ UNCHANGED vars
  BY <1>2, RestInv
<1>3. CASE Callback
  <2>1. woken' = TRUE /\ UNCHANGED <<display, active>>
    BY <1>3 DEF Callback
  <2>2. CASE \E asked \in Asked : Update(asked)
    BY <2>1, <2>2, UpdateInv
  <2>3. CASE WatchEvent
    BY <2>1, <2>3, WatchEventInv
  <2>4. CASE Reload
    BY <2>1, <2>4, ReloadInv
  <2>5. CASE \E d \in Devices : DeviceAdded(d) \/ DeviceRemoved(d)
    BY <2>1, <2>5, PluggingInv
  <2> QED BY <1>3, <2>2, <2>3, <2>4, <2>5 DEF Callback
<1>4. CASE User
  BY <1>4, UserInv
<1> QED BY <1>1, <1>2, <1>3, <1>4 DEF Next

LEMMA Invariance == Spec => []SettingsInv
<1>1. Init => SettingsInv
  BY InitInv
<1>2. SettingsInv /\ [Next]_vars => SettingsInv'
  BY StepInv
<1> QED BY <1>1, <1>2, PTL DEF Spec

-----------------------------------------------------------------------------
(* The theorems. *)

\* The variables have their types: in particular a keymap always compiles, and devices
\* that failed are plugged in.
THEOREM SettingsTypes == Spec => []TypeOK
<1>1. SettingsInv => TypeOK
  <2> SUFFICES ASSUME SettingsInv PROVE TypeOK
    OBVIOUS
  <2>1. preview \in Modes \cup {NoPreview}
    BY StartModes DEF SettingsInv, ModeKept, Applied, Config
  <2>2. ConfigTypeOK
    BY DEF SettingsInv, Applied, DevicesFollow, FilesKept, Flags, ConfigTypeOK
  <2> QED BY <2>1, <2>2 DEF SettingsInv, ModeKept, Flags, TypeOK
<1> QED BY <1>1, Invariance, PTL

\* Whatever is accepted, refused, saved or not saved, and whichever devices come and go,
\* the seat and the devices have the configuration in force, and there is a keymap for it
\* (state.rs:719-848).
THEOREM ConfigurationInForce == Spec => []InForce
<1>1. SettingsInv => InForce
  BY DEF SettingsInv, Applied, DevicesFollow, InForce
<1> QED BY <1>1, Invariance, PTL

\* A change of the files is never missed (config.rs:1362-1396).
THEOREM EditsAreTaken == Spec => []EditsTaken
<1>1. SettingsInv => EditsTaken
  BY DEF SettingsInv
<1> QED BY <1>1, Invariance, PTL

\* No mode stays that was not confirmed: without a preview the screen shows that of the
\* configuration in force, and that of the next start too when neither the user nor a
\* fragment has the last word about it (drm.rs:141-245, state.rs:762-765,
\* config.rs:1270-1275).
THEOREM ModeSettled == Spec => []Settled
<1>1. SettingsInv => Settled
  <2> SUFFICES ASSUME SettingsInv, ~Pending
               PROVE  /\ mode = StartMode(config.mode)
                      /\ ~edited /\ "mode" \notin DOMAIN fragment => mode = StartMode(Loaded.mode)
    BY DEF Settled
  <2>1. mode = StartMode(config.mode)
    BY DEF SettingsInv, ModeKept, Pending
  <2>2. ASSUME ~edited, "mode" \notin DOMAIN fragment
        PROVE  mode = StartMode(Loaded.mode)
    <3>1. file \in Config /\ file.mode = config.mode
      BY <2>2 DEF SettingsInv, FilesKept
    <3>2. Loaded.mode = config.mode
      BY <2>2, <3>1, LoadedMode
    <3> QED BY <2>1, <3>2
  <2> QED BY <2>1, <2>2
<1> QED BY <1>1, Invariance, PTL
=============================================================================
